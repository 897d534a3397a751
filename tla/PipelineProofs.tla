--------------------------- MODULE PipelineProofs ---------------------------
(***************************************************************************)
(* Proofs about the run model.  Whatever events arrive, in whatever order, it *)
(* takes nothing back and keeps the ledger of executions; and fed by           *)
(* `go test -json', for any packages, tests and commands, what it records of   *)
(* a run is what the tests did.                                             *)
(***************************************************************************)
EXTENDS Pipeline, SequenceLemmas

(***************************************************************************)
(* Any events.                                                              *)
(***************************************************************************)
\* A line: text without a newline.
Pieces == Seq(Symbols)

Recorded == [status : {None} \cup Verdicts \cup Unfinished,
             terminal : BOOLEAN,
             lines : Seq(Pieces)]

Types ==
  /\ partial \in [Keys -> Pieces]
  /\ occurrences \in [Packages -> [Tests -> Seq(Recorded)]]
  /\ open \in [Packages -> [Tests -> Nat]]
  /\ finished \in BOOLEAN

\* Until Finish, an occurrence has a status exactly when an event gave it one.
Undecided(occs) ==
  \A n \in DOMAIN occs :
    IF occs[n].terminal THEN occs[n].status \in Verdicts ELSE occs[n].status = None

StatusOK == ~finished => \A p \in Packages, t \in Tests : Undecided(occurrences[p][t])

IInv == Types /\ StatusOK /\ OpenIsLast
-----------------------------------------------------------------------------
\* What the joiner hands out and keeps for a key.
LEMMA JoinedIsText ==
  ASSUME Types, NEW k \in Keys, NEW chunk \in Seq(Bytes)
  PROVE  Completed(k, chunk) \in Seq(Pieces) /\ Kept(k, chunk) \in Pieces
<1> DEFINE buffered == Buffered(k, chunk)
<1>1. buffered \in Texts(Symbols, NL)
  <2>1. partial[k] \in Seq(Symbols \cup {NL}) /\ chunk \in Seq(Symbols \cup {NL})
    BY SeqMonotonic DEF Types, Pieces, Bytes
  <2> QED
    BY <2>1 DEF Buffered, Texts
<1> HIDE DEF buffered
<1>2. PICK i : i = LastIndex(buffered, NL)
  OBVIOUS
<1>3. CutsOff(Symbols, NL, buffered, IF i = 0 THEN <<>> ELSE Split(Before(buffered, i), NL),
              After(buffered, i))
  BY <1>1, <1>2, SymbolsAssumption, SplitAtLast
<1> QED
  BY <1>2, <1>3 DEF CutsOff, Completed, Kept, Pieces, buffered
-----------------------------------------------------------------------------
\* The ledger's entries for the occurrences of a test.
Entries(occs) == [n \in DOMAIN occs |-> Entry(occs[n])]

Statuses == {"running"} \cup Verdicts \cup Unfinished

\* Nothing that was recorded is taken back.
Extends(before, after) ==
  \A n \in DOMAIN before :
    /\ n \in DOMAIN after
    /\ IsPrefix(before[n].lines, after[n].lines)
    /\ before[n].terminal => after[n].terminal /\ after[n].status = before[n].status

\* What the ledger makes of a change: nothing, a new entry, or a decision.
Decided(entries, decision) ==
  IF entries # <<>> /\ entries[Len(entries)] = "running"
  THEN [entries EXCEPT ![Len(entries)] = decision]
  ELSE Append(entries, decision)

Entered(before, after) ==
  \/ Entries(after) = Entries(before)
  \/ Entries(after) = Append(Entries(before), "running")
  \/ \E decision \in Verdicts : Entries(after) = Decided(Entries(before), decision)

Change(before, after) ==
  /\ after \in Seq(Recorded) /\ Undecided(after)
  /\ Extends(before, after)
  /\ Entered(before, after)

LEMMA PrefixOfItself == \A s \in Seq(Pieces) : IsPrefix(s, s)
BY DEF IsPrefix

LEMMA UnchangedLines ==
  ASSUME NEW occs \in Seq(Recorded)
  PROVE  /\ DOMAIN occs = 1..Len(occs)
         /\ \A n \in 1..Len(occs) : IsPrefix(occs[n].lines, occs[n].lines)
<1>1. \A n \in 1..Len(occs) : occs[n] \in Recorded
  OBVIOUS
<1>2. \A occ \in Recorded : occ.lines \in Seq(Pieces)
  BY DEF Recorded
<1> QED
  BY <1>1, <1>2, PrefixOfItself

LEMMA PrefixOfMore == \A s, t \in Seq(Pieces) : IsPrefix(s, s \o t)
<1> TAKE s, t \in Seq(Pieces)
<1>1. Len(s) <= Len(s \o t)
  OBVIOUS
<1>2. SubSeq(s, 1, Len(s)) = s
  OBVIOUS
<1>3. SubSeq(s \o t, 1, Len(s)) = s
  <2>1. SubSeq(s \o t, 1, Len(s)) \in Seq(Pieces) /\ Len(SubSeq(s \o t, 1, Len(s))) = Len(s)
    OBVIOUS
  <2>2. \A i \in 1..Len(s) : SubSeq(s \o t, 1, Len(s))[i] = s[i]
    OBVIOUS
  <2> QED
    BY <2>1, <2>2, SeqEqual
<1> QED
  BY <1>1, <1>2, <1>3 DEF IsPrefix

LEMMA EntriesAreStatuses ==
  ASSUME NEW occs \in Seq(Recorded)
  PROVE  /\ Entries(occs) \in Seq(Statuses)
         /\ Len(Entries(occs)) = Len(occs)
         /\ \A n \in 1..Len(occs) : Entries(occs)[n] = Entry(occs[n])
<1>1. \A occ \in Recorded : Entry(occ) \in Statuses
  BY DEF Recorded, Entry, Statuses
<1>2. Len(occs) \in Nat /\ DOMAIN occs = 1..Len(occs) /\ \A n \in 1..Len(occs) : occs[n] \in Recorded
  OBVIOUS
<1>3. Entries(occs) \in [1..Len(occs) -> Statuses]
  BY <1>1, <1>2 DEF Entries
<1> QED
  BY <1>2, <1>3 DEF Entries

LEMMA SameEntries ==
  \A e, f \in Seq(Statuses) : Len(e) = Len(f) /\ (\A n \in 1..Len(e) : e[n] = f[n]) => e = f
BY SeqEqual

\* A list after one of its occurrences was replaced.
Replaced(occs, k, new, after) ==
  /\ after \in Seq(Recorded)
  /\ Len(after) = Len(occs)
  /\ after[k] = new
  /\ \A i \in 1..Len(occs) : i # k => after[i] = occs[i]

LEMMA ReplacedIsReplaced ==
  ASSUME NEW occs \in Seq(Recorded), NEW k \in 1..Len(occs), NEW new \in Recorded
  PROVE  Replaced(occs, k, new, [occs EXCEPT ![k] = new])
BY ReplacedElement DEF Replaced

LEMMA AllButTheLast == \A m \in Nat : \A n \in 1..m + 1 : n = m + 1 \/ n \in 1..m
OBVIOUS

LEMMA NewIsRecorded ==
  /\ NewOccurrence \in Recorded
  /\ NewOccurrence.status = None /\ NewOccurrence.terminal = FALSE
  /\ Entry(NewOccurrence) = "running"
BY DEF NewOccurrence, Recorded, Entry

\* Output alone leaves the entries as they are, unless it is the first of a test.
Grown(before, after) ==
  IF before = <<>>
  THEN Len(after) \in {0, 1} /\ \A n \in 1..Len(after) : Entries(after)[n] = "running"
  ELSE Entries(after) = Entries(before)

\* Output of a test: the last occurrence grows, or the first one is entered.
LEMMA LinesAreAChange ==
  ASSUME NEW before \in Seq(Recorded), Undecided(before), NEW lines \in Seq(Pieces)
  PROVE  /\ Change(before, WithLines(before, lines))
         /\ OpenedBy(Len(before), before, lines) = Len(WithLines(before, lines))
         /\ Grown(before, WithLines(before, lines))
<1> DEFINE after == WithLines(before, lines)
<1>1. CASE lines = <<>>
  <2>1. after = before /\ OpenedBy(Len(before), before, lines) = Len(before)
    BY <1>1 DEF WithLines, OpenedBy
  <2>2. Extends(before, before)
    BY UnchangedLines DEF Extends
  <2>3. Grown(before, before)
    BY DEF Grown
  <2> QED
    BY <2>1, <2>2, <2>3 DEF Change, Entered
<1>2. CASE lines # <<>> /\ before = <<>>
  <2> DEFINE known == <<NewOccurrence>>
             first == [known[1] EXCEPT !.lines = @ \o lines]
  <2>1. known \in Seq(Recorded) /\ Len(known) = 1 /\ known[1] = NewOccurrence
    BY NewIsRecorded
  <2>2. first \in Recorded /\ first.status = None /\ first.terminal = FALSE
    <3>1. NewOccurrence.lines \o lines \in Seq(Pieces)
      BY DEF NewOccurrence
    <3> QED
      BY <2>1, <3>1, NewIsRecorded DEF Recorded
  <2>3. after \in Seq(Recorded) /\ Len(after) = 1 /\ after[1] = first
    <3>1. after = [known EXCEPT ![1] = first]
      BY <1>2, <2>1 DEF WithLines
    <3>2. 1 \in 1..Len(known)
      BY <2>1
    <3> HIDE DEF known, first, after
    <3>3. Replaced(known, 1, first, [known EXCEPT ![1] = first])
      BY <2>1, <2>2, <3>2, ReplacedIsReplaced
    <3> QED
      BY <2>1, <3>1, <3>3 DEF Replaced
  <2> HIDE DEF first, after
  <2>4. Undecided(after) /\ Extends(before, after)
    BY <1>2, <2>2, <2>3 DEF Undecided, Extends
  <2>5. Entries(after) = Append(Entries(before), "running")
    <3>1. Entries(before) = <<>> /\ Entries(after) = <<"running">>
      BY <1>2, <2>2, <2>3 DEF Entries, Entry
    <3> QED
      BY <3>1
  <2>6. OpenedBy(Len(before), before, lines) = Len(after)
    BY <1>2, <2>3 DEF OpenedBy
  <2>7. Grown(before, after)
    BY <1>2, <2>2, <2>3 DEF Grown, Entries, Entry
  <2> QED
    BY <2>3, <2>4, <2>5, <2>6, <2>7 DEF Change, Entered, after
<1>3. CASE lines # <<>> /\ before # <<>>
  <2> DEFINE last == Len(before)
             grown == [before[last] EXCEPT !.lines = @ \o lines]
  <2>1. last \in 1..Len(before) /\ before[last] \in Recorded
    BY <1>3
  <2>2. /\ grown \in Recorded /\ grown.status = before[last].status
        /\ grown.terminal = before[last].terminal /\ IsPrefix(before[last].lines, grown.lines)
    <3>1. before[last].lines \in Seq(Pieces) /\ before[last].lines \o lines \in Seq(Pieces)
      BY <2>1 DEF Recorded
    <3> QED
      BY <2>1, <3>1, PrefixOfMore DEF Recorded
  <2>3. after = [before EXCEPT ![last] = grown]
    BY <1>3 DEF WithLines
  <2> HIDE DEF grown
  <2>4. /\ after \in Seq(Recorded) /\ Len(after) = Len(before) /\ after[last] = grown
        /\ \A n \in 1..Len(before) : n # last => after[n] = before[n]
    BY <2>1, <2>2, <2>3, ReplacedElement
  <2> HIDE DEF after
  <2>5. Undecided(after) /\ Extends(before, after)
    BY <2>1, <2>2, <2>4, UnchangedLines DEF Undecided, Extends
  <2>6. Entries(after) = Entries(before)
    BY <2>1, <2>2, <2>4 DEF Entries, Entry
  <2>7. OpenedBy(Len(before), before, lines) = Len(after)
    BY <1>3, <2>4 DEF OpenedBy
  <2>8. Grown(before, after)
    BY <1>3, <2>6 DEF Grown
  <2> QED
    BY <2>4, <2>5, <2>6, <2>7, <2>8 DEF Change, Entered, after
<1> QED
  BY <1>1, <1>2, <1>3

\* A new execution.
LEMMA RunIsAChange ==
  ASSUME NEW before \in Seq(Recorded), Undecided(before)
  PROVE  Change(before, Append(before, NewOccurrence))
<1> DEFINE after == Append(before, NewOccurrence)
<1>1. after \in Seq(Recorded) /\ Len(after) = Len(before) + 1 /\ after[Len(after)] = NewOccurrence
        /\ \A n \in 1..Len(before) : after[n] = before[n]
  BY NewIsRecorded
<1> HIDE DEF after
<1>2. Undecided(after)
  BY <1>1, NewIsRecorded DEF Undecided
<1>3. Extends(before, after)
  BY <1>1, UnchangedLines DEF Extends
<1>4. Entries(after) = Append(Entries(before), "running")
  <2> DEFINE e == Entries(after)
             f == Append(Entries(before), "running")
  <2>1. e \in Seq(Statuses) /\ f \in Seq(Statuses) /\ Len(e) = Len(f) /\ Len(f) = Len(before) + 1
    BY <1>1, EntriesAreStatuses DEF Statuses
  <2>2. ASSUME NEW n \in 1..Len(e) PROVE e[n] = f[n]
    BY <1>1, <2>1, EntriesAreStatuses, NewIsRecorded
  <2> HIDE DEF e, f
  <2>3. e = f
    BY <2>1, <2>2, SameEntries
  <2> QED
    BY <2>3 DEF e, f
<1> QED
  BY <1>1, <1>2, <1>3, <1>4 DEF Change, Entered, after

\* What AddTerminal does to the occurrences of a test whose last one is open.
Concludes(before, action, current, index, after) ==
  /\ current = WithCurrent(before, Len(before))
  /\ index = IF current = before THEN Len(before) ELSE Len(current)
  /\ after = [current EXCEPT ![index].terminal = TRUE, ![index].status = Verdict(action)]

\* A verdict: for the last occurrence if it runs, for one of its own otherwise.
LEMMA VerdictIsAChange ==
  ASSUME NEW before \in Seq(Recorded), Undecided(before), NEW action \in Terminal,
         NEW current, NEW index, NEW after, Concludes(before, action, current, index, after)
  PROVE  Change(before, after) /\ index = Len(after)
<1>0. /\ current = WithCurrent(before, Len(before))
      /\ index = IF current = before THEN Len(before) ELSE Len(current)
      /\ after = [current EXCEPT ![index].terminal = TRUE, ![index].status = Verdict(action)]
  BY DEF Concludes
<1> DEFINE verdict == Verdict(action)
           decided == [current[index] EXCEPT !.terminal = TRUE, !.status = verdict]
<1>1. verdict \in Verdicts
  BY DEF Verdict, Terminal, Verdicts
<1> HIDE DEF verdict
<1>2. after = [current EXCEPT ![index] = decided]
  BY <1>0 DEF verdict
<1>3. CASE Len(before) # 0 /\ ~before[Len(before)].terminal
  <2>1. current = before /\ index = Len(before) /\ index \in 1..Len(before)
    BY <1>0, <1>3 DEF WithCurrent
  <2>2. before[index] \in Recorded /\ before[index].status = None
    BY <1>3, <2>1 DEF Undecided
  <2>3. /\ decided \in Recorded /\ decided.status = verdict /\ decided.terminal = TRUE
        /\ decided.lines = before[index].lines
    BY <1>1, <2>1, <2>2 DEF Recorded
  <2> HIDE DEF decided
  <2>4. /\ after \in Seq(Recorded) /\ Len(after) = Len(before) /\ after[index] = decided
        /\ \A n \in 1..Len(before) : n # index => after[n] = before[n]
    <3>1. after = [before EXCEPT ![index] = decided]
      BY <1>2, <2>1
    <3>2. Replaced(before, index, decided, [before EXCEPT ![index] = decided])
      BY <2>1, <2>3, ReplacedIsReplaced
    <3>3. Replaced(before, index, decided, after)
      BY <3>1, <3>2
    <3> QED
      BY <3>3 DEF Replaced
  <2>5. Undecided(after)
    <3> SUFFICES ASSUME NEW n \in 1..Len(after)
                 PROVE  IF after[n].terminal THEN after[n].status \in Verdicts
                        ELSE after[n].status = None
      BY <2>4 DEF Undecided
    <3>1. CASE n = index
      BY <1>1, <2>3, <2>4, <3>1
    <3>2. CASE n # index
      <4>1. n \in DOMAIN before /\ after[n] = before[n]
        BY <2>1, <2>4, <3>2
      <4> QED
        BY <4>1 DEF Undecided
    <3> QED
      BY <3>1, <3>2
  <2>6. Extends(before, after)
    BY <1>3, <2>1, <2>3, <2>4, UnchangedLines DEF Extends
  <2>7. Entries(after) = Decided(Entries(before), verdict)
    <3> DEFINE e == Entries(after)
               f == [Entries(before) EXCEPT ![index] = verdict]
    <3>1. Entries(before) \in Seq(Statuses) /\ Len(Entries(before)) = Len(before)
            /\ Entries(before)[index] = "running" /\ verdict \in Statuses
      BY <1>1, <2>1, <2>2, EntriesAreStatuses DEF Entry, Statuses
    <3>2. f \in Seq(Statuses) /\ Len(f) = Len(before) /\ f[index] = verdict
            /\ \A n \in 1..Len(before) : n # index => f[n] = Entries(before)[n]
      BY <2>1, <3>1, ReplacedElement
    <3>3. e \in Seq(Statuses) /\ Len(e) = Len(before)
      BY <2>4, EntriesAreStatuses
    <3>4. Entry(decided) = verdict
      BY <1>1, <2>3 DEF Entry, Verdicts, None
    <3>5. ASSUME NEW n \in 1..Len(e) PROVE e[n] = f[n]
      <4>1. e[n] = Entry(after[n])
        BY <2>4, <3>3, EntriesAreStatuses
      <4>2. CASE n = index
        BY <2>4, <3>2, <3>4, <4>1, <4>2
      <4>3. CASE n # index
        <5>1. n \in 1..Len(before) /\ after[n] = before[n] /\ f[n] = Entries(before)[n]
          BY <2>1, <2>4, <3>2, <3>3, <4>3
        <5> QED
          BY <4>1, <5>1, EntriesAreStatuses
      <4> QED
        BY <4>2, <4>3
    <3>6. Decided(Entries(before), verdict) = f
      BY <2>1, <3>1 DEF Decided
    <3> HIDE DEF e, f
    <3>7. e = f
      BY <3>2, <3>3, <3>5, SameEntries
    <3> QED
      BY <3>6, <3>7 DEF e
  <2> QED
    BY <1>1, <2>1, <2>4, <2>5, <2>6, <2>7 DEF Change, Entered
<1>4. CASE Len(before) = 0 \/ before[Len(before)].terminal
  <2>1. /\ current = Append(before, NewOccurrence) /\ index = Len(before) + 1
        /\ current \in Seq(Recorded) /\ Len(current) = index /\ current[index] = NewOccurrence
        /\ \A n \in 1..Len(before) : current[n] = before[n]
    <3>1. current = Append(before, NewOccurrence)
      BY <1>0, <1>4 DEF WithCurrent
    <3> QED
      BY <1>0, <3>1, NewIsRecorded
  <2>2. index \in 1..Len(current)
    BY <2>1
  <2>3. decided \in Recorded /\ decided.status = verdict /\ decided.terminal = TRUE
    BY <1>1, <2>1, NewIsRecorded DEF Recorded
  <2> HIDE DEF decided
  <2>4. /\ after \in Seq(Recorded) /\ Len(after) = Len(before) + 1 /\ after[index] = decided
        /\ \A n \in 1..Len(before) : after[n] = before[n]
    <3>1. Replaced(current, index, decided, [current EXCEPT ![index] = decided])
      BY <2>1, <2>2, <2>3, ReplacedIsReplaced
    <3>2. Replaced(current, index, decided, after)
      BY <1>2, <3>1
    <3>3. Len(before) \in Nat /\ Len(current) = Len(before) + 1
      BY <2>1
    <3>4. \A n \in 1..Len(before) : n \in 1..Len(current) /\ n # index
      BY <2>1, <3>3
    <3> QED
      BY <2>1, <3>2, <3>3, <3>4 DEF Replaced
  <2>5. Undecided(after)
    <3> SUFFICES ASSUME NEW n \in 1..Len(after)
                 PROVE  IF after[n].terminal THEN after[n].status \in Verdicts
                        ELSE after[n].status = None
      BY <2>4 DEF Undecided
    <3>1. CASE n = index
      BY <1>1, <2>3, <2>4, <3>1
    <3>2. CASE n # index
      <4>1. Len(before) \in Nat /\ DOMAIN before = 1..Len(before)
        OBVIOUS
      <4>2. n \in 1..Len(before)
        <5>1. n \in 1..Len(before) + 1 /\ n # Len(before) + 1
          BY <2>1, <2>4, <3>2
        <5> QED
          BY ONLY <4>1, <5>1, AllButTheLast
      <4>3. n \in DOMAIN before /\ after[n] = before[n]
        BY <2>4, <4>1, <4>2
      <4> QED
        BY <4>3 DEF Undecided
    <3> QED
      BY <3>1, <3>2
  <2>6. Extends(before, after)
    <3> SUFFICES ASSUME NEW n \in 1..Len(before)
                 PROVE  n \in DOMAIN after /\ after[n] = before[n]
      BY UnchangedLines DEF Extends
    <3> QED
      BY <2>4
  <2>7. Entries(after) = Decided(Entries(before), verdict)
    <3> DEFINE e == Entries(after)
               f == Append(Entries(before), verdict)
    <3>1. Entries(before) \in Seq(Statuses) /\ Len(Entries(before)) = Len(before) /\ verdict \in Statuses
      BY <1>1, EntriesAreStatuses DEF Statuses
    <3>2. f \in Seq(Statuses) /\ Len(f) = Len(before) + 1 /\ f[index] = verdict
            /\ \A n \in 1..Len(before) : f[n] = Entries(before)[n]
      BY <2>1, <3>1
    <3>3. e \in Seq(Statuses) /\ Len(e) = Len(before) + 1
      BY <2>4, EntriesAreStatuses
    <3>4. Entry(decided) = verdict
      BY <1>1, <2>3 DEF Entry, Verdicts, None
    <3>5. ASSUME NEW n \in 1..Len(e) PROVE e[n] = f[n]
      <4>1. e[n] = Entry(after[n])
        BY <2>4, <3>3, EntriesAreStatuses
      <4>2. CASE n = index
        BY <2>4, <3>2, <3>4, <4>1, <4>2
      <4>3. CASE n # index
        <5>1. n \in 1..Len(before) /\ after[n] = before[n] /\ f[n] = Entries(before)[n]
          <6>1. Len(before) \in Nat
            OBVIOUS
          <6>2. n \in 1..Len(before)
            <7>1. n \in 1..Len(before) + 1 /\ n # Len(before) + 1
              BY <2>1, <3>3, <4>3
            <7> QED
              BY ONLY <6>1, <7>1, AllButTheLast
          <6> QED
            BY <2>4, <3>2, <6>2
        <5> QED
          BY <4>1, <5>1, EntriesAreStatuses
      <4> QED
        BY <4>2, <4>3
    <3>6. Decided(Entries(before), verdict) = f
      <4>1. Len(before) # 0 => Entries(before)[Len(before)] \in Verdicts
        BY <1>4, EntriesAreStatuses DEF Undecided, Entry, Verdicts, None
      <4> QED
        BY <3>1, <4>1 DEF Decided, Verdicts
    <3> HIDE DEF e, f
    <3>7. e = f
      BY <3>2, <3>3, <3>5, SameEntries
    <3> QED
      BY <3>6, <3>7 DEF e
  <2> QED
    BY <1>1, <2>1, <2>4, <2>5, <2>6, <2>7 DEF Change, Entered
<1> QED
  BY <1>3, <1>4

\* Finish: what is left of a text, and then a status for what never ended.
LEMMA FinishSettles ==
  ASSUME NEW before \in Seq(Recorded), Undecided(before), NEW lines \in Seq(Pieces),
         NEW timedOut \in BOOLEAN
  PROVE  LET flushed == WithLines(before, lines)
             after == [n \in DOMAIN flushed |-> Classified(flushed[n], timedOut)]
         IN  /\ after \in Seq(Recorded)
             /\ Len(after) = OpenedBy(Len(before), before, lines)
             /\ Extends(before, after)
             /\ Ledger!Settled(Entries(before), Entries(after), timedOut)
<1> DEFINE flushed == WithLines(before, lines)
           after == [n \in DOMAIN flushed |-> Classified(flushed[n], timedOut)]
           unfinished == IF timedOut THEN {"timeout"} ELSE {"error", "aborted"}
<1>1. /\ flushed \in Seq(Recorded) /\ Undecided(flushed) /\ Extends(before, flushed)
      /\ Len(flushed) = OpenedBy(Len(before), before, lines)
      /\ Grown(before, flushed)
  BY LinesAreAChange DEF Change
<1> HIDE DEF flushed
<1>2. ASSUME NEW occ \in Recorded
      PROVE  LET new == Classified(occ, timedOut)
             IN  /\ new \in Recorded /\ new.lines = occ.lines /\ new.terminal = occ.terminal
                 /\ IF occ.terminal THEN new = occ ELSE new.status \in unfinished
  <2>1. ClassifyNonTerminal(occ.lines, timedOut) \in unfinished
    BY DEF ClassifyNonTerminal
  <2>2. unfinished \subseteq Unfinished
    BY DEF Unfinished
  <2> QED
    BY <2>1, <2>2 DEF Classified, Recorded
<1>3. Len(flushed) \in Nat /\ DOMAIN flushed = 1..Len(flushed) /\ \A n \in 1..Len(flushed) : flushed[n] \in Recorded
  BY <1>1
<1>4. /\ after \in Seq(Recorded) /\ Len(after) = Len(flushed)
      /\ \A n \in 1..Len(flushed) : after[n] = Classified(flushed[n], timedOut)
  <2>1. after \in [1..Len(flushed) -> Recorded]
    BY <1>2, <1>3
  <2> QED
    BY <1>3, <2>1
<1> HIDE DEF after
<1>5. Extends(before, after)
  <2> SUFFICES ASSUME NEW n \in DOMAIN before
               PROVE  /\ n \in DOMAIN after
                      /\ IsPrefix(before[n].lines, after[n].lines)
                      /\ before[n].terminal => after[n].terminal /\ after[n].status = before[n].status
    BY DEF Extends
  <2>1. /\ n \in DOMAIN flushed /\ IsPrefix(before[n].lines, flushed[n].lines)
        /\ before[n].terminal => flushed[n].terminal /\ flushed[n].status = before[n].status
    BY <1>1 DEF Extends
  <2>2. n \in 1..Len(flushed) /\ after[n] = Classified(flushed[n], timedOut) /\ flushed[n] \in Recorded
    BY <1>3, <1>4, <2>1
  <2> QED
    BY <1>2, <1>4, <2>1, <2>2
<1>6. Ledger!Settled(Entries(before), Entries(after), timedOut)
  <2> DEFINE b == Entries(before)
             f == Entries(flushed)
             a == Entries(after)
  <2>1. /\ b \in Seq(Statuses) /\ f \in Seq(Statuses) /\ a \in Seq(Statuses)
        /\ Len(b) = Len(before) /\ Len(f) = Len(flushed) /\ Len(a) = Len(flushed)
    BY <1>1, <1>4, EntriesAreStatuses
  <2>2. ASSUME NEW n \in 1..Len(flushed)
        PROVE  IF f[n] # "running" THEN a[n] = f[n] ELSE a[n] \in unfinished
    <3>1. f[n] = Entry(flushed[n]) /\ a[n] = Entry(Classified(flushed[n], timedOut)) /\ flushed[n] \in Recorded
      BY <1>1, <1>3, <1>4, EntriesAreStatuses
    <3>2. CASE flushed[n].terminal
      <4>1. Classified(flushed[n], timedOut) = flushed[n]
        BY <1>2, <3>1, <3>2
      <4>2. flushed[n].status \in Verdicts
        BY <1>1, <1>3, <3>2 DEF Undecided
      <4> QED
        BY <3>1, <4>1, <4>2 DEF Entry, Verdicts, None
    <3>3. CASE ~flushed[n].terminal
      <4>1. flushed[n].status = None /\ Classified(flushed[n], timedOut).status \in unfinished
        BY <1>1, <1>2, <1>3, <3>1, <3>3 DEF Undecided
      <4>2. f[n] = "running"
        BY <3>1, <4>1 DEF Entry
      <4>3. a[n] \in unfinished
        BY <3>1, <4>1 DEF Entry, None
      <4> QED
        BY <4>2, <4>3
    <3> QED
      BY <3>2, <3>3
  <2>3. CASE before = <<>>
    <3>1. Len(b) = 0 /\ b = <<>> /\ Len(a) \in {0, 1} /\ Len(a) = Len(flushed)
      BY <1>1, <2>1, <2>3 DEF Grown
    <3>2. \A n \in 1..Len(a) : f[n] = "running"
      BY <1>1, <2>3, <3>1 DEF Grown
    <3>3. \A n \in 1..Len(a) : a[n] \in unfinished
      BY <2>2, <3>1, <3>2
    <3>4. \A n \in 1..Len(a) : n \notin 1..Len(b)
      BY <3>1
    <3> HIDE DEF a, b, f
    <3> QED
      BY <3>1, <3>3, <3>4 DEF Ledger!Settled, a, b
  <2>4. CASE before # <<>>
    <3>1. f = b
      BY <1>1, <2>4 DEF Grown
    <3>2. b # <<>> /\ Len(a) = Len(b) /\ Len(b) = Len(flushed)
      BY <2>1, <2>4, <3>1
    <3>3. \A n \in 1..Len(a) : IF n \in 1..Len(b) /\ b[n] # "running" THEN a[n] = b[n] ELSE a[n] \in unfinished
      BY <2>2, <3>1, <3>2
    <3> HIDE DEF a, b, f
    <3> QED
      BY <3>2, <3>3 DEF Ledger!Settled, a, b
  <2> QED
    BY <2>3, <2>4
<1> QED
  BY <1>1, <1>4, <1>5, <1>6 DEF after, flushed
-----------------------------------------------------------------------------
\* One test of one package changed as the ledger allows; all others did not.
Changes(p, t, after) ==
  /\ Change(occurrences[p][t], after)
  /\ occurrences' = [occurrences EXCEPT ![p][t] = after]
  /\ open' = [open EXCEPT ![p][t] = Len(after)]

LEMMA EventIsAChange ==
  ASSUME Types, StatusOK, OpenIsLast, NEW ev \in Event, Add(ev)
  PROVE  /\ ~finished /\ ~finished'
         /\ partial' \in [Keys -> Pieces]
         /\ \/ UNCHANGED <<occurrences, open>>
            \/ \E p \in Packages, t \in Tests : \E after : Changes(p, t, after)
<1>1. ~finished /\ ~finished'
  BY DEF Add, Types
<1>2. ASSUME NEW p \in Packages, NEW t \in Tests
      PROVE  /\ occurrences[p][t] \in Seq(Recorded) /\ Undecided(occurrences[p][t])
             /\ open[p][t] = Len(occurrences[p][t])
  BY <1>1, <1>2 DEF Types, StatusOK, OpenIsLast
<1>3. CASE AddBuild(ev) \/ AddNothing(ev)
  BY <1>1, <1>3 DEF AddBuild, AddNothing, Types
<1>4. CASE AddPackage(ev)
  BY <1>1, <1>4 DEF AddPackage, Types
<1>5. CASE AddOther(ev)
  BY <1>1, <1>5 DEF AddOther, Registers, Types
<1>6. CASE AddOutput(ev)
  <2> DEFINE p == ev.package
             t == ev.test
             lines == Completed(<<p, t>>, ev.output)
  <2>1. ev \in OutputEvent
    BY <1>6 DEF AddOutput, Event, BuildEvent, OutputEvent, PackageEvent, TestEvent
  <2>2. p \in Packages /\ t \in Tests \cup {NoTest} /\ ev.output \in Seq(Bytes)
    BY <1>6, <2>1, ChunksAssumption DEF AddOutput, OutputEvent
  <2>3. <<p, t>> \in Keys
    BY <2>2 DEF Keys
  <2>4. lines \in Seq(Pieces) /\ Kept(<<p, t>>, ev.output) \in Pieces
    BY <2>2, <2>3, JoinedIsText
  <2>5. partial' \in [Keys -> Pieces]
    BY <1>6, <2>3, <2>4 DEF AddOutput, JoinerAdd, Types
  <2> HIDE DEF lines
  <2>6. CASE t = NoTest
    BY <1>1, <1>6, <2>5, <2>6 DEF AddOutput
  <2>7. CASE t # NoTest
    <3> DEFINE before == occurrences[p][t]
               after == WithLines(before, lines)
    <3>1. t \in Tests
      BY <2>2, <2>7
    <3>2. before \in Seq(Recorded) /\ Undecided(before) /\ open[p][t] = Len(before)
      BY <1>2, <2>2, <3>1
    <3>3. Change(before, after) /\ OpenedBy(Len(before), before, lines) = Len(after)
      BY <2>4, <3>2, LinesAreAChange
    <3>4. /\ occurrences' = [occurrences EXCEPT ![p][t] = WithLines(@, lines)]
          /\ open' = [open EXCEPT ![p][t] = OpenedBy(@, before, lines)]
      BY <1>6, <2>7 DEF AddOutput, lines
    <3>5. Changes(p, t, after)
      BY <3>2, <3>3, <3>4 DEF Changes
    <3> QED
      BY <1>1, <2>2, <2>5, <3>1, <3>5
  <2> QED
    BY <2>6, <2>7
<1>7. ASSUME Registers(ev), ev.action \in {"run"} \cup Terminal
      PROVE  ev.package \in Packages /\ ev.test \in Tests
  BY <1>7 DEF Registers, Event, BuildEvent, OutputEvent, PackageEvent, TestEvent
<1>8. CASE AddRun(ev)
  <2> DEFINE p == ev.package
             t == ev.test
             after == Append(occurrences[p][t], NewOccurrence)
  <2>1. p \in Packages /\ t \in Tests
    BY <1>7, <1>8 DEF AddRun
  <2>2. Change(occurrences[p][t], after)
    BY <1>2, <2>1, RunIsAChange
  <2>3. occurrences' = [occurrences EXCEPT ![p][t] = after]
    BY <1>8 DEF AddRun
  <2>4. occurrences'[p][t] = after
    BY <2>1, <2>3 DEF Types
  <2>5. open' = [open EXCEPT ![p][t] = Len(after)]
    <3>1. open' = [open EXCEPT ![p][t] = Len(occurrences'[p][t])]
      BY <1>8, Zenon DEF AddRun
    <3> HIDE DEF after
    <3> QED
      BY <2>4, <3>1, Zenon
  <2>6. Changes(p, t, after)
    BY <2>2, <2>3, <2>5 DEF Changes
  <2> QED
    BY <1>1, <1>8, <2>1, <2>6 DEF AddRun, Registers, Types
<1>9. CASE AddTerminal(ev)
  <2> DEFINE p == ev.package
             t == ev.test
             before == occurrences[p][t]
             current == WithCurrent(before, Len(before))
             index == IF current = before THEN Len(before) ELSE Len(current)
             after == [current EXCEPT ![index].terminal = TRUE,
                                      ![index].status = Verdict(ev.action)]
  <2>1. p \in Packages /\ t \in Tests /\ ev.action \in Terminal
    BY <1>7, <1>9 DEF AddTerminal
  <2>2. before \in Seq(Recorded) /\ Undecided(before) /\ open[p][t] = Len(before)
    BY <1>2, <2>1
  <2>0. Concludes(before, ev.action, current, index, after)
    BY DEF Concludes
  <2>4. /\ occurrences' = [occurrences EXCEPT ![p][t] = after]
        /\ open' = [open EXCEPT ![p][t] = index]
    BY <1>9, <2>2 DEF AddTerminal
  <2> HIDE DEF before, current, index, after
  <2>3. Change(before, after) /\ index = Len(after)
    BY <2>0, <2>1, <2>2, VerdictIsAChange
  <2>5. Changes(p, t, after)
    BY <2>3, <2>4 DEF Changes, before
  <2> QED
    BY <1>1, <1>9, <2>1, <2>5 DEF AddTerminal, Registers, Types
<1> QED
  BY <1>3, <1>4, <1>5, <1>6, <1>8, <1>9 DEF Add

\* What such a change means for every test.
LEMMA ChangesOne ==
  ASSUME Types, NEW p \in Packages, NEW t \in Tests, NEW after, Changes(p, t, after)
  PROVE  /\ occurrences' \in [Packages -> [Tests -> Seq(Recorded)]]
         /\ open' \in [Packages -> [Tests -> Nat]]
         /\ occurrences'[p][t] = after /\ open'[p][t] = Len(after)
         /\ \A q \in Packages, u \in Tests : <<q, u>> # <<p, t>> =>
              occurrences'[q][u] = occurrences[q][u] /\ open'[q][u] = open[q][u]
<1>1. after \in Seq(Recorded) /\ Len(after) \in Nat
  BY DEF Changes, Change
<1> QED
  BY <1>1 DEF Changes, Types

\* Finish, for one test.
LEMMA FinishOne ==
  ASSUME Types, StatusOK, OpenIsLast, Finish, NEW p \in Packages
  PROVE  \E timedOut \in BOOLEAN : \A t \in Tests :
           /\ occurrences'[p][t] \in Seq(Recorded)
           /\ open'[p][t] = Len(occurrences'[p][t])
           /\ Extends(occurrences[p][t], occurrences'[p][t])
           /\ Ledger!Settled(Entries(occurrences[p][t]), Entries(occurrences'[p][t]), timedOut)
<1> DEFINE timedOut == PackageTimedOut(FlushedLines(p), FlushedOccurrences(p))
<1>1. timedOut \in BOOLEAN
  BY DEF PackageTimedOut
<1> HIDE DEF timedOut
<1> SUFFICES ASSUME NEW t \in Tests
             PROVE  /\ occurrences'[p][t] \in Seq(Recorded)
                    /\ open'[p][t] = Len(occurrences'[p][t])
                    /\ Extends(occurrences[p][t], occurrences'[p][t])
                    /\ Ledger!Settled(Entries(occurrences[p][t]), Entries(occurrences'[p][t]), timedOut)
  BY <1>1
<1> DEFINE before == occurrences[p][t]
           lines == Remainder(p, t)
           flushed == WithLines(before, lines)
           after == [n \in DOMAIN flushed |-> Classified(flushed[n], timedOut)]
<1>2. before \in Seq(Recorded) /\ Undecided(before) /\ open[p][t] = Len(before)
  BY DEF Types, StatusOK, OpenIsLast, Finish
<1>3. lines \in Seq(Pieces)
  <2>1. partial[<<p, t>>] \in Pieces
    BY DEF Types, Keys
  <2> QED
    BY <2>1 DEF Remainder
<1>4. occurrences'[p][t] = after /\ open'[p][t] = OpenedBy(Len(before), before, lines)
  BY <1>2 DEF Finish, FlushedOccurrences, timedOut
<1> HIDE DEF before, lines
<1>5. /\ after \in Seq(Recorded) /\ Len(after) = OpenedBy(Len(before), before, lines)
      /\ Extends(before, after) /\ Ledger!Settled(Entries(before), Entries(after), timedOut)
  BY <1>1, <1>2, <1>3, FinishSettles
<1> QED
  BY <1>4, <1>5 DEF before
-----------------------------------------------------------------------------
LEMMA InitIsOK == BuilderInit => IInv
<1> SUFFICES ASSUME BuilderInit PROVE IInv
  OBVIOUS
<1>1. Types
  <2>1. partial \in [Keys -> Pieces]
    BY DEF BuilderInit, JoinerInit, Pieces
  <2>2. occurrences \in [Packages -> [Tests -> Seq(Recorded)]]
    BY DEF BuilderInit
  <2>3. open \in [Packages -> [Tests -> Nat]] /\ finished \in BOOLEAN
    BY DEF BuilderInit
  <2> QED
    BY <2>1, <2>2, <2>3 DEF Types
<1>2. StatusOK /\ OpenIsLast
  BY DEF BuilderInit, StatusOK, Undecided, OpenIsLast
<1> QED
  BY <1>1, <1>2 DEF IInv

LEMMA StepsKeepIInv == IInv /\ [BuilderNext]_builderVars => IInv'
<1> SUFFICES ASSUME IInv, [BuilderNext]_builderVars PROVE IInv'
  OBVIOUS
<1>1. Types /\ StatusOK /\ OpenIsLast
  BY DEF IInv
<1>2. CASE UNCHANGED builderVars
  BY <1>1, <1>2 DEF builderVars, IInv, Types, StatusOK, OpenIsLast
<1>3. ASSUME NEW ev \in Event, Add(ev) PROVE IInv'
  <2>1. /\ ~finished /\ ~finished' /\ partial' \in [Keys -> Pieces]
        /\ \/ UNCHANGED <<occurrences, open>>
           \/ \E p \in Packages, t \in Tests : \E after : Changes(p, t, after)
    BY <1>1, <1>3, EventIsAChange
  <2>2. finished' \in BOOLEAN
    BY <1>3 DEF Add, IInv, Types
  <2>3. CASE UNCHANGED <<occurrences, open>>
    BY <1>1, <2>1, <2>2, <2>3 DEF IInv, Types, StatusOK, OpenIsLast
  <2>4. ASSUME NEW p \in Packages, NEW t \in Tests, NEW after, Changes(p, t, after) PROVE IInv'
    <3>1. /\ occurrences' \in [Packages -> [Tests -> Seq(Recorded)]]
          /\ open' \in [Packages -> [Tests -> Nat]]
          /\ occurrences'[p][t] = after /\ open'[p][t] = Len(after)
          /\ \A q \in Packages, u \in Tests : <<q, u>> # <<p, t>> =>
               occurrences'[q][u] = occurrences[q][u] /\ open'[q][u] = open[q][u]
      BY <1>1, <2>4, ChangesOne
    <3>2. Undecided(after)
      BY <2>4 DEF Changes, Change
    <3>3. Types'
      BY <2>1, <2>2, <3>1 DEF Types
    <3>4. StatusOK'
      <4> SUFFICES ASSUME NEW q \in Packages, NEW u \in Tests PROVE Undecided(occurrences'[q][u])
        BY DEF StatusOK, Undecided
      <4>1. Undecided(occurrences[q][u])
        BY <1>1, <2>1 DEF StatusOK
      <4> QED
        BY <3>1, <3>2, <4>1
    <3>5. OpenIsLast'
      BY <1>1, <3>1 DEF OpenIsLast
    <3> QED
      BY <3>3, <3>4, <3>5 DEF IInv
  <2> QED
    BY <2>1, <2>3, <2>4
<1>4. CASE Finish
  <2>1. /\ finished' = TRUE /\ partial' = [k \in Keys |-> <<>>]
        /\ occurrences' = [p \in Packages |-> [t \in Tests |-> occurrences'[p][t]]]
        /\ open' = [p \in Packages |-> [t \in Tests |-> open'[p][t]]]
        /\ <<>> \in Pieces
    BY <1>4 DEF Finish, JoinerFlush, Pieces
  <2>2. \A p \in Packages, t \in Tests :
          occurrences'[p][t] \in Seq(Recorded) /\ open'[p][t] = Len(occurrences'[p][t])
    BY <1>1, <1>4, FinishOne
  <2>3. \A p \in Packages, t \in Tests : open'[p][t] \in Nat
    BY <2>2
  <2>4. Types'
    BY <2>1, <2>2, <2>3 DEF Types
  <2> QED
    BY <2>1, <2>2, <2>4 DEF IInv, StatusOK, OpenIsLast
<1> QED
  BY <1>2, <1>3, <1>4 DEF BuilderNext

LEMMA IInvHolds == BuilderSpec => []IInv
BY InitIsOK, StepsKeepIInv, PTL DEF BuilderSpec

\* Whatever events come, in whatever order, nothing that was recorded of an execution
\* is taken back.
THEOREM NothingIsTakenBack == BuilderSpec => NothingIsLost
<1> DEFINE AllExtend == \A p \in Packages, t \in Tests :
             Extends(occurrences[p][t], occurrences'[p][t])
           NothingGone == \A p \in Packages, t \in Tests : \A n \in DOMAIN occurrences[p][t] :
             /\ n \in DOMAIN occurrences'[p][t]
             /\ IsPrefix(occurrences[p][t][n].lines, occurrences'[p][t][n].lines)
             /\ occurrences[p][t][n].terminal =>
                  /\ occurrences'[p][t][n].terminal
                  /\ occurrences'[p][t][n].status = occurrences[p][t][n].status
<1>1. IInv /\ [BuilderNext]_builderVars => [NothingGone]_builderVars
  <2> SUFFICES ASSUME IInv, BuilderNext PROVE AllExtend
    BY DEF Extends
  <2>1. Types /\ StatusOK /\ OpenIsLast
    BY DEF IInv
  <2>2. ASSUME NEW p \in Packages, NEW t \in Tests
        PROVE  Extends(occurrences[p][t], occurrences[p][t])
    BY <2>1, UnchangedLines DEF Types, Extends
  <2>3. CASE UNCHANGED occurrences
    BY <2>2, <2>3
  <2>4. ASSUME NEW p \in Packages, NEW t \in Tests, NEW after, Changes(p, t, after)
        PROVE  AllExtend
    <3>1. Extends(occurrences[p][t], after)
      BY <2>4 DEF Changes, Change
    <3>2. /\ occurrences'[p][t] = after
          /\ \A q \in Packages, u \in Tests : <<q, u>> # <<p, t>> =>
               occurrences'[q][u] = occurrences[q][u]
      BY <2>1, <2>4, ChangesOne
    <3> QED
      BY <2>2, <3>1, <3>2
  <2>5. CASE Finish
    BY <2>1, <2>5, FinishOne
  <2>6. CASE \E ev \in Event : Add(ev)
    BY <2>1, <2>3, <2>4, <2>6, EventIsAChange
  <2> QED
    BY <2>5, <2>6 DEF BuilderNext
<1> QED
  BY <1>1, IInvHolds, PTL DEF BuilderSpec, NothingIsLost

-----------------------------------------------------------------------------
(***************************************************************************)
(* The lists: what was seen is listed, once.                                *)
(***************************************************************************)
\* What ListedOnce needs of the joiner and of the order of packages: Flush visits
\* every key with text, and no key before its package was seen.
Lists ==
  /\ order \in Seq(Keys) /\ Distinct(order)
  /\ packageOrder \in Seq(Packages) /\ Distinct(packageOrder)
  /\ testOrder \in [Packages -> Seq(Tests)]
  /\ \A k \in Keys : /\ Contains(order, k) => Contains(packageOrder, k[1])
                     /\ partial[k] # <<>> => Contains(order, k)
  /\ ListedOnce

\* ListedOnce for one package.
Listed(p, names, occs, packages) ==
  /\ Distinct(names)
  /\ \A t \in Tests : occs[t] # <<>> => Contains(names, t)
  /\ names # <<>> => Contains(packages, p)

LEMMA ListedEach ==
  ASSUME testOrder \in [Packages -> Seq(Tests)]
  PROVE  ListedOnce <=> \A p \in Packages : Listed(p, testOrder[p], occurrences[p], packageOrder)
<1>1. \A p \in Packages : DOMAIN testOrder[p] = 1..Len(testOrder[p])
  OBVIOUS
<1> QED
  BY <1>1 DEF ListedOnce, Listed, Distinct

\* A list a name was registered in.
Registration(names, name, after) ==
  /\ \A x : Contains(after, x) <=> Contains(names, x) \/ x = name
  /\ Distinct(names) => Distinct(after)

LEMMA RegisteredName ==
  ASSUME NEW S, NEW names \in Seq(S), NEW name \in S
  PROVE  Registered(names, name) \in Seq(S) /\ Registration(names, name, Registered(names, name))
<1>1. Append(names, name) \in Seq(S) /\ Adds(names, name, Append(names, name))
  BY AppendAdds
<1>2. CASE Contains(names, name)
  BY <1>2 DEF Registered, Registration
<1>3. CASE ~ Contains(names, name)
  BY <1>1, <1>3 DEF Registered, Registration, Adds
<1> QED
  BY <1>2, <1>3

\* Names are only added to the list of the package of an event, which is listed too,
\* and the tests of that package that now have occurrences are among them.
Grows(p, names) ==
  /\ packageOrder' \in Seq(Packages) /\ Registration(packageOrder, p, packageOrder')
  /\ testOrder' = [testOrder EXCEPT ![p] = names]
  /\ names \in Seq(Tests) /\ Distinct(names)
  /\ \A t : Contains(testOrder[p], t) => Contains(names, t)
  /\ \A q \in Packages, t \in Tests :
       occurrences'[q][t] # <<>> => \/ occurrences[q][t] # <<>>
                                    \/ q = p /\ Contains(names, t)

LEMMA ListedWhenGrown ==
  ASSUME Lists, NEW p \in Packages, NEW names, Grows(p, names)
  PROVE  ListedOnce' /\ testOrder' \in [Packages -> Seq(Tests)]
<1>1. testOrder' \in [Packages -> Seq(Tests)] /\ testOrder'[p] = names
      /\ \A q \in Packages : q # p => testOrder'[q] = testOrder[q]
  BY DEF Lists, Grows
<1>2. \A q \in Packages : Listed(q, testOrder[q], occurrences[q], packageOrder)
  BY ListedEach DEF Lists
<1>3. ASSUME NEW q \in Packages
      PROVE  Listed(q, testOrder'[q], occurrences'[q], packageOrder')
  <2>1. CASE q = p
    BY <1>1, <1>2, <2>1 DEF Grows, Listed, Registration
  <2>2. CASE q # p
    BY <1>1, <1>2, <2>2 DEF Grows, Listed, Registration
  <2> QED
    BY <2>1, <2>2
<1>4. ListedOnce'
  <2>1. \A q \in Packages : DOMAIN testOrder'[q] = 1..Len(testOrder'[q])
    BY <1>1
  <2> QED
    BY <1>3, <2>1 DEF ListedOnce, Listed, Distinct
<1> QED
  BY <1>1, <1>4

\* All that the lists depend on of an event.
Named(ev) == /\ ev.package \in Packages \cup {NoPackage} /\ ev.test \in Tests \cup {NoTest}
             /\ ev.output \in Seq(Bytes)

LEMMA EventsAreNamed == \A ev \in Event : Named(ev)
<1>1. Chunks \subseteq Seq(Bytes)
  BY ChunksAssumption
<1>2. <<>> \in Seq(Bytes)
  OBVIOUS
<1> QED
  BY <1>1, <1>2 DEF Event, BuildEvent, OutputEvent, PackageEvent, TestEvent, Named

LEMMA EventListed ==
  ASSUME Types, Lists, NEW ev, Named(ev), Add(ev)
  PROVE  Lists'
<1>1. CASE AddBuild(ev) \/ AddNothing(ev)
  BY <1>1 DEF AddBuild, AddNothing, Lists, ListedOnce
<1>2. ASSUME NEW p \in Packages, NEW names, Grows(p, names), UNCHANGED <<partial, order>>
      PROVE  Lists'
  <2>1. ListedOnce' /\ testOrder' \in [Packages -> Seq(Tests)]
    BY <1>2, ListedWhenGrown
  <2>2. /\ packageOrder' \in Seq(Packages) /\ Distinct(packageOrder')
        /\ \A q : Contains(packageOrder, q) => Contains(packageOrder', q)
    BY <1>2 DEF Grows, Registration, Lists
  <2> QED
    BY <1>2, <2>1, <2>2 DEF Lists
<1>3. \A q \in Packages : /\ testOrder[q] \in Seq(Tests) /\ Distinct(testOrder[q])
                         /\ \A t \in Tests : occurrences[q][t] # <<>> => Contains(testOrder[q], t)
  BY ListedEach DEF Lists, Listed
<1>4. CASE AddPackage(ev)
  <2> DEFINE p == ev.package
  <2>1. p \in Packages
    BY <1>4 DEF AddPackage, Named
  <2>2. packageOrder' \in Seq(Packages) /\ Registration(packageOrder, p, packageOrder')
    BY <1>4, <2>1, RegisteredName DEF AddPackage, Lists
  <2>3. Grows(p, testOrder[p])
    BY <1>3, <1>4, <2>1, <2>2 DEF AddPackage, Grows, Lists
  <2> QED
    BY <1>2, <1>4, <2>1, <2>3 DEF AddPackage
<1>5. ASSUME Registers(ev), ev.test \in Tests, ev.package \in Packages,
             \A q \in Packages, u \in Tests : <<q, u>> # <<ev.package, ev.test>> =>
               occurrences'[q][u] = occurrences[q][u]
      PROVE  Lists'
  <2> DEFINE p == ev.package
             t == ev.test
             names == Registered(testOrder[p], t)
  <2>1. packageOrder' \in Seq(Packages) /\ Registration(packageOrder, p, packageOrder')
    BY <1>5, RegisteredName DEF Registers, Lists
  <2>2. names \in Seq(Tests) /\ Registration(testOrder[p], t, names)
    BY <1>3, <1>5, RegisteredName
  <2>3. testOrder' = [testOrder EXCEPT ![p] = names]
    BY <1>5 DEF Registers
  <2> HIDE DEF names
  <2>4. Grows(p, names)
    BY <1>3, <1>5, <2>1, <2>2, <2>3 DEF Grows, Registration
  <2> QED
    BY <1>2, <1>5, <2>4 DEF Registers
<1>6. ASSUME Registers(ev) PROVE ev.package \in Packages /\ ev.test \in Tests
  BY <1>6 DEF Registers, Named
<1>7. CASE AddOther(ev)
  BY <1>5, <1>6, <1>7 DEF AddOther
<1>8. CASE AddRun(ev)
  BY <1>5, <1>6, <1>8 DEF AddRun, Types
<1>9. CASE AddTerminal(ev)
  <2>1. Registers(ev)
    BY <1>9, Zenon DEF AddTerminal
  <2>2. ev.package \in Packages /\ ev.test \in Tests
    BY <1>6, <2>1
  <2>3. PICK after : occurrences' = [occurrences EXCEPT ![ev.package][ev.test] = after]
    BY <1>9, Zenon DEF AddTerminal
  <2>4. \A q \in Packages, u \in Tests : <<q, u>> # <<ev.package, ev.test>> =>
          occurrences'[q][u] = occurrences[q][u]
    BY <2>2, <2>3 DEF Types
  <2> QED
    BY <1>5, <2>1, <2>2, <2>4
<1>10. CASE AddOutput(ev)
  <2> DEFINE p == ev.package
             t == ev.test
             k == <<p, t>>
             lines == Completed(k, ev.output)
  <2>2. p \in Packages /\ t \in Tests \cup {NoTest} /\ ev.output \in Seq(Bytes)
    BY <1>10 DEF AddOutput, Named
  <2>3. k \in Keys /\ k[1] = p
    BY <2>2 DEF Keys
  <2>4. packageOrder' \in Seq(Packages) /\ Registration(packageOrder, p, packageOrder')
    BY <1>10, <2>2, RegisteredName DEF AddOutput, Lists
  <2>5. order' \in Seq(Keys) /\ Registration(order, k, order')
    <3>1. order' = Registered(order, k)
      BY <1>10 DEF AddOutput, JoinerAdd, Registered
    <3> QED
      BY <2>3, <3>1, RegisteredName DEF Lists
  <2>6. partial' = [partial EXCEPT ![k] = Kept(k, ev.output)]
    BY <1>10 DEF AddOutput, JoinerAdd
  <2> HIDE DEF lines
  <2>7. PICK names : Grows(p, names)
    <3>1. CASE t = NoTest \/ lines = <<>>
      <4>1. UNCHANGED <<testOrder, occurrences>>
        <5>1. CASE t = NoTest
          BY <1>10, <5>1 DEF AddOutput
        <5>2. CASE t # NoTest /\ lines = <<>>
          <6>1. occurrences' = [occurrences EXCEPT ![p][t] = WithLines(@, lines)] /\ UNCHANGED testOrder
            BY <1>10, <5>2 DEF AddOutput, lines
          <6>2. occurrences' = [occurrences EXCEPT ![p][t] = @]
            BY <5>2, <6>1 DEF WithLines
          <6>3. occurrences \in [Packages -> [Tests -> Seq(Recorded)]] /\ p \in Packages /\ t \in Tests
            BY <2>2, <5>2 DEF Types
          <6> HIDE DEF p, t
          <6>4. occurrences' = occurrences
            BY ONLY <6>2, <6>3
          <6> QED
            BY <6>1, <6>4
        <5> QED
          BY <3>1, <5>1, <5>2
      <4>2. Grows(p, testOrder[p])
        BY <1>3, <2>2, <2>4, <4>1 DEF Grows, Lists
      <4> QED
        BY <4>2
    <3>2. CASE t # NoTest /\ lines # <<>>
      <4>1. t \in Tests
        BY <2>2, <3>2
      <4>2. PICK names : names = Registered(testOrder[p], t)
        OBVIOUS
      <4>3. names \in Seq(Tests) /\ Registration(testOrder[p], t, names)
        BY <1>3, <2>2, <4>1, <4>2, RegisteredName
      <4>4. /\ testOrder' = [testOrder EXCEPT ![p] = names]
            /\ occurrences' = [occurrences EXCEPT ![p][t] = WithLines(@, lines)]
        BY <1>10, <3>2, <4>2 DEF AddOutput, lines
      <4>5. \A q \in Packages, u \in Tests : <<q, u>> # k => occurrences'[q][u] = occurrences[q][u]
        BY <2>2, <4>1, <4>4 DEF Types
      <4>6. Grows(p, names)
        BY <1>3, <2>2, <2>4, <4>1, <4>3, <4>4, <4>5 DEF Grows, Registration
      <4> QED
        BY <4>6
    <3> QED
      BY <3>1, <3>2
  <2>8. ListedOnce' /\ testOrder' \in [Packages -> Seq(Tests)]
    BY <2>2, <2>7, ListedWhenGrown
  <2>9. ASSUME NEW l \in Keys
        PROVE  /\ Contains(order', l) => Contains(packageOrder', l[1])
               /\ partial'[l] # <<>> => Contains(order', l)
    <3>1. CASE l = k
      BY <2>3, <2>4, <2>5, <3>1 DEF Registration
    <3>2. CASE l # k
      <4>1. partial'[l] = partial[l]
        BY <2>6, <3>2 DEF Types
      <4> QED
        BY <2>4, <2>5, <3>2, <4>1 DEF Registration, Lists
    <3> QED
      BY <3>1, <3>2
  <2> QED
    BY <2>4, <2>5, <2>8, <2>9 DEF Lists, Registration
<1> QED
  BY <1>1, <1>4, <1>7, <1>8, <1>9, <1>10 DEF Add

\* What Finish adds to the list of a package: each test known only by its
\* unterminated output, once.
LEMMA UnregisteredTests ==
  ASSUME Types, Lists, NEW p \in Packages
  PROVE  \E names :
           /\ names = [i \in DOMAIN Unregistered(p) |-> Unregistered(p)[i][2]]
           /\ names \in Seq(Tests) /\ Distinct(names)
           /\ \A t : ~ (Contains(testOrder[p], t) /\ Contains(names, t))
           /\ \A t \in Tests : partial[<<p, t>>] # <<>> /\ ~ Contains(testOrder[p], t)
                                => Contains(names, t)
           /\ \A t : Contains(names, t) => partial[<<p, t>>] # <<>>
           /\ names # <<>> => Contains(packageOrder, p)
<1> DEFINE kept == {k \in Keys : k[1] = p /\ k[2] # NoTest /\ ~Contains(testOrder[p], k[2])}
<1>1. order \in Seq(Keys) /\ Distinct(order)
  BY DEF Lists
<1>2. Remainders \in Seq(Keys) /\ Filters(order, Remaining, Remainders)
  BY <1>1, FilteredElements DEF Remainders
<1>3. PICK left : left = Unregistered(p)
  OBVIOUS
<1>4. left \in Seq(Keys) /\ Filters(Remainders, kept, left)
  <2>1. Unregistered(p) = Filtered(Remainders, kept)
    BY DEF Unregistered
  <2> HIDE DEF kept
  <2> QED
    BY <1>2, <1>3, <2>1, FilteredElements
<1>5. Distinct(left) /\ \A k : Contains(left, k) <=> Contains(order, k) /\ k \in Remaining /\ k \in kept
  BY <1>1, <1>2, <1>4 DEF Filters
<1>6. PICK names : names = [i \in 1..Len(left) |-> left[i][2]]
  OBVIOUS
<1>7. \A i \in 1..Len(left) : left[i] \in kept
  BY <1>5 DEF Contains
<1>8. \A k \in kept : k \in Keys /\ k = <<p, k[2]>> /\ k[2] \in Tests /\ ~ Contains(testOrder[p], k[2])
  BY DEF Keys
<1> HIDE DEF kept
<1>9. names \in Seq(Tests) /\ Len(names) = Len(left) /\ Len(left) \in Nat
      /\ \A i \in 1..Len(left) : names[i] = left[i][2]
  <2>1. Len(left) \in Nat
    BY <1>4
  <2>2. \A i \in 1..Len(left) : left[i][2] \in Tests
    BY <1>7, <1>8
  <2> QED
    BY <1>6, <2>1, <2>2
<1>10. Distinct(names)
  <2> SUFFICES ASSUME NEW i \in 1..Len(left), NEW j \in 1..Len(left), names[i] = names[j] PROVE i = j
    BY <1>9 DEF Distinct
  <2>1. left[i] = left[j]
    BY <1>7, <1>8, <1>9
  <2> QED
    BY <1>5, <2>1 DEF Distinct
<1>11. \A t : ~ (Contains(testOrder[p], t) /\ Contains(names, t))
  BY <1>7, <1>8, <1>9 DEF Contains
<1>12. ASSUME NEW t \in Tests, partial[<<p, t>>] # <<>>, ~ Contains(testOrder[p], t)
       PROVE  Contains(names, t)
  <2>1. <<p, t>> \in Keys /\ <<p, t>> \in kept
    BY <1>12, NamesAssumption DEF Keys, kept
  <2>2. Contains(order, <<p, t>>)
    BY <1>12, <2>1 DEF Lists
  <2>3. <<p, t>> \in Remaining
    BY <1>1, <1>12, <2>2 DEF Remaining, Contains, ToSet
  <2>4. Contains(left, <<p, t>>)
    BY <1>5, <2>1, <2>2, <2>3
  <2>5. PICK i \in 1..Len(left) : left[i] = <<p, t>>
    BY <2>4 DEF Contains
  <2>6. names[i] = t
    BY <1>9, <2>5
  <2> QED
    BY <1>9, <2>6 DEF Contains
<1>13. ASSUME names # <<>> PROVE Contains(packageOrder, p)
  <2>1. 1 \in 1..Len(left)
    BY <1>9, <1>13
  <2>2. Contains(order, left[1]) /\ left[1] \in Keys /\ left[1][1] = p
    BY <1>5, <1>7, <1>8, <2>1 DEF Contains
  <2> QED
    BY <2>2 DEF Lists
<1>14. ASSUME NEW t, Contains(names, t) PROVE partial[<<p, t>>] # <<>>
  <2>1. PICK i \in 1..Len(left) : left[i][2] = t
    BY <1>9, <1>14 DEF Contains
  <2>2. left[i] = <<p, t>> /\ Contains(left, left[i])
    BY <1>7, <1>8, <2>1 DEF Contains
  <2> QED
    BY <1>5, <2>2 DEF Remaining
<1>15. names = [i \in DOMAIN Unregistered(p) |-> Unregistered(p)[i][2]]
  BY <1>3, <1>4, <1>6
<1> QED
  BY <1>9, <1>10, <1>11, <1>12, <1>13, <1>14, <1>15

LEMMA FinishListed ==
  ASSUME Types, Lists, Finish
  PROVE  Lists'
<1>1. UNCHANGED <<order, packageOrder>> /\ partial' = [k \in Keys |-> <<>>]
      /\ testOrder' = [p \in Packages |-> testOrder'[p]]
  BY DEF Finish, JoinerFlush
<1>2. ASSUME NEW p \in Packages
      PROVE  testOrder'[p] \in Seq(Tests) /\ Listed(p, testOrder'[p], occurrences'[p], packageOrder)
  <2>1. PICK names :
          /\ names = [i \in DOMAIN Unregistered(p) |-> Unregistered(p)[i][2]]
          /\ names \in Seq(Tests) /\ Distinct(names)
          /\ \A t : ~ (Contains(testOrder[p], t) /\ Contains(names, t))
          /\ \A t \in Tests : partial[<<p, t>>] # <<>> /\ ~ Contains(testOrder[p], t)
                               => Contains(names, t)
          /\ names # <<>> => Contains(packageOrder, p)
    BY UnregisteredTests
  <2>2. testOrder[p] \in Seq(Tests) /\ Listed(p, testOrder[p], occurrences[p], packageOrder)
    BY ListedEach DEF Lists
  <2>3. PICK all : all = testOrder[p] \o names
    OBVIOUS
  <2>4. all \in Seq(Tests) /\ Concats(testOrder[p], names, all)
    BY <2>1, <2>2, <2>3, ConcatHolds
  <2>5. testOrder'[p] = all
    BY <2>1, <2>3 DEF Finish
  <2>6. ASSUME NEW t \in Tests, occurrences'[p][t] # <<>> PROVE Contains(all, t)
    <3>1. CASE occurrences[p][t] # <<>>
      BY <2>2, <2>4, <3>1 DEF Listed, Concats
    <3>2. CASE occurrences[p][t] = <<>> /\ partial[<<p, t>>] # <<>>
      BY <2>1, <2>4, <3>2 DEF Concats
    <3>3. CASE occurrences[p][t] = <<>> /\ partial[<<p, t>>] = <<>>
      <4>1. FlushedOccurrences(p)[t] = <<>>
        BY <3>3 DEF FlushedOccurrences, WithLines, Remainder
      <4>2. PICK flushed : flushed = FlushedOccurrences(p)
        OBVIOUS
      <4>3. PICK timedOut : occurrences'[p][t]
              = [n \in DOMAIN flushed[t] |-> Classified(flushed[t][n], timedOut)]
        BY <4>2 DEF Finish
      <4>4. DOMAIN flushed[t] = {}
        BY <4>1, <4>2
      <4> QED
        BY <2>6, <4>3, <4>4
    <3> QED
      BY <3>1, <3>2, <3>3
  <2>7. all # <<>> => testOrder[p] # <<>> \/ names # <<>>
    BY <2>1, <2>2, <2>3
  <2>8. Listed(p, all, occurrences'[p], packageOrder)
    BY <2>1, <2>2, <2>4, <2>6, <2>7 DEF Listed, Concats
  <2> QED
    BY <2>4, <2>5, <2>8
<1>3. testOrder' \in [Packages -> Seq(Tests)]
  BY <1>1, <1>2
<1>4. ListedOnce'
  <2>1. \A q \in Packages : DOMAIN testOrder'[q] = 1..Len(testOrder'[q])
    BY <1>3
  <2> QED
    BY <1>1, <1>2, <2>1 DEF ListedOnce, Listed, Distinct
<1> QED
  BY <1>1, <1>3, <1>4 DEF Lists

LEMMA InitListed == ASSUME BuilderInit PROVE Lists
<1>1. order = <<>> /\ packageOrder = <<>> /\ testOrder = [p \in Packages |-> <<>>]
      /\ partial = [k \in Keys |-> <<>>] /\ occurrences = [p \in Packages |-> [t \in Tests |-> <<>>]]
  BY DEF BuilderInit, JoinerInit
<1>2. ListedOnce
  BY <1>1 DEF ListedOnce
<1>3. Distinct(<<>>) /\ \A k : ~ Contains(<<>>, k)
  BY DEF Distinct, Contains
<1>4. testOrder \in [Packages -> Seq(Tests)]
  BY <1>1
<1> QED
  BY <1>1, <1>2, <1>3, <1>4 DEF Lists

LEMMA ListsHold == BuilderSpec => []Lists
<1>1. BuilderInit => Lists
  BY InitListed
<1>2. IInv /\ Lists /\ [BuilderNext]_builderVars => Lists'
  <2> SUFFICES ASSUME Types, StatusOK, OpenIsLast, Lists, [BuilderNext]_builderVars PROVE Lists'
    BY DEF IInv
  <2>1. CASE \E ev \in Event : Add(ev)
    BY <2>1, EventListed, EventsAreNamed
  <2>2. CASE Finish
    BY <2>2, FinishListed
  <2>3. CASE UNCHANGED builderVars
    BY <2>3 DEF builderVars, Lists, ListedOnce
  <2> QED
    BY <2>1, <2>2, <2>3 DEF BuilderNext
<1> QED
  BY <1>1, <1>2, IInvHolds, PTL DEF BuilderSpec

\* Whatever events come, in whatever order, the indices the run model is read
\* through still agree with what it holds: a terminal event closes the occurrence
\* output goes to, and the report walks each test exactly once.
THEOREM IndicesHold == BuilderSpec => []IndicesAgree
<1>1. IInv /\ Lists => IndicesAgree
  BY DEF IInv, Lists, IndicesAgree
<1> QED
  BY <1>1, IInvHolds, ListsHold, PTL

\* The variables the invariants above say nothing about.
PackageRecord == [status : {None} \cup Terminal,
                  failedBuild : ImportPaths \cup {NoBinary},
                  lines : Seq(Pieces)]

OtherTypes ==
  /\ package \in [Packages -> PackageRecord]
  /\ buildOutput \in [ImportPaths -> Seq(Seq(Bytes))]

LEMMA EventTypes ==
  ASSUME Types, OtherTypes, NEW ev \in Event, Add(ev)
  PROVE  OtherTypes'
<1>1. CASE AddBuild(ev)
  <2>1. ev.importPath \in ImportPaths /\ ev.output \in Chunks \cup {<<>>}
    BY <1>1 DEF AddBuild, Event, BuildEvent, OutputEvent, PackageEvent, TestEvent
  <2>2. ev.output \in Seq(Bytes)
    <3>1. <<>> \in Seq(Bytes)
      OBVIOUS
    <3> QED
      BY <2>1, <3>1, ChunksAssumption
  <2>3. PICK A : A = Seq(Bytes)
    OBVIOUS
  <2>4. Append(buildOutput[ev.importPath], ev.output) \in Seq(A)
    BY <2>1, <2>2, <2>3 DEF OtherTypes
  <2> QED
    BY <1>1, <2>1, <2>3, <2>4 DEF AddBuild, OtherTypes
<1>2. CASE AddNothing(ev)
  BY <1>2 DEF AddNothing, OtherTypes
<1>3. CASE AddOutput(ev)
  <2> DEFINE p == ev.package
             k == <<ev.package, ev.test>>
             lines == Completed(k, ev.output)
  <2>1. ev \in OutputEvent
    BY <1>3 DEF AddOutput, Event, BuildEvent, OutputEvent, PackageEvent, TestEvent
  <2>2. p \in Packages /\ k \in Keys /\ ev.output \in Seq(Bytes)
    BY <1>3, <2>1, ChunksAssumption DEF AddOutput, OutputEvent, Keys
  <2>3. lines \in Seq(Pieces)
    BY <2>2, JoinedIsText
  <2>4. package[p].lines \o lines \in Seq(Pieces) /\ package[p] \in PackageRecord
    BY <2>2, <2>3 DEF OtherTypes, PackageRecord
  <2>5. package' = package \/ package' = [package EXCEPT ![p].lines = @ \o lines]
    BY <1>3 DEF AddOutput
  <2>6. UNCHANGED buildOutput
    BY <1>3 DEF AddOutput
  <2> HIDE DEF lines
  <2>7. package' \in [Packages -> PackageRecord]
    BY <2>2, <2>4, <2>5 DEF OtherTypes, PackageRecord
  <2> QED
    BY <2>6, <2>7 DEF OtherTypes
<1>4. CASE AddPackage(ev)
  <2>1. ev.package \in Packages /\ ev.failedBuild \in ImportPaths \cup {NoBinary}
    BY <1>4 DEF AddPackage, Event, BuildEvent, OutputEvent, PackageEvent, TestEvent
  <2>2. package' \in [Packages -> PackageRecord]
    BY <1>4, <2>1 DEF AddPackage, OtherTypes, PackageRecord
  <2> QED
    BY <1>4, <2>2 DEF AddPackage, OtherTypes
<1>5. CASE AddRun(ev) \/ AddTerminal(ev) \/ AddOther(ev)
  BY <1>5 DEF AddRun, AddTerminal, AddOther, Registers, OtherTypes
<1> QED
  BY <1>1, <1>2, <1>3, <1>4, <1>5 DEF Add

\* What the run model holds is typed: no line holds a newline, none is cut off.
THEOREM BuilderTypes == BuilderSpec => []BuilderTypeOK
<1>1. BuilderInit => OtherTypes
  BY DEF BuilderInit, OtherTypes, PackageRecord, NewPackage
<1>2. IInv /\ OtherTypes /\ [BuilderNext]_builderVars => OtherTypes'
  <2> SUFFICES ASSUME Types, OtherTypes, [BuilderNext]_builderVars PROVE OtherTypes'
    BY DEF IInv
  <2>1. CASE \E ev \in Event : Add(ev)
    BY <2>1, EventTypes
  <2>2. CASE Finish
    <3>1. ASSUME NEW p \in Packages PROVE FlushedLines(p) \in Seq(Pieces)
      <4>1. package[p].lines \in Seq(Pieces)
        BY DEF OtherTypes, PackageRecord
      <4>2. Remainder(p, NoTest) \in Seq(Pieces)
        BY DEF Remainder, Types, Keys
      <4> QED
        BY <4>1, <4>2 DEF FlushedLines
    <3>2. package' = [p \in Packages |-> [package[p] EXCEPT !.lines = FlushedLines(p)]]
          /\ UNCHANGED buildOutput
      BY <2>2 DEF Finish
    <3> QED
      BY <3>1, <3>2 DEF OtherTypes, PackageRecord
  <2>3. CASE UNCHANGED builderVars
    BY <2>3 DEF builderVars, OtherTypes
  <2> QED
    BY <2>1, <2>2, <2>3 DEF BuilderNext
<1>3. IInv /\ Lists /\ OtherTypes => BuilderTypeOK
  BY DEF IInv, Types, Lists, OtherTypes, BuilderTypeOK, JoinerTypeOK, PackageRecord, Recorded,
         Occurrence, Pieces
<1> QED
  BY <1>1, <1>2, <1>3, IInvHolds, ListsHold, PTL DEF BuilderSpec
-----------------------------------------------------------------------------
\* The run model keeps the ledger of executions: whatever the builder does with an
\* event enters, decides or leaves alone, and Finish closes the book.
THEOREM BuilderKeepsTheLedger == BuilderSpec => ImplementsLedger
<1> DEFINE book == [p \in Packages |-> [t \in Tests |->
                      [n \in DOMAIN occurrences[p][t] |-> Entry(occurrences[p][t][n])]]]
<1>1. BuilderInit => Ledger!LedgerInit
  BY DEF BuilderInit, Ledger!LedgerInit
<1>2. IInv /\ [BuilderNext]_builderVars => [Ledger!LedgerNext]_Ledger!ledgerVars
  <2> SUFFICES ASSUME IInv, [BuilderNext]_builderVars
               PROVE  Ledger!LedgerNext \/ UNCHANGED <<book, finished>>
    BY DEF Ledger!ledgerVars
  <2>1. Types /\ StatusOK /\ OpenIsLast
    BY DEF IInv
  <2>2. /\ book = [p \in Packages |-> [t \in Tests |-> Entries(occurrences[p][t])]]
        /\ book' = [p \in Packages |-> [t \in Tests |-> Entries(occurrences'[p][t])]]
    BY DEF Entries
  <2>3. CASE UNCHANGED <<occurrences, finished>>
    BY <2>3
  <2>4. ASSUME ~finished, ~finished', finished' = finished,
               NEW p \in Packages, NEW t \in Tests, NEW after, Changes(p, t, after)
        PROVE  Ledger!LedgerNext \/ UNCHANGED <<book, finished>>
    <3>1. Entered(occurrences[p][t], after)
      BY <2>4 DEF Changes, Change
    <3>2. /\ occurrences'[p][t] = after
          /\ \A q \in Packages, u \in Tests : <<q, u>> # <<p, t>> =>
               occurrences'[q][u] = occurrences[q][u]
      BY <2>1, <2>4, ChangesOne
    <3>3. book' = [book EXCEPT ![p][t] = Entries(after)] /\ book[p][t] = Entries(occurrences[p][t])
      <4>1. /\ \A q \in Packages, u \in Tests : book[q][u] = Entries(occurrences[q][u])
            /\ \A q \in Packages, u \in Tests : book'[q][u] = Entries(occurrences'[q][u])
            /\ book = [q \in Packages |-> [u \in Tests |-> book[q][u]]]
            /\ book' = [q \in Packages |-> [u \in Tests |-> book'[q][u]]]
        BY <2>2
      <4> HIDE DEF book
      <4>2. /\ book[p][t] = Entries(occurrences[p][t]) /\ book'[p][t] = Entries(after)
            /\ \A q \in Packages, u \in Tests : <<q, u>> # <<p, t>> => book'[q][u] = book[q][u]
        BY <3>2, <4>1
      <4>3. book' = [book EXCEPT ![p][t] = Entries(after)]
        BY ONLY <4>1, <4>2
      <4> QED
        BY <4>2, <4>3
    <3> HIDE DEF book
    <3>4. CASE Entries(after) = Entries(occurrences[p][t])
      BY <2>2, <2>4, <3>3, <3>4
    <3>5. CASE Entries(after) = Append(Entries(occurrences[p][t]), "running")
      <4>1. book' = [book EXCEPT ![p][t] = Append(book[p][t], "running")]
        BY <3>3, <3>5
      <4>2. Ledger!Enter(p, t)
        BY <2>4, <4>1 DEF Ledger!Enter, book
      <4> QED
        BY <4>2 DEF Ledger!LedgerNext
    <3>6. ASSUME NEW decision \in Verdicts,
                 Entries(after) = Decided(Entries(occurrences[p][t]), decision)
          PROVE  Ledger!Decide(p, t, decision) /\ decision \in Ledger!Decisions
      BY <2>4, <3>3, <3>6 DEF Ledger!Decide, Ledger!Decisions, Verdicts, Decided, book
    <3> QED
      BY <3>1, <3>4, <3>5, <3>6 DEF Entered, Ledger!LedgerNext
  <2>5. CASE Finish
    <3>1. ASSUME NEW p \in Packages
          PROVE  \E timedOut \in BOOLEAN : \A t \in Tests :
                   Ledger!Settled(book[p][t], book'[p][t], timedOut)
      <4>1. \A t \in Tests : /\ book[p][t] = Entries(occurrences[p][t])
                             /\ book'[p][t] = Entries(occurrences'[p][t])
        BY <2>2
      <4> HIDE DEF book
      <4> QED
        BY <2>1, <2>5, <4>1, FinishOne
    <3>2. ~finished /\ finished' = TRUE
      BY <2>5 DEF Finish
    <3>3. Ledger!Close
      BY <3>1, <3>2 DEF Ledger!Close
    <3> QED
      BY <3>3 DEF Ledger!LedgerNext
  <2>6. CASE \E ev \in Event : Add(ev)
    <3>1. finished' = finished
      BY <2>6 DEF Add
    <3> QED
      BY <2>1, <2>3, <2>4, <2>6, <3>1, EventIsAChange
  <2>7. CASE UNCHANGED builderVars
    BY <2>3, <2>7 DEF builderVars
  <2> QED
    BY <2>5, <2>6, <2>7 DEF BuilderNext
<1> QED
  BY <1>1, <1>2, IInvHolds, PTL DEF BuilderSpec, ImplementsLedger, Ledger!LedgerSpec
-----------------------------------------------------------------------------
(***************************************************************************)
(* The events of `go test -json'.                                           *)
(***************************************************************************)
Stages == {"absent", "waiting", "running", "no tests", "unbuilt", "broken", "failing", "passing",
           "reported"}

Results == {"pass", "fail", "skip"}

Execution == [outcome : {"running"} \cup Results, failed : BOOLEAN, text : Seq(Bytes),
              iteration : Nat]

Ending == [why : {"none", "exit", "panic", "timeout"}, test : Tests \cup {NoTest}]

ToolchainTypes ==
  /\ command \in Commands
  /\ file \in 1..command.files
  /\ process \in [Packages -> Stages]
  /\ iteration \in [Packages -> Nat]
  /\ executions \in [Packages -> [Tests -> Seq(Execution)]]
  /\ death \in [Packages -> [1..command.files -> Ending]]

\* A package prints nothing of its own.
PackagesSilent ==
  /\ package \in [Packages -> PackageRecord]
  /\ \A p \in Packages : package[p].lines = <<>> /\ partial[<<p, NoTest>>] = <<>>
-----------------------------------------------------------------------------
(***************************************************************************)
(* What an event does to the run model.                                     *)
(***************************************************************************)
\* The part of the run model the report reads a test's executions from.
Model == <<occurrences, open, partial>>

\* Only the occurrences of one test changed, and its text.
Changed(p, t, after, held) ==
  /\ occurrences' = [occurrences EXCEPT ![p][t] = after]
  /\ open' = [open EXCEPT ![p][t] = Len(after)]
  /\ partial' = [partial EXCEPT ![<<p, t>>] = held]

LinesKept == /\ package' \in [Packages -> PackageRecord]
             /\ \A p \in Packages : package'[p].lines = package[p].lines

LEMMA RunAdded ==
  ASSUME Types, OpenIsLast, NEW p \in Packages, NEW t \in Tests, Add(TestEv(p, t, "run"))
  PROVE  /\ Changed(p, t, Append(occurrences[p][t], NewOccurrence), partial[<<p, t>>])
         /\ UNCHANGED package /\ ~finished /\ UNCHANGED finished
<1> DEFINE ev == TestEv(p, t, "run")
<1>1. /\ ev.action = "run" /\ ev.package = p /\ ev.test = t /\ ev.output = <<>>
      /\ ev.importPath = NoBinary /\ p # NoPackage /\ t # NoTest
  BY NamesAssumption DEF TestEv, PackageEv, Blank
<1> HIDE DEF ev
<1>2. AddRun(ev) /\ ~finished /\ UNCHANGED finished
  BY <1>1 DEF Add, AddBuild, AddNothing, AddOutput, AddPackage, AddTerminal, AddOther, Terminal, ev,
              Types
<1>3. occurrences' = [occurrences EXCEPT ![p][t] = Append(@, NewOccurrence)]
      /\ open' = [open EXCEPT ![p][t] = Len(occurrences'[p][t])]
      /\ UNCHANGED <<partial, package>>
  BY <1>1, <1>2 DEF AddRun, Registers
<1>4. occurrences'[p][t] = Append(occurrences[p][t], NewOccurrence)
  BY <1>3 DEF Types
<1>5. partial' = [partial EXCEPT ![<<p, t>>] = partial[<<p, t>>]]
  BY <1>3 DEF Types
<1> QED
  BY <1>2, <1>3, <1>4, <1>5 DEF Changed

LEMMA OutputAdded ==
  ASSUME Types, OpenIsLast, NEW p \in Packages, NEW t \in Tests,
         NEW text \in Seq(Bytes), text # <<>>, Add(OutputEv(p, t, text)),
         Undecided(occurrences[p][t])
  PROVE  /\ Changed(p, t, WithLines(occurrences[p][t], Completed(<<p, t>>, text)),
                    Kept(<<p, t>>, text))
         /\ UNCHANGED package /\ ~finished /\ UNCHANGED finished
<1> DEFINE ev == OutputEv(p, t, text)
           lines == Completed(<<p, t>>, text)
           before == occurrences[p][t]
<1>1. /\ ev.action = "output" /\ ev.package = p /\ ev.test = t /\ ev.output = text
      /\ ev.importPath = NoBinary /\ p # NoPackage /\ t # NoTest
  BY NamesAssumption DEF OutputEv, TestEv, PackageEv, Blank
<1>2. <<p, t>> \in Keys
  BY DEF Keys
<1>3. lines \in Seq(Pieces)
  BY <1>2, JoinedIsText
<1> HIDE DEF ev, lines
<1>4. AddOutput(ev) /\ ~finished /\ UNCHANGED finished
  BY <1>1 DEF Add, AddBuild, AddNothing, AddRun, AddPackage, AddTerminal, AddOther, Registers, ev,
              Types
<1>5. /\ occurrences' = [occurrences EXCEPT ![p][t] = WithLines(before, lines)]
      /\ open' = [open EXCEPT ![p][t] = OpenedBy(@, before, lines)]
      /\ partial' = [partial EXCEPT ![<<p, t>>] = Kept(<<p, t>>, text)]
      /\ UNCHANGED package
  BY <1>1, <1>4 DEF AddOutput, JoinerAdd, lines
<1>6. open[p][t] = Len(before)
  BY DEF OpenIsLast
<1>7. before \in Seq(Recorded)
  BY DEF Types
<1>8. OpenedBy(Len(before), before, lines) = Len(WithLines(before, lines))
  BY <1>3, <1>7, LinesAreAChange
<1>9. open' = [open EXCEPT ![p][t] = Len(WithLines(before, lines))]
  BY <1>5, <1>6, <1>8 DEF Types
<1> QED
  BY <1>4, <1>5, <1>9 DEF Changed, lines

LEMMA TerminalAdded ==
  ASSUME Types, OpenIsLast, NEW p \in Packages, NEW t \in Tests, NEW action \in Terminal,
         Add(TestEv(p, t, action)), occurrences[p][t] # <<>>,
         ~Last(occurrences[p][t]).terminal
  PROVE  /\ Changed(p, t, [occurrences[p][t] EXCEPT
                             ![Len(occurrences[p][t])].terminal = TRUE,
                             ![Len(occurrences[p][t])].status = Verdict(action)],
                    partial[<<p, t>>])
         /\ UNCHANGED package /\ ~finished /\ UNCHANGED finished
<1> DEFINE ev == TestEv(p, t, action)
           before == occurrences[p][t]
<1>1. /\ ev.action = action /\ ev.package = p /\ ev.test = t /\ ev.output = <<>>
      /\ ev.importPath = NoBinary /\ p # NoPackage /\ t # NoTest
  BY NamesAssumption DEF TestEv, PackageEv, Blank
<1> HIDE DEF ev
<1>2. AddTerminal(ev) /\ ~finished /\ UNCHANGED finished
  BY <1>1 DEF Add, AddBuild, AddNothing, AddOutput, AddPackage, AddRun, AddOther, Terminal, ev,
              Types
<1>3. open[p][t] = Len(before) /\ before \in Seq(Recorded) /\ Len(before) # 0
      /\ ~before[Len(before)].terminal
  BY DEF OpenIsLast, Types, Last
<1>4. WithCurrent(before, Len(before)) = before
  BY <1>3 DEF WithCurrent
<1>5. occurrences' = [occurrences EXCEPT ![p][t] =
                        [before EXCEPT ![Len(before)].terminal = TRUE,
                                       ![Len(before)].status = Verdict(action)]]
      /\ open' = [open EXCEPT ![p][t] = Len(before)]
      /\ UNCHANGED <<partial, package>>
  BY <1>1, <1>2, <1>3, <1>4 DEF AddTerminal, Registers
<1>6. partial' = [partial EXCEPT ![<<p, t>>] = partial[<<p, t>>]]
  BY <1>5 DEF Types
<1>7. Len([before EXCEPT ![Len(before)].terminal = TRUE,
                         ![Len(before)].status = Verdict(action)]) = Len(before)
  BY <1>3
<1> QED
  BY <1>2, <1>5, <1>6, <1>7 DEF Changed

\* The events of a package and of a build say nothing about its tests.
LEMMA OthersAdded ==
  ASSUME Types, PackagesSilent, NEW ev, Add(ev),
         \/ ev.importPath # NoBinary
         \/ ev.importPath = NoBinary /\ ev.test = NoTest /\ ev.output = <<>>,
         ev.failedBuild \in ImportPaths \cup {NoBinary}
  PROVE  UNCHANGED Model /\ LinesKept /\ ~finished /\ UNCHANGED finished
<1>1. ~finished /\ UNCHANGED finished
  BY DEF Add, Types
<1>2. AddBuild(ev) \/ AddNothing(ev) \/ AddPackage(ev)
  BY DEF Add, AddOutput, AddRun, AddTerminal, AddOther, Registers
<1>3. UNCHANGED Model
  BY <1>2 DEF AddBuild, AddNothing, AddPackage, Model
<1>4. LinesKept
  <2>1. CASE UNCHANGED package
    BY <2>1 DEF LinesKept, PackagesSilent
  <2>2. CASE /\ package' = [package EXCEPT ![ev.package].status = ev.action,
                                           ![ev.package].failedBuild = ev.failedBuild]
             /\ ev.action \in Terminal
    BY <2>2 DEF LinesKept, PackagesSilent, PackageRecord
  <2> QED
    BY <1>2, <2>1, <2>2 DEF AddBuild, AddNothing, AddPackage
<1> QED
  BY <1>1, <1>3, <1>4
-----------------------------------------------------------------------------
(***************************************************************************)
(* One test: its executions and the occurrences recorded for it.            *)
(***************************************************************************)
\* A list after an element was added at its end, and after its last was replaced.
Appended(S, before, after, new) ==
  /\ after \in Seq(S) /\ Len(before) \in Nat /\ Len(after) = Len(before) + 1
  /\ after[Len(after)] = new
  /\ \A n \in 1..Len(before) : after[n] = before[n]

Altered(S, before, after, new) ==
  /\ after \in Seq(S) /\ Len(before) \in Nat \ {0} /\ Len(after) = Len(before)
  /\ after[Len(before)] = new
  /\ \A n \in 1..Len(before) : n # Len(before) => after[n] = before[n]

LEMMA AppendingAppends ==
  ASSUME NEW S, NEW before \in Seq(S), NEW new \in S
  PROVE  Appended(S, before, Append(before, new), new)
BY AppendProperties DEF Appended

LEMMA AlteringAlters ==
  ASSUME NEW S, NEW before \in Seq(S), before # <<>>, NEW new \in S
  PROVE  Altered(S, before, [before EXCEPT ![Len(before)] = new], new)
BY ReplacedElement DEF Altered

\* What is recorded of an execution is that it runs, or the verdict it came to.
Mirrors(occ, run) ==
  IF run.outcome = "running" THEN ~occ.terminal /\ occ.status = None
  ELSE occ.terminal /\ occ.status = Verdict(run.outcome)

Twin(occs, runs) ==
  /\ Len(occs) = Len(runs)
  /\ \A n \in 1..Len(runs) : Mirrors(occs[n], runs[n])

LEMMA TwinsAreUndecided ==
  ASSUME NEW occs \in Seq(Recorded), NEW runs \in Seq(Execution), Twin(occs, runs)
  PROVE  Undecided(occs)
<1>1. DOMAIN occs = 1..Len(runs) /\ \A n \in 1..Len(runs) : runs[n] \in Execution
  BY DEF Twin
<1>2. \A run \in Execution : run.outcome # "running" => Verdict(run.outcome) \in Verdicts
  BY DEF Execution, Results, Verdict, Verdicts
<1> QED
  BY <1>1, <1>2 DEF Twin, Mirrors, Undecided

LEMMA TwinsStart ==
  ASSUME NEW occs, NEW runs, NEW occs2, NEW runs2, NEW occ, NEW run, Twin(occs, runs),
         Appended(Recorded, occs, occs2, occ), Appended(Execution, runs, runs2, run),
         Mirrors(occ, run)
  PROVE  Twin(occs2, runs2)
<1>1. Len(occs2) = Len(runs2) /\ Len(runs2) = Len(runs) + 1 /\ Len(runs) \in Nat
  BY DEF Appended, Twin
<1>2. \A n \in 1..Len(runs2) : n = Len(runs2) \/ n \in 1..Len(runs)
  BY <1>1
<1> QED
  BY <1>1, <1>2 DEF Appended, Twin

LEMMA TwinsAlter ==
  ASSUME NEW occs, NEW runs, NEW occs2, NEW runs2, NEW occ, NEW run, Twin(occs, runs),
         Altered(Recorded, occs, occs2, occ), Altered(Execution, runs, runs2, run),
         Mirrors(occ, run)
  PROVE  Twin(occs2, runs2)
BY DEF Altered, Twin

\* Appended lines, in the last occurrence.
LEMMA LinesAlter ==
  ASSUME NEW occs \in Seq(Recorded), occs # <<>>, NEW lines \in Seq(Pieces)
  PROVE  \E occ \in Recorded :
           /\ Altered(Recorded, occs, WithLines(occs, lines), occ)
           /\ occ.terminal = occs[Len(occs)].terminal /\ occ.status = occs[Len(occs)].status
           /\ occ.lines = occs[Len(occs)].lines \o lines
<1> DEFINE last == occs[Len(occs)]
           grown == [last EXCEPT !.lines = @ \o lines]
<1>1. last \in Recorded /\ last.lines \in Seq(Pieces) /\ last.lines \o lines \in Seq(Pieces)
  <2>1. last \in Recorded
    OBVIOUS
  <2>2. last.lines \in Seq(Pieces)
    BY <2>1 DEF Recorded
  <2> QED
    BY <2>1, <2>2, ConcatProperties
<1>2. CASE lines = <<>>
  <2>1. WithLines(occs, lines) = occs
    BY <1>2 DEF WithLines
  <2>2. last.lines \o lines = last.lines
    BY <1>1, <1>2, ConcatEmptySeq
  <2>3. Altered(Recorded, occs, occs, last)
    BY DEF Altered
  <2> QED
    BY <1>1, <2>1, <2>2, <2>3
<1>3. CASE lines # <<>>
  <2>1. WithLines(occs, lines) = [occs EXCEPT ![Len(occs)] = grown]
    BY <1>3 DEF WithLines
  <2>2. /\ grown \in Recorded /\ grown.terminal = last.terminal /\ grown.status = last.status
        /\ grown.lines = last.lines \o lines
    BY <1>1 DEF Recorded
  <2> HIDE DEF grown
  <2>3. Altered(Recorded, occs, [occs EXCEPT ![Len(occs)] = grown], grown)
    BY <2>2, AlteringAlters
  <2> QED
    BY <2>1, <2>2, <2>3
<1> QED
  BY <1>2, <1>3

\* A verdict, in the last occurrence.
LEMMA VerdictAlters ==
  ASSUME NEW occs \in Seq(Recorded), occs # <<>>, NEW action \in Terminal
  PROVE  \E occ \in Recorded :
           /\ Altered(Recorded, occs, [occs EXCEPT ![Len(occs)].terminal = TRUE,
                                                   ![Len(occs)].status = Verdict(action)], occ)
           /\ occ.terminal = TRUE /\ occ.status = Verdict(action)
           /\ occ.lines = occs[Len(occs)].lines
<1> DEFINE last == occs[Len(occs)]
           ended == [last EXCEPT !.terminal = TRUE, !.status = Verdict(action)]
<1>1. last \in Recorded /\ Verdict(action) \in Verdicts
  BY DEF Verdict, Terminal, Verdicts
<1>2. /\ ended \in Recorded /\ ended.terminal = TRUE /\ ended.status = Verdict(action)
      /\ ended.lines = last.lines
  BY <1>1 DEF Recorded
<1>3. [occs EXCEPT ![Len(occs)].terminal = TRUE, ![Len(occs)].status = Verdict(action)]
        = [occs EXCEPT ![Len(occs)] = ended]
  OBVIOUS
<1> HIDE DEF ended
<1>4. Altered(Recorded, occs, [occs EXCEPT ![Len(occs)] = ended], ended)
  BY <1>2, AlteringAlters
<1> QED
  BY <1>2, <1>3, <1>4
-----------------------------------------------------------------------------
(***************************************************************************)
(* The steps of the pipeline, by what they change.                          *)
(***************************************************************************)
Twins == \A p \in Packages, t \in Tests : Twin(occurrences[p][t], executions[p][t])

\* What the steps are taken from: nothing has been closed yet.
Base == Types /\ OpenIsLast /\ PackagesSilent /\ ToolchainTypes /\ Twins /\ ~finished

\* The command, the stream and the run of the process stay as they are.
Steady == UNCHANGED <<command, file, iteration, finished, package>>

\* One test changed: what it did, what is recorded of it and the text held for it.
TestStep(p, t, runs, occs, held) ==
  /\ executions' = [executions EXCEPT ![p][t] = runs]
  /\ Changed(p, t, occs, held)
  /\ Steady

Started(p, t) ==
  \E runs, occs, run :
    /\ TestStep(p, t, runs, occs, partial[<<p, t>>])
    /\ Live(p) /\ UNCHANGED <<process, death>>
    /\ executions[p][t] # <<>> => Last(executions[p][t]).iteration < iteration[p]
    /\ run \in Execution /\ run.outcome = "running" /\ run.text = <<>>
    /\ run.iteration = iteration[p]
    /\ Appended(Execution, executions[p][t], runs, run)
    /\ Appended(Recorded, occurrences[p][t], occs, NewOccurrence)

\* The text goes to the last execution; its finished lines to the last occurrence.
Printed(p, t, text) ==
  \E runs, occs, run, occ :
    /\ TestStep(p, t, runs, occs, Kept(<<p, t>>, text))
    /\ Altered(Execution, executions[p][t], runs, run)
    /\ run = [Last(executions[p][t]) EXCEPT !.text = @ \o text]
    /\ Altered(Recorded, occurrences[p][t], occs, occ)
    /\ occ.terminal = Last(occurrences[p][t]).terminal
    /\ occ.status = Last(occurrences[p][t]).status
    /\ occ.lines = Last(occurrences[p][t]).lines \o Completed(<<p, t>>, text)

Ended(p, t, action) ==
  \E runs, occs, run, occ :
    /\ TestStep(p, t, runs, occs, partial[<<p, t>>])
    /\ Altered(Execution, executions[p][t], runs, run)
    /\ run = [Last(executions[p][t]) EXCEPT !.outcome = action]
    /\ run.text # <<>> => Last(run.text) = NL
    /\ Altered(Recorded, occurrences[p][t], occs, occ)
    /\ occ.terminal = TRUE /\ occ.status = Verdict(action)
    /\ occ.lines = Last(occurrences[p][t]).lines

LEMMA StartStep ==
  ASSUME Base, NEW p \in Packages, NEW t \in Tests, Starts(p, t)
  PROVE  Started(p, t)
<1> DEFINE runs == executions[p][t]
           occs == occurrences[p][t]
           run == [outcome |-> "running", failed |-> FALSE, text |-> <<>>, iteration |-> iteration[p]]
<1>1. StartTest(p, t) /\ Add(TestEv(p, t, "run"))
  BY DEF Starts
<1>2. /\ Changed(p, t, Append(occs, NewOccurrence), partial[<<p, t>>])
      /\ UNCHANGED package /\ ~finished /\ UNCHANGED finished
  BY <1>1, RunAdded DEF Base
<1>3. runs \in Seq(Execution) /\ occs \in Seq(Recorded)
  BY DEF Base, ToolchainTypes, Types
<1>4. run \in Execution
  <2>1. <<>> \in Seq(Bytes)
    OBVIOUS
  <2> QED
    BY <2>1 DEF Base, ToolchainTypes, Execution
<1>5. /\ executions' = [executions EXCEPT ![p][t] = Append(runs, run)]
      /\ UNCHANGED <<process, iteration, death, file, command>> /\ Live(p)
      /\ runs # <<>> => Last(runs).iteration < iteration[p]
  BY <1>1 DEF StartTest
<1>6. Appended(Execution, runs, Append(runs, run), run)
  BY <1>3, <1>4, AppendingAppends
<1>7. Appended(Recorded, occs, Append(occs, NewOccurrence), NewOccurrence)
  BY <1>3, NewIsRecorded, AppendingAppends
<1>8. TestStep(p, t, Append(runs, run), Append(occs, NewOccurrence), partial[<<p, t>>])
  BY <1>2, <1>5 DEF TestStep, Steady, Base
<1>9. run.outcome = "running" /\ run.text = <<>> /\ run.iteration = iteration[p]
  OBVIOUS
<1> HIDE DEF run
<1> QED
  BY <1>4, <1>5, <1>6, <1>7, <1>8, <1>9 DEF Started

\* The last of the executions, and of the occurrences, of a test that runs.
LEMMA RunningLast ==
  ASSUME Base, NEW p \in Packages, NEW t \in Tests, Running(p, t)
  PROVE  /\ executions[p][t] \in Seq(Execution) /\ executions[p][t] # <<>>
         /\ Last(executions[p][t]) = executions[p][t][Len(executions[p][t])]
         /\ Last(executions[p][t]) \in Execution /\ Last(executions[p][t]).outcome = "running"
         /\ occurrences[p][t] \in Seq(Recorded) /\ occurrences[p][t] # <<>>
         /\ Last(occurrences[p][t]) = occurrences[p][t][Len(occurrences[p][t])]
         /\ Last(occurrences[p][t]) \in Recorded
         /\ ~Last(occurrences[p][t]).terminal /\ Last(occurrences[p][t]).status = None
         /\ Undecided(occurrences[p][t])
<1>1. executions[p][t] \in Seq(Execution) /\ occurrences[p][t] \in Seq(Recorded)
      /\ Twin(occurrences[p][t], executions[p][t])
  BY DEF Base, ToolchainTypes, Types, Twins
<1>2. executions[p][t] # <<>> /\ Last(executions[p][t]).outcome = "running"
  BY DEF Running
<1>3. Undecided(occurrences[p][t])
  BY <1>1, TwinsAreUndecided
<1>4. PICK n : n = Len(executions[p][t])
  OBVIOUS
<1>5. n \in 1..Len(executions[p][t]) /\ n = Len(occurrences[p][t])
      /\ Mirrors(occurrences[p][t][n], executions[p][t][n])
  BY <1>1, <1>2, <1>4 DEF Twin
<1>6. executions[p][t][n].outcome = "running"
  BY <1>2, <1>4 DEF Last
<1>7. executions[p][t][n] \in Execution /\ occurrences[p][t][n] \in Recorded
      /\ occurrences[p][t] # <<>>
  BY <1>1, <1>5
<1> QED
  BY <1>1, <1>2, <1>3, <1>4, <1>5, <1>6, <1>7 DEF Mirrors, Last

LEMMA OutputStep ==
  ASSUME Base, NEW p \in Packages, NEW t \in Tests, Running(p, t),
         NEW text \in Seq(Bytes), text # <<>>, Add(OutputEv(p, t, text)),
         executions' = Write(executions, p, t, text),
         UNCHANGED <<command, file, iteration>>
  PROVE  Printed(p, t, text)
<1> DEFINE runs == executions[p][t]
           occs == occurrences[p][t]
           run == [Last(runs) EXCEPT !.text = @ \o text]
           lines == Completed(<<p, t>>, text)
<1>1. /\ runs \in Seq(Execution) /\ runs # <<>> /\ Last(runs) = runs[Len(runs)]
      /\ Last(runs) \in Execution /\ occs \in Seq(Recorded) /\ occs # <<>>
      /\ Last(occs) = occs[Len(occs)] /\ Undecided(occs)
  BY RunningLast
<1>2. /\ Changed(p, t, WithLines(occs, lines), Kept(<<p, t>>, text))
      /\ UNCHANGED package /\ ~finished /\ UNCHANGED finished
  BY <1>1, OutputAdded DEF Base
<1>3. lines \in Seq(Pieces)
  BY JoinedIsText DEF Base, Keys
<1> HIDE DEF lines
<1>4. PICK occ \in Recorded :
        /\ Altered(Recorded, occs, WithLines(occs, lines), occ)
        /\ occ.terminal = Last(occs).terminal /\ occ.status = Last(occs).status
        /\ occ.lines = Last(occs).lines \o lines
  BY <1>1, <1>3, LinesAlter
<1>5. run \in Execution
  <2>1. Last(runs).text \in Seq(Bytes)
    BY <1>1 DEF Execution
  <2>2. Last(runs).text \o text \in Seq(Bytes)
    BY <2>1, ConcatProperties
  <2> QED
    BY <1>1, <2>2 DEF Execution
<1>6. executions' = [executions EXCEPT ![p][t] = [runs EXCEPT ![Len(runs)] = run]]
  BY <1>1 DEF Write
<1>7. Altered(Execution, runs, [runs EXCEPT ![Len(runs)] = run], run)
  BY <1>1, <1>5, AlteringAlters
<1>8. TestStep(p, t, [runs EXCEPT ![Len(runs)] = run], WithLines(occs, lines), Kept(<<p, t>>, text))
  BY <1>2, <1>6 DEF TestStep, Steady, Base
<1> QED
  BY <1>4, <1>7, <1>8 DEF Printed, lines

LEMMA EndStep ==
  ASSUME Base, NEW p \in Packages, NEW t \in Tests, NEW action \in Terminal,
         EndTest(p, t, action), Add(TestEv(p, t, action))
  PROVE  Ended(p, t, action) /\ action \in Results /\ UNCHANGED <<process, death>>
<1> DEFINE runs == executions[p][t]
           occs == occurrences[p][t]
           run == [Last(runs) EXCEPT !.outcome = action]
           after == [occs EXCEPT ![Len(occs)].terminal = TRUE,
                                 ![Len(occs)].status = Verdict(action)]
<1>0. Running(p, t)
  BY DEF EndTest
<1>1. /\ runs \in Seq(Execution) /\ runs # <<>> /\ Last(runs) = runs[Len(runs)]
      /\ Last(runs) \in Execution /\ occs \in Seq(Recorded) /\ occs # <<>>
      /\ Last(occs) = occs[Len(occs)] /\ ~Last(occs).terminal
  BY <1>0, RunningLast
<1>2. Changed(p, t, after, partial[<<p, t>>]) /\ UNCHANGED package /\ ~finished /\ UNCHANGED finished
  BY <1>1, TerminalAdded DEF Base
<1>3. PICK occ \in Recorded :
        /\ Altered(Recorded, occs, after, occ)
        /\ occ.terminal = TRUE /\ occ.status = Verdict(action) /\ occ.lines = Last(occs).lines
  BY <1>1, VerdictAlters
<1> HIDE DEF after
<1>4. action \in Results /\ UNCHANGED <<process, death>>
  BY DEF EndTest, Results
<1>5. /\ run \in Execution /\ run.text = Last(runs).text
      /\ run.text # <<>> => Last(run.text) = NL
  BY <1>1, <1>4 DEF EndTest, Execution
<1>6. executions' = [executions EXCEPT ![p][t] = [runs EXCEPT ![Len(runs)] = run]]
      /\ UNCHANGED <<command, file, iteration>>
  BY <1>1 DEF EndTest
<1>7. Altered(Execution, runs, [runs EXCEPT ![Len(runs)] = run], run)
  BY <1>1, <1>5, AlteringAlters
<1>8. TestStep(p, t, [runs EXCEPT ![Len(runs)] = run], after, partial[<<p, t>>])
  BY <1>2, <1>6 DEF TestStep, Steady, Base
<1> QED
  BY <1>3, <1>4, <1>5, <1>7, <1>8 DEF Ended

\* The process of a package died with a test running, which says its last words.
Died(p, t, why) ==
  /\ Live(p) /\ Running(p, t)
  /\ process' = [process EXCEPT ![p] = "failing"]
  /\ death' = [death EXCEPT ![p][file] = [why |-> why, test |-> t]]
  /\ \/ why = "exit" /\ UNCHANGED <<executions, Model>> /\ Steady
     \/ why \in {"panic", "timeout"} /\ Printed(p, t, LastWords(why))

\* What no proof below tells apart from the same executions.
SameRuns(runs, after) ==
  /\ after \in Seq(Execution) /\ Len(after) = Len(runs)
  /\ \A n \in 1..Len(runs) : /\ after[n].outcome = runs[n].outcome
                             /\ after[n].iteration = runs[n].iteration
                             /\ after[n].text = runs[n].text

\* The steps around the tests: processes come and go, a test is marked as failed.
Over == {"failing", "reported"}

Around ==
  /\ UNCHANGED Model /\ LinesKept /\ UNCHANGED <<command, death, finished>>
  /\ executions' \in [Packages -> [Tests -> Seq(Execution)]]
  /\ \A p \in Packages, t \in Tests : SameRuns(executions[p][t], executions'[p][t])
  /\ process' \in [Packages -> Stages] /\ iteration' \in [Packages -> Nat]
  /\ file' \in 1..command.files
  /\ command.files = 1 => \A p \in Packages :
       /\ process[p] \in Over => process'[p] \in Over
       /\ \/ iteration'[p] = iteration[p]
          \/ /\ iteration'[p] = iteration[p] + 1 /\ iteration'[p] <= command.count
             /\ \A t \in Tests : ~Running(p, t)

LEMMA LogStep ==
  ASSUME Base, NEW p \in Packages, NEW t \in Tests, Logs(p, t)
  PROVE  \E text \in Chunks : /\ Printed(p, t, text) /\ Live(p) /\ Running(p, t)
                              /\ UNCHANGED <<process, death>>
<1>1. PICK text \in Chunks : Log(p, t, text) /\ Add(OutputEv(p, t, text))
  BY DEF Logs
<1>2. text \in Seq(Bytes) /\ text # <<>>
  BY ChunksAssumption
<1>3. /\ Live(p) /\ Running(p, t) /\ executions' = Write(executions, p, t, text)
      /\ UNCHANGED <<process, death, command, file, iteration>>
  BY <1>1 DEF Log
<1> QED
  BY <1>1, <1>2, <1>3, OutputStep

LEMMA WordsAreText ==
  \A why \in {"panic", "timeout"} : LastWords(why) \in Seq(Bytes) /\ LastWords(why) # <<>>
<1>1. LastWords("panic") = <<Panic, NL>> /\ LastWords("timeout") = <<Panic, Banner, NL>>
  BY DEF LastWords
<1>2. Panic \in Bytes /\ Banner \in Bytes /\ NL \in Bytes
  BY SymbolsAssumption DEF Bytes
<1>3. <<Panic, NL>> \in Seq(Bytes) /\ <<Panic, Banner, NL>> \in Seq(Bytes)
      /\ <<Panic, NL>> # <<>> /\ <<Panic, Banner, NL>> # <<>>
  BY <1>2
<1> QED
  BY <1>1, <1>3

LEMMA DieStep ==
  ASSUME Base, NEW p \in Packages, NEW t \in Tests, Dies(p, t)
  PROVE  \E why \in {"exit", "panic", "timeout"} : Died(p, t, why)
<1>1. PICK why \in {"exit", "panic", "timeout"} :
        /\ Die(p, t, why)
        /\ IF LastWords(why) = <<>> THEN UNCHANGED builderVars
           ELSE Add(OutputEv(p, t, LastWords(why)))
  BY DEF Dies
<1>2. /\ Live(p) /\ Running(p, t) /\ process' = [process EXCEPT ![p] = "failing"]
      /\ death' = [death EXCEPT ![p][file] = [why |-> why, test |-> t]]
      /\ executions' = Write(executions, p, t, LastWords(why))
      /\ UNCHANGED <<command, file, iteration>>
  BY <1>1 DEF Die
<1>3. CASE why \in {"panic", "timeout"}
  <2>1. LastWords(why) \in Seq(Bytes) /\ LastWords(why) # <<>>
    BY <1>3, WordsAreText
  <2>2. Printed(p, t, LastWords(why))
    BY <1>1, <1>2, <2>1, OutputStep
  <2> QED
    BY <1>2, <1>3, <2>2 DEF Died
<1>4. CASE why = "exit"
  <2>1. LastWords(why) = <<>>
    BY <1>4 DEF LastWords
  <2>2. UNCHANGED <<Model, finished, package>>
    BY <1>1, <2>1 DEF builderVars, Model
  <2>3. executions' = executions
    <3> DEFINE runs == executions[p][t]
               last == runs[Len(runs)]
    <3>1. runs \in Seq(Execution) /\ runs # <<>> /\ Last(runs) = last /\ last \in Execution
      BY <1>2, RunningLast
    <3>2. last.text \in Seq(Bytes)
      BY <3>1 DEF Execution
    <3>3. last.text \o <<>> = last.text
      BY <3>2, ConcatEmptySeq
    <3>4. [last EXCEPT !.text = @ \o <<>>] = last
      BY <3>1, <3>3 DEF Execution
    <3>5. [runs EXCEPT ![Len(runs)] = last] = runs
      BY <3>1
    <3>6. executions' = [executions EXCEPT ![p][t] = [runs EXCEPT ![Len(runs)] =
                           [last EXCEPT !.text = @ \o <<>>]]]
      BY <1>2, <2>1 DEF Write
    <3>7. executions' = [executions EXCEPT ![p][t] = runs]
      BY <3>4, <3>5, <3>6
    <3> QED
      BY <3>7 DEF Base, ToolchainTypes
  <2> QED
    BY <1>2, <1>4, <2>2, <2>3 DEF Died, Steady
<1> QED
  BY <1>3, <1>4

LEMMA RunsAreThemselves ==
  ASSUME Base
  PROVE  \A p \in Packages, t \in Tests : SameRuns(executions[p][t], executions[p][t])
BY DEF Base, ToolchainTypes, SameRuns

LEMMA FailStep ==
  ASSUME Base, NEW p \in Packages, NEW t \in Tests, Fails(p, t)
  PROVE  Around
<1> DEFINE marked(runs) == [runs EXCEPT ![Len(runs)].failed = TRUE]
<1>1. ASSUME NEW runs \in Seq(Execution) PROVE SameRuns(runs, marked(runs))
  <2>1. CASE runs = <<>>
    <3>1. marked(runs) = <<>>
      BY <2>1
    <3> QED
      BY <2>1, <3>1 DEF SameRuns
  <2>2. CASE runs # <<>>
    <3> DEFINE run == [runs[Len(runs)] EXCEPT !.failed = TRUE]
    <3>1. /\ run \in Execution /\ run.outcome = runs[Len(runs)].outcome
          /\ run.iteration = runs[Len(runs)].iteration /\ run.text = runs[Len(runs)].text
      <4>1. runs[Len(runs)] \in Execution
        BY <2>2
      <4> QED
        BY <4>1 DEF Execution
    <3>2. marked(runs) = [runs EXCEPT ![Len(runs)] = run]
      OBVIOUS
    <3> HIDE DEF run
    <3>3. Altered(Execution, runs, [runs EXCEPT ![Len(runs)] = run], run)
      BY <2>2, <3>1, AlteringAlters
    <3> HIDE DEF marked
    <3> QED
      BY <3>1, <3>2, <3>3 DEF Altered, SameRuns
  <2> QED
    BY <2>1, <2>2
<1> HIDE DEF marked
<1>2. /\ executions' = [executions EXCEPT ![p] = [u \in Tests |->
           IF u \in Above(t) \cup {t} THEN marked(@[u]) ELSE @[u]]]
      /\ UNCHANGED <<process, iteration, death, file, command>> /\ UNCHANGED builderVars
  BY DEF Fails, FailTest, marked
<1>3. \A q \in Packages, u \in Tests :
        \/ executions'[q][u] = executions[q][u]
        \/ executions'[q][u] = marked(executions[q][u])
  BY <1>2 DEF Base, ToolchainTypes
<1>4. \A q \in Packages, u \in Tests : SameRuns(executions[q][u], executions'[q][u])
  BY <1>1, <1>3, RunsAreThemselves DEF Base, ToolchainTypes
<1>5. executions' \in [Packages -> [Tests -> Seq(Execution)]]
  <2>1. /\ executions' = [q \in Packages |-> executions'[q]]
        /\ \A q \in Packages : executions'[q] = [u \in Tests |-> executions'[q][u]]
    BY <1>2 DEF Base, ToolchainTypes
  <2> QED
    BY <1>4, <2>1 DEF SameRuns
<1> QED
  BY <1>2, <1>4, <1>5 DEF Around, Base, ToolchainTypes, PackagesSilent, LinesKept, builderVars, Model

LEMMA PackageStep ==
  ASSUME Base, NEW p \in Packages, Begins(p) \/ Reports(p)
  PROVE  Around
<1>1. UNCHANGED Model /\ LinesKept /\ UNCHANGED finished
  <2>1. ASSUME UNCHANGED builderVars PROVE UNCHANGED Model /\ LinesKept /\ UNCHANGED finished
    BY <2>1 DEF builderVars, Model, LinesKept, Base, PackagesSilent
  <2>2. ASSUME NEW action, Add(PackageEv(p, action))
        PROVE  UNCHANGED Model /\ LinesKept /\ UNCHANGED finished
    BY <2>2, OthersAdded DEF PackageEv, Blank, Base
  <2>3. ASSUME NEW action, NEW binary \in ImportPaths \cup {NoBinary},
               Add([PackageEv(p, action) EXCEPT !.failedBuild = binary])
        PROVE  UNCHANGED Model /\ LinesKept /\ UNCHANGED finished
    BY <2>3, OthersAdded DEF PackageEv, Blank, Base
  <2>4. ASSUME NEW text,
               Add([Blank EXCEPT !.action = "build-output", !.importPath = Binary[p], !.output = text])
        PROVE  UNCHANGED Model /\ LinesKept /\ UNCHANGED finished
    BY <2>4, OthersAdded, BinaryAssumption, NamesAssumption DEF Blank, Base
  <2>5. (IF process[p] = "broken" THEN Binary[p] ELSE NoBinary) \in ImportPaths \cup {NoBinary}
    BY BinaryAssumption
  <2> QED
    BY <2>1, <2>2, <2>3, <2>4, <2>5 DEF Begins, Reports
<1>2. UNCHANGED <<command, death, executions, iteration, file>>
  BY DEF Begins, Reports, Begin, ReportPackage
<1>3. /\ process' \in [Packages -> Stages]
      /\ \A q \in Packages : process[q] \in Over => process'[q] \in Over
  BY DEF Begins, Reports, Begin, ReportPackage, Base, ToolchainTypes, Stages, Over
<1> QED
  BY <1>1, <1>2, <1>3, RunsAreThemselves DEF Around, Base, ToolchainTypes

LEMMA QuietStep ==
  ASSUME Base, (\E p \in Packages : Quietly(p)) \/ Exits
  PROVE  Around
<1>1. UNCHANGED builderVars
  BY DEF Quietly, Exits
<1>2. UNCHANGED Model /\ LinesKept /\ UNCHANGED finished
  BY <1>1 DEF builderVars, Model, LinesKept, Base, PackagesSilent
<1>3. UNCHANGED <<command, death, executions>>
  BY DEF Quietly, Exits, NextIteration, EndProcess, NextFile, Exit
<1>4. command.count \in Nat \ {0} /\ command.files \in Nat \ {0} /\ file \in 1..command.files
  BY CommandsAssumption DEF Base, ToolchainTypes
<1>5. /\ process' \in [Packages -> Stages] /\ iteration' \in [Packages -> Nat]
      /\ file' \in 1..command.files
      /\ command.files = 1 => \A p \in Packages :
           /\ process[p] \in Over => process'[p] \in Over
           /\ \/ iteration'[p] = iteration[p]
              \/ /\ iteration'[p] = iteration[p] + 1 /\ iteration'[p] <= command.count
                 /\ \A t \in Tests : ~Running(p, t)
  <2>1. ASSUME NEW p \in Packages, NextIteration(p) PROVE <1>5!:
    BY <1>4, <2>1 DEF NextIteration, Base, ToolchainTypes
  <2>2. ASSUME NEW p \in Packages, EndProcess(p) PROVE <1>5!:
    BY <1>4, <2>2 DEF EndProcess, Live, Base, ToolchainTypes, Stages, Over
  <2>3. ASSUME NextFile PROVE <1>5!:
    <3>1. command.count * file + 1 \in Nat /\ file + 1 \in 1..command.files /\ command.files # 1
      BY <1>4, <2>3 DEF NextFile
    <3> QED
      BY <2>3, <3>1 DEF NextFile, Base, ToolchainTypes, Stages
  <2>4. ASSUME NEW status, Exit(status) PROVE <1>5!:
    BY <1>4, <2>4 DEF Exit, Base, ToolchainTypes
  <2> QED
    BY <2>1, <2>2, <2>3, <2>4 DEF Quietly, Exits
<1> QED
  BY <1>2, <1>3, <1>5, RunsAreThemselves DEF Around, Base, ToolchainTypes

-----------------------------------------------------------------------------
(***************************************************************************)
(* What a test says before the process dies, and what the runtime says then. *)
(***************************************************************************)
\* What a test logs of its own, but for the newlines.
Plain == Symbols \ {Panic, Banner}

\* The words a process died with, if they went to this execution.
Speech(ending, t, n, last) ==
  IF n = last /\ ending.test = t /\ ending.why \in {"panic", "timeout"} THEN ending.why ELSE "plain"

Says(lines, speech) ==
  CASE speech = "plain" -> lines \in Seq(Seq(Plain))
    [] speech = "panic" -> /\ \E i \in DOMAIN lines : Mentions(lines[i], Panic)
                           /\ \A i \in DOMAIN lines : ~IsBanner(lines[i])
    [] speech = "timeout" -> \E i \in DOMAIN lines : IsBanner(lines[i])

Spoken(t, occs, held, ending) ==
  /\ held \in Seq(Plain)
  /\ \A n \in 1..Len(occs) : Says(occs[n].lines, Speech(ending, t, n, Len(occs)))

\* The executions of a test in the one run of its process, in their iterations.
Sequential(runs, i) ==
  \A n \in 1..Len(runs) :
    /\ runs[n].iteration \in 1..i
    /\ runs[n].outcome = "running" => n = Len(runs) /\ runs[n].iteration = i

LEMMA PlainIsText == Seq(Plain) \subseteq Pieces /\ Seq(Seq(Plain)) \subseteq Seq(Pieces)
<1>1. Seq(Plain) \subseteq Seq(Symbols)
  BY SeqMonotonic DEF Plain
<1>2. PICK A, B : A = Seq(Plain) /\ B = Seq(Symbols)
  OBVIOUS
<1>3. Seq(A) \subseteq Seq(B)
  BY <1>1, <1>2, SeqMonotonic
<1> QED
  BY <1>1, <1>2, <1>3 DEF Pieces

\* A plain line neither mentions a panic nor is the banner of the -timeout alarm.
LEMMA PlainSaysNothing ==
  ASSUME NEW line \in Seq(Plain)
  PROVE  ~Mentions(line, Panic) /\ ~IsBanner(line)
<1>1. \A i \in 1..Len(line) : line[i] \in Plain
  OBVIOUS
<1>2. \A i \in 1..Len(line) - 1 : i \in 1..Len(line)
  OBVIOUS
<1> QED
  BY <1>1, <1>2 DEF Mentions, Contains, IsBanner, Plain

\* What a test logs leaves the joiner with plain lines.
LEMMA PlainTaken ==
  ASSUME NEW k \in Keys, NEW text \in Chunks, partial[k] \in Seq(Plain)
  PROVE  Completed(k, text) \in Seq(Seq(Plain)) /\ Kept(k, text) \in Seq(Plain)
<1> DEFINE buffered == Buffered(k, text)
<1>1. text \in Seq(Plain \cup {NL})
  <2>1. text \in Seq(Bytes)
    BY ChunksAssumption
  <2>2. \A i \in 1..Len(text) : text[i] \in Plain \cup {NL}
    BY <2>1, OutputAssumption DEF Plain, Bytes, ToSet
  <2> QED
    BY <2>1, <2>2
<1>2. buffered \in Texts(Plain, NL)
  <2>1. partial[k] \in Seq(Plain \cup {NL})
    BY SeqMonotonic
  <2> QED
    BY <1>1, <2>1, ConcatProperties DEF Buffered, Texts
<1> HIDE DEF buffered
<1>3. PICK i : i = LastIndex(buffered, NL)
  OBVIOUS
<1>4. CutsOff(Plain, NL, buffered, IF i = 0 THEN <<>> ELSE Split(Before(buffered, i), NL),
              After(buffered, i))
  BY <1>2, <1>3, SymbolsAssumption, SplitAtLast DEF Plain
<1> QED
  BY <1>3, <1>4 DEF CutsOff, Completed, Kept, buffered

\* Last words make one line of what was held and leave nothing.
LEMMA WordsTaken ==
  ASSUME NEW k \in Keys, NEW words \in Seq(Symbols), partial[k] \in Pieces
  PROVE  /\ Completed(k, Append(words, NL)) = <<partial[k] \o words>>
         /\ Kept(k, Append(words, NL)) = <<>>
<1> DEFINE text == Append(words, NL)
           line == partial[k] \o words
           buffered == Buffered(k, text)
<1>1. line \in Seq(Symbols)
  BY ConcatProperties DEF Pieces
<1>2. line \in Texts(Symbols, NL) /\ NL \in Symbols \cup {NL} /\ NL \notin Symbols
      /\ partial[k] \in Seq(Bytes) /\ words \in Seq(Bytes) /\ NL \in Bytes
  BY <1>1, SymbolsAssumption, SeqMonotonic DEF Texts, Bytes, Pieces
<1>3. buffered = Append(line, NL)
  <2>1. PICK held : held = partial[k]
    OBVIOUS
  <2>2. held \in Seq(Bytes) /\ words \in Seq(Bytes) /\ NL \in Bytes
    BY <1>2, <2>1
  <2>3. held \o Append(words, NL) = Append(held \o words, NL)
    BY ONLY <2>2, ConcatAppend
  <2> QED
    BY <2>1, <2>3 DEF Buffered
<1> HIDE DEF line
<1>4. Split(line, NL) = <<line>>
  BY <1>1, <1>2, SplitWhole
<1>5. Split(Append(line, NL), NL) = Append(<<line>>, <<>>)
  <2>1. Split(Append(line, NL), NL) = Lengthened(<<line>>, NL, NL)
    BY <1>2, <1>4, SplitAppended
  <2> QED
    BY <2>1 DEF Lengthened
<1>6. Append(line, NL) \in Texts(Symbols, NL)
  BY <1>2 DEF Texts
<1> HIDE DEF buffered
<1>7. PICK i : i = LastIndex(buffered, NL)
  OBVIOUS
<1>8. PICK done, kept : /\ done = IF i = 0 THEN <<>> ELSE Split(Before(buffered, i), NL)
                        /\ kept = After(buffered, i)
  OBVIOUS
<1>9. CutsOff(Symbols, NL, buffered, done, kept)
  BY <1>2, <1>3, <1>6, <1>7, <1>8, SplitAtLast
<1>10. PICK A : A = Seq(Symbols)
  OBVIOUS
<1>11. done \in Seq(A) /\ kept \in A /\ Append(done, kept) = Append(<<line>>, <<>>)
  BY <1>3, <1>5, <1>9, <1>10 DEF CutsOff
<1>12. <<line>> \in Seq(A) /\ <<>> \in A
  <2>1. <<>> \in Seq(Symbols)
    OBVIOUS
  <2> QED
    BY <1>1, <1>10, <2>1
<1>13. done = Front(Append(done, kept)) /\ kept = Last(Append(done, kept))
  BY <1>11, FrontAndLastOfAppend
<1>14. <<line>> = Front(Append(<<line>>, <<>>)) /\ <<>> = Last(Append(<<line>>, <<>>))
  BY <1>12, FrontAndLastOfAppend
<1> QED
  BY <1>7, <1>8, <1>11, <1>13, <1>14 DEF Completed, Kept, buffered, line
-----------------------------------------------------------------------------
(***************************************************************************)
(* The inductive invariant, until Finish.                                   *)
(***************************************************************************)
NothingHeldBefore ==
  \A p \in Packages, t \in Tests : executions[p][t] = <<>> => partial[<<p, t>>] = <<>>

\* A process runs its iterations one after the other until it ends or dies.
ProcessOK(p) ==
  /\ iteration[p] \in 1..command.count
  /\ \A t \in Tests : Sequential(executions[p][t], iteration[p])
  /\ \/ death[p][1] = Alive
     \/ /\ process[p] \in Over
        /\ death[p][1].why # "none" /\ death[p][1].test \in Tests
        /\ executions[p][death[p][1].test] # <<>>

SpeechOK(p) ==
  \A t \in Tests : Spoken(t, occurrences[p][t], partial[<<p, t>>], death[p][1])

OneStream == command.files = 1 => \A p \in Packages : ProcessOK(p) /\ SpeechOK(p)

Ongoing == Base /\ NothingHeldBefore /\ OneStream

LEMMA FirstFile ==
  ASSUME ToolchainTypes
  PROVE  /\ command.count \in Nat \ {0} /\ command.files \in Nat \ {0}
         /\ file \in 1..command.files /\ 1 \in 1..command.files
         /\ \A p \in Packages : death[p][1] \in Ending
         /\ command.files = 1 => file = 1
<1>1. command.count \in Nat \ {0} /\ command.files \in Nat \ {0} /\ file \in 1..command.files
  BY CommandsAssumption DEF ToolchainTypes
<1>2. 1 \in 1..command.files /\ (command.files = 1 => file = 1)
  BY <1>1
<1>3. \A p \in Packages : death[p] \in [1..command.files -> Ending]
  BY DEF ToolchainTypes
<1> QED
  BY <1>1, <1>2, <1>3

\* A live process has not died.
LEMMA LiveIsAlive ==
  ASSUME Ongoing, command.files = 1, NEW p \in Packages, Live(p)
  PROVE  death[p][1] = Alive
BY DEF Ongoing, OneStream, ProcessOK, Live, Over

\* What a change of one test leaves to show.
LEMMA OneTestChanged ==
  ASSUME Base, NEW p \in Packages, NEW t \in Tests,
         NEW runs \in Seq(Execution), NEW occs \in Seq(Recorded), NEW held \in Pieces,
         TestStep(p, t, runs, occs, held), Twin(occs, runs),
         process' \in [Packages -> Stages],
         death' \in [Packages -> [1..command.files -> Ending]]
  PROVE  /\ Base'
         /\ executions'[p][t] = runs /\ occurrences'[p][t] = occs /\ partial'[<<p, t>>] = held
         /\ \A q \in Packages, u \in Tests : <<q, u>> # <<p, t>> =>
              /\ executions'[q][u] = executions[q][u] /\ occurrences'[q][u] = occurrences[q][u]
              /\ partial'[<<q, u>>] = partial[<<q, u>>]
         /\ UNCHANGED <<command, file, iteration>>
<1>1. /\ executions' = [executions EXCEPT ![p][t] = runs]
      /\ occurrences' = [occurrences EXCEPT ![p][t] = occs]
      /\ open' = [open EXCEPT ![p][t] = Len(occs)]
      /\ partial' = [partial EXCEPT ![<<p, t>>] = held]
      /\ UNCHANGED <<command, file, iteration, finished, package>>
  BY DEF TestStep, Changed, Steady
<1>2. /\ Types /\ OpenIsLast /\ PackagesSilent /\ ToolchainTypes /\ Twins /\ ~finished
  BY DEF Base
<1>3. /\ Len(occs) \in Nat /\ <<p, t>> \in Keys /\ t # NoTest
      /\ \A q \in Packages, u \in Tests : <<q, u>> \in Keys
      /\ \A q \in Packages : <<q, NoTest>> \in Keys /\ <<q, NoTest>> # <<p, t>>
  BY NamesAssumption DEF Keys
<1>4. /\ executions'[p][t] = runs /\ occurrences'[p][t] = occs /\ partial'[<<p, t>>] = held
      /\ open'[p][t] = Len(occs)
      /\ \A q \in Packages, u \in Tests : <<q, u>> # <<p, t>> =>
           /\ executions'[q][u] = executions[q][u] /\ occurrences'[q][u] = occurrences[q][u]
           /\ partial'[<<q, u>>] = partial[<<q, u>>] /\ open'[q][u] = open[q][u]
      /\ \A q \in Packages : partial'[<<q, NoTest>>] = partial[<<q, NoTest>>]
  BY <1>1, <1>2, <1>3 DEF Types, ToolchainTypes
<1>5. Types'
  BY <1>1, <1>2, <1>3 DEF Types
<1>6. OpenIsLast'
  <2> SUFFICES ASSUME NEW q \in Packages, NEW u \in Tests
               PROVE  open'[q][u] = Len(occurrences'[q][u])
    BY DEF OpenIsLast
  <2>1. CASE q = p /\ u = t
    BY <1>4, <2>1
  <2>2. CASE ~ (q = p /\ u = t)
    <3>1. open[q][u] = Len(occurrences[q][u]) /\ <<q, u>> # <<p, t>>
      BY <1>2, <2>2 DEF OpenIsLast
    <3>2. open'[q][u] = open[q][u] /\ occurrences'[q][u] = occurrences[q][u]
      BY <1>4, <3>1
    <3> QED
      BY <3>1, <3>2
  <2> QED
    BY <2>1, <2>2
<1>7. PackagesSilent'
  BY <1>1, <1>2, <1>4 DEF PackagesSilent, PackageRecord
<1>8. ToolchainTypes'
  BY <1>1, <1>2 DEF ToolchainTypes
<1>9. Twins'
  BY <1>2, <1>4 DEF Twins
<1> QED
  BY <1>1, <1>2, <1>4, <1>5, <1>6, <1>7, <1>8, <1>9 DEF Base
-----------------------------------------------------------------------------
\* The iterations of a test after each change of its executions.
LEMMA SequentialStart ==
  ASSUME NEW i \in Nat \ {0}, NEW runs \in Seq(Execution), NEW runs2, NEW run,
         Sequential(runs, i), runs # <<>> => Last(runs).iteration < i,
         Appended(Execution, runs, runs2, run), run.iteration = i
  PROVE  Sequential(runs2, i)
<1>1. Len(runs2) = Len(runs) + 1 /\ Len(runs) \in Nat /\ i \in 1..i
      /\ \A n \in 1..Len(runs2) : n = Len(runs2) \/ n \in 1..Len(runs)
  BY DEF Appended
<1>2. ASSUME NEW n \in 1..Len(runs), runs[n].outcome = "running" PROVE FALSE
  <2>1. n = Len(runs) /\ runs[n].iteration = i /\ runs # <<>>
    BY <1>2 DEF Sequential
  <2> QED
    BY <2>1 DEF Last
<1> QED
  BY <1>1, <1>2 DEF Sequential, Appended

LEMMA SequentialAlter ==
  ASSUME NEW i \in Nat \ {0}, NEW runs \in Seq(Execution), NEW runs2, NEW run,
         Sequential(runs, i), Altered(Execution, runs, runs2, run),
         run.iteration = Last(runs).iteration,
         Last(runs).outcome = "running"
  PROVE  Sequential(runs2, i)
<1>1. Len(runs) \in 1..Len(runs) /\ Last(runs) = runs[Len(runs)] /\ Len(runs2) = Len(runs)
  BY DEF Altered, Last
<1>2. Last(runs).iteration = i
  BY <1>1 DEF Sequential
<1> QED
  BY <1>1, <1>2 DEF Sequential, Altered

LEMMA SequentialSame ==
  ASSUME NEW i, NEW runs, NEW runs2, Sequential(runs, i), SameRuns(runs, runs2)
  PROVE  Sequential(runs2, i)
BY DEF Sequential, SameRuns

LEMMA SequentialNext ==
  ASSUME NEW i \in Nat, NEW runs \in Seq(Execution), Sequential(runs, i),
         ~ (runs # <<>> /\ Last(runs).outcome = "running" /\ Last(runs).iteration = i)
  PROVE  Sequential(runs, i + 1)
<1>1. ASSUME NEW n \in 1..Len(runs), runs[n].outcome = "running" PROVE FALSE
  <2>1. n = Len(runs) /\ runs[n].iteration = i /\ runs # <<>>
    BY <1>1 DEF Sequential
  <2> QED
    BY <1>1, <2>1 DEF Last
<1> QED
  BY <1>1 DEF Sequential

\* What the occurrences of a test say after each change, while its process lives.
LEMMA AliveIsPlain ==
  ASSUME NEW t, NEW n, NEW last, NEW ending, ending = Alive \/ ending.why = "exit" \/ ending.test # t
  PROVE  Speech(ending, t, n, last) = "plain"
BY DEF Speech, Alive

LEMMA SpokenAlive ==
  ASSUME NEW t, NEW occs, NEW held, NEW ending,
         ending = Alive \/ ending.why = "exit" \/ ending.test # t
  PROVE  Spoken(t, occs, held, ending) <=>
           /\ held \in Seq(Plain)
           /\ \A n \in 1..Len(occs) : occs[n].lines \in Seq(Seq(Plain))
BY AliveIsPlain DEF Spoken, Says

LEMMA SpokenStart ==
  ASSUME NEW t, NEW occs, NEW occs2, NEW held, Spoken(t, occs, held, Alive),
         Appended(Recorded, occs, occs2, NewOccurrence)
  PROVE  Spoken(t, occs2, held, Alive)
<1>1. \A n \in 1..Len(occs2) : n = Len(occs2) \/ n \in 1..Len(occs)
  BY DEF Appended
<1>2. NewOccurrence.lines \in Seq(Seq(Plain))
  BY DEF NewOccurrence
<1> QED
  BY <1>1, <1>2, SpokenAlive DEF Appended

LEMMA SpokenText ==
  ASSUME NEW t, NEW occs \in Seq(Recorded), NEW occs2, NEW occ, NEW held, NEW lines, NEW kept,
         Spoken(t, occs, held, Alive), Altered(Recorded, occs, occs2, occ),
         lines \in Seq(Seq(Plain)), kept \in Seq(Plain), occ.lines = Last(occs).lines \o lines
  PROVE  Spoken(t, occs2, kept, Alive)
<1>1. Len(occs) \in 1..Len(occs) /\ Last(occs) = occs[Len(occs)]
  BY DEF Altered, Last
<1>2. Last(occs).lines \in Seq(Seq(Plain))
  BY <1>1, SpokenAlive
<1>3. occ.lines \in Seq(Seq(Plain))
  BY <1>2, ConcatProperties
<1> QED
  BY <1>3, SpokenAlive DEF Altered

LEMMA SpokenEnd ==
  ASSUME NEW t, NEW occs \in Seq(Recorded), NEW occs2, NEW occ, NEW held,
         Spoken(t, occs, held, Alive), Altered(Recorded, occs, occs2, occ),
         occ.lines = Last(occs).lines
  PROVE  Spoken(t, occs2, held, Alive)
<1>1. Len(occs) \in 1..Len(occs) /\ Last(occs) = occs[Len(occs)]
  BY DEF Altered, Last
<1> QED
  BY <1>1, SpokenAlive DEF Altered

\* The last words are the last line of the last occurrence, which was plain.
LEMMA SpokenDie ==
  ASSUME NEW t \in Tests, NEW occs \in Seq(Recorded), NEW occs2, NEW occ, NEW held,
         NEW why \in {"panic", "timeout"}, NEW words,
         words = IF why = "panic" THEN <<Panic>> ELSE <<Panic, Banner>>,
         Spoken(t, occs, held, Alive), Altered(Recorded, occs, occs2, occ),
         occ.lines = Last(occs).lines \o <<held \o words>>
  PROVE  Spoken(t, occs2, <<>>, [why |-> why, test |-> t])
<1> DEFINE line == held \o words
           ending == [why |-> why, test |-> t]
<1>1. Len(occs) \in 1..Len(occs) /\ Last(occs) = occs[Len(occs)] /\ Len(occs2) = Len(occs)
  BY DEF Altered, Last
<1>2. held \in Seq(Plain) /\ \A n \in 1..Len(occs) : occs[n].lines \in Seq(Seq(Plain))
  BY SpokenAlive
<1>3. PICK before : before = Last(occs).lines /\ before \in Seq(Seq(Plain))
  BY <1>1, <1>2
<1>4. /\ Len(line) = Len(held) + Len(words) /\ Len(held) \in Nat
      /\ \A i \in 1..Len(held) : line[i] = held[i] /\ held[i] \in Plain
      /\ line[Len(held) + 1] = Panic
      /\ why = "timeout" => Len(words) = 2 /\ line[Len(held) + 2] = Banner
      /\ why = "panic" => Len(words) = 1
  <2>1. CASE why = "panic"
    <3>1. words = <<Panic>>
      BY <2>1
    <3> QED
      BY <1>2, <2>1, <3>1
  <2>2. CASE why = "timeout"
    <3>1. words = <<Panic, Banner>>
      BY <2>2
    <3> QED
      BY <1>2, <2>2, <3>1
  <2> QED
    BY <2>1, <2>2
<1> HIDE DEF line
<1>5. /\ DOMAIN occ.lines = 1..Len(before) + 1 /\ Len(before) \in Nat
      /\ occ.lines[Len(before) + 1] = line
      /\ \A i \in 1..Len(before) : occ.lines[i] = before[i] /\ before[i] \in Seq(Plain)
  <2>1. PICK A, B : B = Seq(Plain) /\ A = B \cup {line}
    OBVIOUS
  <2>2. before \in Seq(A) /\ line \in A /\ before \in Seq(B)
    BY <1>3, <2>1, SeqMonotonic
  <2>3. occ.lines = Append(before, line)
    BY <1>3, <2>2, AppendIsConcat DEF line
  <2>4. \A i \in 1..Len(before) : before[i] \in B
    BY <2>2
  <2> HIDE DEF line
  <2>5. /\ DOMAIN Append(before, line) = 1..Len(before) + 1 /\ Len(before) \in Nat
        /\ Append(before, line)[Len(before) + 1] = line
        /\ \A i \in 1..Len(before) : Append(before, line)[i] = before[i]
    BY <2>2
  <2> QED
    BY <2>1, <2>3, <2>4, <2>5
<1>6. \A i \in 1..Len(before) : ~IsBanner(occ.lines[i])
  BY <1>5, PlainSaysNothing
<1>7. Says(occ.lines, why)
  <2>1. CASE why = "panic"
    <3>1. Mentions(line, Panic)
      BY <1>4, <2>1 DEF Mentions, Contains
    <3>2. ~IsBanner(line)
      <4>1. Len(line) - 1 = Len(held)
        BY <1>4, <2>1
      <4>2. \A i \in 1..Len(held) : line[i] # Panic
        BY <1>4 DEF Plain
      <4> QED
        BY <4>1, <4>2 DEF IsBanner
    <3>3. \A i \in DOMAIN occ.lines : i = Len(before) + 1 \/ i \in 1..Len(before)
      BY <1>5
    <3>4. Len(before) + 1 \in DOMAIN occ.lines
      BY <1>5
    <3> QED
      BY <1>5, <1>6, <2>1, <3>1, <3>2, <3>3, <3>4 DEF Says
  <2>2. CASE why = "timeout"
    <3>1. IsBanner(line)
      <4>1. Len(held) + 1 \in 1..Len(line) - 1 /\ (Len(held) + 1) + 1 = Len(held) + 2
        BY <1>4, <2>2
      <4> QED
        BY <1>4, <2>2, <4>1 DEF IsBanner
    <3>2. Len(before) + 1 \in DOMAIN occ.lines
      BY <1>5
    <3> QED
      BY <1>5, <2>2, <3>1, <3>2 DEF Says
  <2> QED
    BY <2>1, <2>2
<1>8. ASSUME NEW n \in 1..Len(occs2)
      PROVE  Says(occs2[n].lines, Speech(ending, t, n, Len(occs2)))
  <2>1. CASE n = Len(occs2)
    <3>1. occs2[n] = occ /\ Speech(ending, t, n, Len(occs2)) = why
      BY <1>1, <2>1 DEF Altered, Speech
    <3> QED
      BY <1>7, <3>1
  <2>2. CASE n # Len(occs2)
    <3>1. occs2[n] = occs[n] /\ n \in 1..Len(occs) /\ Speech(ending, t, n, Len(occs2)) = "plain"
      BY <1>1, <2>2 DEF Altered, Speech
    <3> QED
      BY <1>2, <3>1 DEF Says
  <2> QED
    BY <2>1, <2>2
<1>9. <<>> \in Seq(Plain)
  OBVIOUS
<1> QED
  BY <1>8, <1>9 DEF Spoken
-----------------------------------------------------------------------------
LEMMA AroundKeeps ==
  ASSUME Ongoing, Around
  PROVE  Ongoing'
<1>1. Base /\ Types /\ OpenIsLast /\ PackagesSilent /\ ToolchainTypes /\ Twins /\ ~finished
      /\ NothingHeldBefore /\ OneStream
  BY DEF Ongoing, Base
<1>2. /\ UNCHANGED Model /\ LinesKept /\ UNCHANGED <<command, death, finished>>
      /\ executions' \in [Packages -> [Tests -> Seq(Execution)]]
      /\ \A p \in Packages, t \in Tests : SameRuns(executions[p][t], executions'[p][t])
      /\ process' \in [Packages -> Stages] /\ iteration' \in [Packages -> Nat]
      /\ file' \in 1..command.files
  BY DEF Around
<1>3. Types' /\ OpenIsLast'
  BY <1>1, <1>2 DEF Types, OpenIsLast, Model
<1>4. PackagesSilent'
  BY <1>1, <1>2 DEF PackagesSilent, LinesKept, Model
<1>5. ToolchainTypes'
  BY <1>1, <1>2 DEF ToolchainTypes
<1>6. Twins'
  <2>1. ASSUME NEW occs, NEW runs, NEW runs2, Twin(occs, runs), SameRuns(runs, runs2)
        PROVE  Twin(occs, runs2)
    BY <2>1 DEF Twin, Mirrors, SameRuns
  <2> QED
    BY <1>1, <1>2, <2>1 DEF Twins, Model
<1>7. NothingHeldBefore'
  <2> SUFFICES ASSUME NEW p \in Packages, NEW t \in Tests, executions'[p][t] = <<>>
               PROVE  partial'[<<p, t>>] = <<>>
    BY DEF NothingHeldBefore
  <2>1. executions[p][t] \in Seq(Execution) /\ Len(executions[p][t]) = Len(<<>>)
    BY <1>1, <1>2 DEF ToolchainTypes, SameRuns
  <2>2. executions[p][t] = <<>>
    BY <2>1
  <2> QED
    BY <1>1, <1>2, <2>2 DEF NothingHeldBefore, Model
<1>8. OneStream'
  <2> SUFFICES ASSUME command'.files = 1, NEW p \in Packages PROVE ProcessOK(p)' /\ SpeechOK(p)'
    BY DEF OneStream
  <2>1. command.files = 1 /\ ProcessOK(p) /\ SpeechOK(p)
    BY <1>1, <1>2 DEF OneStream
  <2>2. SpeechOK(p)'
    BY <1>2, <2>1 DEF SpeechOK, Model
  <2>3. /\ process[p] \in Over => process'[p] \in Over
        /\ \/ iteration'[p] = iteration[p]
           \/ /\ iteration'[p] = iteration[p] + 1 /\ iteration'[p] <= command.count
              /\ \A t \in Tests : ~Running(p, t)
    BY <2>1 DEF Around
  <2>4. iteration[p] \in Nat /\ command.count \in Nat
    BY <1>1, FirstFile DEF ToolchainTypes
  <2>5. iteration'[p] \in 1..command'.count
    BY <1>2, <2>1, <2>3, <2>4 DEF ProcessOK
  <2>6. ASSUME NEW t \in Tests PROVE Sequential(executions'[p][t], iteration'[p])
    <3>1. SameRuns(executions[p][t], executions'[p][t]) /\ Sequential(executions[p][t], iteration[p])
          /\ executions[p][t] \in Seq(Execution)
      BY <1>1, <1>2, <2>1 DEF ProcessOK, ToolchainTypes
    <3>2. Sequential(executions[p][t], iteration'[p])
      <4>1. CASE \A u \in Tests : ~Running(p, u)
        BY <2>3, <2>4, <3>1, <4>1, SequentialNext DEF Running
      <4>2. CASE iteration'[p] = iteration[p]
        BY <3>1, <4>2
      <4> QED
        BY <2>3, <4>1, <4>2
    <3> QED
      BY <3>1, <3>2, SequentialSame
  <2>7. \/ death'[p][1] = Alive
        \/ /\ process'[p] \in Over
           /\ death'[p][1].why # "none" /\ death'[p][1].test \in Tests
           /\ executions'[p][death'[p][1].test] # <<>>
    <3>1. CASE death[p][1] = Alive
      BY <1>2, <3>1
    <3>2. CASE death[p][1] # Alive
      <4> DEFINE t == death[p][1].test
      <4>1. /\ process[p] \in Over /\ death[p][1].why # "none" /\ t \in Tests
            /\ executions[p][t] # <<>> /\ death' = death
        BY <1>2, <2>1, <3>2 DEF ProcessOK
      <4>2. executions[p][t] \in Seq(Execution) /\ SameRuns(executions[p][t], executions'[p][t])
        BY <1>1, <1>2, <4>1 DEF ToolchainTypes
      <4> HIDE DEF t
      <4>3. executions'[p][t] # <<>>
        BY <4>1, <4>2 DEF SameRuns
      <4> QED
        BY <2>3, <4>1, <4>3 DEF t
    <3> QED
      BY <3>1, <3>2
  <2> QED
    BY <2>2, <2>5, <2>6, <2>7 DEF ProcessOK
<1> QED
  BY <1>1, <1>2, <1>3, <1>4, <1>5, <1>6, <1>7, <1>8 DEF Ongoing, Base

\* A change of one test keeps the invariant if it does so for that test, and says
\* the same of the others.
LEMMA OneTestKeeps ==
  ASSUME Ongoing, NEW p \in Packages, NEW t \in Tests,
         NEW runs \in Seq(Execution), NEW occs \in Seq(Recorded), NEW held \in Pieces,
         TestStep(p, t, runs, occs, held), Twin(occs, runs), runs # <<>>,
         process' \in [Packages -> Stages],
         death' \in [Packages -> [1..command.files -> Ending]],
         command.files = 1 =>
           /\ Sequential(runs, iteration[p])
           /\ Spoken(t, occs, held, death'[p][1])
           /\ \A u \in Tests : u # t => Spoken(u, occurrences[p][u], partial[<<p, u>>], death'[p][1])
           /\ \/ death'[p][1] = Alive
              \/ death'[p][1].why # "none" /\ death'[p][1].test = t /\ process'[p] \in Over
           /\ \A q \in Packages : q # p => death'[q][1] = death[q][1] /\ process'[q] = process[q]
  PROVE  Ongoing'
<1>1. Base /\ ToolchainTypes /\ NothingHeldBefore /\ OneStream
  BY DEF Ongoing, Base
<1>2. /\ Base'
      /\ executions'[p][t] = runs /\ occurrences'[p][t] = occs /\ partial'[<<p, t>>] = held
      /\ \A q \in Packages, u \in Tests : <<q, u>> # <<p, t>> =>
           /\ executions'[q][u] = executions[q][u] /\ occurrences'[q][u] = occurrences[q][u]
           /\ partial'[<<q, u>>] = partial[<<q, u>>]
      /\ UNCHANGED <<command, file, iteration>>
  BY <1>1, OneTestChanged
<1>3. NothingHeldBefore'
  <2> SUFFICES ASSUME NEW q \in Packages, NEW u \in Tests, executions'[q][u] = <<>>
               PROVE  partial'[<<q, u>>] = <<>>
    BY DEF NothingHeldBefore
  <2>1. ~ (q = p /\ u = t)
    BY <1>2
  <2>2. <<q, u>> # <<p, t>>
    BY <2>1
  <2>3. executions'[q][u] = executions[q][u] /\ partial'[<<q, u>>] = partial[<<q, u>>]
    BY <1>2, <2>2
  <2> QED
    BY <1>1, <2>3 DEF NothingHeldBefore
<1>4. OneStream'
  <2> SUFFICES ASSUME command'.files = 1, NEW q \in Packages PROVE ProcessOK(q)' /\ SpeechOK(q)'
    BY DEF OneStream
  <2>1. command.files = 1 /\ \A r \in Packages : ProcessOK(r) /\ SpeechOK(r)
    BY <1>1, <1>2 DEF OneStream
  <2>2. CASE q # p
    <3>1. death'[q][1] = death[q][1] /\ process'[q] = process[q]
          /\ \A u \in Tests : /\ executions'[q][u] = executions[q][u]
                              /\ occurrences'[q][u] = occurrences[q][u]
                              /\ partial'[<<q, u>>] = partial[<<q, u>>]
      BY <1>2, <2>1, <2>2
    <3>2. ProcessOK(q) /\ SpeechOK(q)
      BY <2>1
    <3>3. SpeechOK(q)'
      BY <3>1, <3>2 DEF SpeechOK
    <3>4. ProcessOK(q)'
      <4>1. iteration'[q] = iteration[q] /\ command'.count = command.count
        BY <1>2
      <4>2. \A u \in Tests : Sequential(executions'[q][u], iteration'[q])
        BY <3>1, <3>2, <4>1 DEF ProcessOK
      <4>3. \/ death'[q][1] = Alive
            \/ /\ process'[q] \in Over /\ death'[q][1].why # "none" /\ death'[q][1].test \in Tests
               /\ executions'[q][death'[q][1].test] # <<>>
        BY <3>1, <3>2 DEF ProcessOK
      <4>4. iteration'[q] \in 1..command'.count
        BY <3>2, <4>1 DEF ProcessOK
      <4> QED
        BY <4>2, <4>3, <4>4 DEF ProcessOK
    <3> QED
      BY <3>3, <3>4
  <2>3. CASE q = p
    <3>1. SpeechOK(p)'
      <4> SUFFICES ASSUME NEW u \in Tests
                   PROVE  Spoken(u, occurrences'[p][u], partial'[<<p, u>>], death'[p][1])
        BY DEF SpeechOK
      <4>1. CASE u = t
        BY <1>2, <2>1, <4>1
      <4>2. CASE u # t
        BY <1>2, <2>1, <4>2
      <4> QED
        BY <4>1, <4>2
    <3>2. ProcessOK(p)'
      <4>1. iteration'[p] \in 1..command'.count
        BY <1>2, <2>1 DEF ProcessOK
      <4>2. ASSUME NEW u \in Tests PROVE Sequential(executions'[p][u], iteration'[p])
        <5>1. CASE u = t
          BY <1>2, <2>1, <5>1
        <5>2. CASE u # t
          BY <1>2, <2>1, <5>2 DEF ProcessOK
        <5> QED
          BY <5>1, <5>2
      <4>3. \/ death'[p][1] = Alive
            \/ /\ process'[p] \in Over /\ death'[p][1].why # "none" /\ death'[p][1].test \in Tests
               /\ executions'[p][death'[p][1].test] # <<>>
        BY <1>2, <2>1
      <4> QED
        BY <4>1, <4>2, <4>3 DEF ProcessOK
    <3> QED
      BY <2>3, <3>1, <3>2
  <2> QED
    BY <2>2, <2>3
<1> QED
  BY <1>2, <1>3, <1>4 DEF Ongoing

\* What is known of a test whose process lives.
LEMMA LiveTest ==
  ASSUME Ongoing, NEW p \in Packages, NEW t \in Tests, Live(p)
  PROVE  /\ executions[p][t] \in Seq(Execution) /\ occurrences[p][t] \in Seq(Recorded)
         /\ partial[<<p, t>>] \in Pieces /\ <<p, t>> \in Keys
         /\ Twin(occurrences[p][t], executions[p][t])
         /\ command.files = 1 =>
              /\ iteration[p] \in Nat \ {0}
              /\ death[p][1] = Alive
              /\ Sequential(executions[p][t], iteration[p])
              /\ \A u \in Tests : Spoken(u, occurrences[p][u], partial[<<p, u>>], Alive)
<1>1. <<p, t>> \in Keys
  BY DEF Keys
<1>2. ASSUME command.files = 1
      PROVE  /\ iteration[p] \in Nat \ {0} /\ death[p][1] = Alive
             /\ Sequential(executions[p][t], iteration[p])
             /\ \A u \in Tests : Spoken(u, occurrences[p][u], partial[<<p, u>>], Alive)
  <2>1. ProcessOK(p) /\ SpeechOK(p) /\ death[p][1] = Alive
    BY <1>2, LiveIsAlive DEF Ongoing, OneStream
  <2>2. command.count \in Nat \ {0}
    BY FirstFile DEF Ongoing, Base
  <2> QED
    BY <2>1, <2>2 DEF ProcessOK, SpeechOK
<1> QED
  BY <1>1, <1>2 DEF Ongoing, Base, ToolchainTypes, Types, Twins

LEMMA LiveTestKeeps ==
  ASSUME Ongoing, NEW p \in Packages, NEW t \in Tests, Live(p), UNCHANGED <<process, death>>,
         NEW runs \in Seq(Execution), NEW occs \in Seq(Recorded), NEW held \in Pieces,
         TestStep(p, t, runs, occs, held), Twin(occs, runs), runs # <<>>,
         command.files = 1 => Sequential(runs, iteration[p]) /\ Spoken(t, occs, held, Alive)
  PROVE  Ongoing'
<1>1. /\ process' \in [Packages -> Stages]
      /\ death' \in [Packages -> [1..command.files -> Ending]]
  BY DEF Ongoing, Base, ToolchainTypes
<1>2. command.files = 1 =>
        /\ Sequential(runs, iteration[p])
        /\ Spoken(t, occs, held, death'[p][1])
        /\ \A u \in Tests : u # t => Spoken(u, occurrences[p][u], partial[<<p, u>>], death'[p][1])
        /\ \/ death'[p][1] = Alive
           \/ death'[p][1].why # "none" /\ death'[p][1].test = t /\ process'[p] \in Over
        /\ \A q \in Packages : q # p => death'[q][1] = death[q][1] /\ process'[q] = process[q]
  <2> SUFFICES ASSUME command.files = 1
               PROVE  /\ Spoken(t, occs, held, death'[p][1])
                      /\ \A u \in Tests : u # t =>
                           Spoken(u, occurrences[p][u], partial[<<p, u>>], death'[p][1])
                      /\ death'[p][1] = Alive
    OBVIOUS
  <2>1. death'[p][1] = Alive /\ \A u \in Tests : Spoken(u, occurrences[p][u], partial[<<p, u>>], Alive)
    BY LiveTest
  <2> QED
    BY <2>1
<1> QED
  BY <1>1, <1>2, OneTestKeeps

LEMMA StartedKeeps ==
  ASSUME Ongoing, NEW p \in Packages, NEW t \in Tests, Started(p, t)
  PROVE  Ongoing'
<1>1. PICK runs, occs, run :
        /\ TestStep(p, t, runs, occs, partial[<<p, t>>])
        /\ Live(p) /\ UNCHANGED <<process, death>>
        /\ executions[p][t] # <<>> => Last(executions[p][t]).iteration < iteration[p]
        /\ run \in Execution /\ run.outcome = "running" /\ run.text = <<>>
        /\ run.iteration = iteration[p]
        /\ Appended(Execution, executions[p][t], runs, run)
        /\ Appended(Recorded, occurrences[p][t], occs, NewOccurrence)
  BY DEF Started
<1>2. Twin(occs, runs) /\ runs # <<>> /\ runs \in Seq(Execution) /\ occs \in Seq(Recorded)
  <2>1. Mirrors(NewOccurrence, run)
    BY <1>1, NewIsRecorded DEF Mirrors
  <2>2. Twin(occs, runs)
    BY <1>1, <2>1, LiveTest, TwinsStart
  <2> QED
    BY <1>1, <2>2 DEF Appended
<1>3. ASSUME command.files = 1
      PROVE  Sequential(runs, iteration[p]) /\ Spoken(t, occs, partial[<<p, t>>], Alive)
  BY <1>1, <1>3, LiveTest, SequentialStart, SpokenStart
<1>4. partial[<<p, t>>] \in Pieces
  BY <1>1, LiveTest
<1> QED
  BY <1>1, <1>2, <1>3, <1>4, LiveTestKeeps

LEMMA LoggedKeeps ==
  ASSUME Ongoing, NEW p \in Packages, NEW t \in Tests, NEW text \in Chunks,
         Printed(p, t, text), Live(p), Running(p, t), UNCHANGED <<process, death>>
  PROVE  Ongoing'
<1> DEFINE kept == Kept(<<p, t>>, text)
           lines == Completed(<<p, t>>, text)
<1>1. PICK runs, occs, run, occ :
        /\ TestStep(p, t, runs, occs, kept)
        /\ Altered(Execution, executions[p][t], runs, run)
        /\ run = [Last(executions[p][t]) EXCEPT !.text = @ \o text]
        /\ Altered(Recorded, occurrences[p][t], occs, occ)
        /\ occ.terminal = Last(occurrences[p][t]).terminal
        /\ occ.status = Last(occurrences[p][t]).status
        /\ occ.lines = Last(occurrences[p][t]).lines \o lines
  BY DEF Printed
<1>2. /\ Last(executions[p][t]) \in Execution /\ Last(executions[p][t]).outcome = "running"
      /\ ~Last(occurrences[p][t]).terminal /\ Last(occurrences[p][t]).status = None
  BY RunningLast DEF Ongoing
<1>3. run.outcome = "running" /\ run.iteration = Last(executions[p][t]).iteration
  BY <1>1, <1>2 DEF Execution
<1>4. Twin(occs, runs) /\ runs # <<>> /\ runs \in Seq(Execution) /\ occs \in Seq(Recorded)
  <2>1. Mirrors(occ, run)
    BY <1>1, <1>2, <1>3 DEF Mirrors
  <2>2. Twin(occs, runs)
    BY <1>1, <2>1, LiveTest, TwinsAlter
  <2> QED
    BY <1>1, <2>2 DEF Altered
<1>5. kept \in Pieces
  BY LiveTest, JoinedIsText, ChunksAssumption DEF Ongoing, Base
<1> HIDE DEF kept, lines
<1>6. ASSUME command.files = 1
      PROVE  Sequential(runs, iteration[p]) /\ Spoken(t, occs, kept, Alive)
  <2>1. /\ iteration[p] \in Nat \ {0} /\ Sequential(executions[p][t], iteration[p])
        /\ Spoken(t, occurrences[p][t], partial[<<p, t>>], Alive) /\ <<p, t>> \in Keys
        /\ executions[p][t] \in Seq(Execution) /\ occurrences[p][t] \in Seq(Recorded)
    BY <1>6, LiveTest
  <2>2. Sequential(runs, iteration[p])
    BY <1>1, <1>2, <1>3, <2>1, SequentialAlter
  <2>3. lines \in Seq(Seq(Plain)) /\ kept \in Seq(Plain)
    BY <2>1, PlainTaken DEF Spoken, kept, lines
  <2>4. Spoken(t, occs, kept, Alive)
    BY <1>1, <2>1, <2>3, SpokenText
  <2> QED
    BY <2>2, <2>4
<1> QED
  BY <1>1, <1>4, <1>5, <1>6, LiveTestKeeps

LEMMA EndedKeeps ==
  ASSUME Ongoing, NEW p \in Packages, NEW t \in Tests, NEW action \in Results,
         Ended(p, t, action), Live(p), Running(p, t), UNCHANGED <<process, death>>
  PROVE  Ongoing'
<1>1. PICK runs, occs, run, occ :
        /\ TestStep(p, t, runs, occs, partial[<<p, t>>])
        /\ Altered(Execution, executions[p][t], runs, run)
        /\ run = [Last(executions[p][t]) EXCEPT !.outcome = action]
        /\ Altered(Recorded, occurrences[p][t], occs, occ)
        /\ occ.terminal = TRUE /\ occ.status = Verdict(action)
        /\ occ.lines = Last(occurrences[p][t]).lines
  BY DEF Ended
<1>2. Last(executions[p][t]) \in Execution /\ Last(executions[p][t]).outcome = "running"
  BY RunningLast DEF Ongoing
<1>3. run.outcome = action /\ run.iteration = Last(executions[p][t]).iteration
  BY <1>1, <1>2 DEF Execution
<1>4. Twin(occs, runs) /\ runs # <<>> /\ runs \in Seq(Execution) /\ occs \in Seq(Recorded)
  <2>1. Mirrors(occ, run)
    BY <1>1, <1>3 DEF Mirrors, Results
  <2>2. Twin(occs, runs)
    BY <1>1, <2>1, LiveTest, TwinsAlter
  <2> QED
    BY <1>1, <2>2 DEF Altered
<1>5. ASSUME command.files = 1
      PROVE  Sequential(runs, iteration[p]) /\ Spoken(t, occs, partial[<<p, t>>], Alive)
  <2>1. /\ iteration[p] \in Nat \ {0} /\ Sequential(executions[p][t], iteration[p])
        /\ Spoken(t, occurrences[p][t], partial[<<p, t>>], Alive)
        /\ executions[p][t] \in Seq(Execution) /\ occurrences[p][t] \in Seq(Recorded)
    BY <1>5, LiveTest
  <2>2. Sequential(runs, iteration[p])
    BY <1>1, <1>2, <1>3, <2>1, SequentialAlter
  <2>3. Spoken(t, occs, partial[<<p, t>>], Alive)
    BY <1>1, <2>1, SpokenEnd
  <2> QED
    BY <2>2, <2>3
<1>6. partial[<<p, t>>] \in Pieces
  BY LiveTest
<1> QED
  BY <1>1, <1>4, <1>5, <1>6, LiveTestKeeps

LEMMA DeathIsOne ==
  ASSUME Ongoing, NEW p \in Packages, NEW t \in Tests, NEW why \in {"exit", "panic", "timeout"},
         Died(p, t, why)
  PROVE  /\ process' \in [Packages -> Stages]
         /\ death' \in [Packages -> [1..command.files -> Ending]]
         /\ command.files = 1 =>
              /\ death'[p][1] = [why |-> why, test |-> t] /\ process'[p] \in Over
              /\ \A q \in Packages : q # p => death'[q][1] = death[q][1] /\ process'[q] = process[q]
<1> DEFINE ending == [why |-> why, test |-> t]
<1>1. process' = [process EXCEPT ![p] = "failing"] /\ death' = [death EXCEPT ![p][file] = ending]
  BY DEF Died
<1>2. ToolchainTypes /\ file \in 1..command.files /\ (command.files = 1 => file = 1)
  BY FirstFile DEF Ongoing, Base
<1>3. ending \in Ending
  BY DEF Ending
<1> HIDE DEF ending
<1>4. process' \in [Packages -> Stages] /\ death' \in [Packages -> [1..command.files -> Ending]]
  BY <1>1, <1>2, <1>3 DEF ToolchainTypes, Stages
<1>5. ASSUME command.files = 1
      PROVE  /\ death'[p][1] = ending /\ process'[p] \in Over
             /\ \A q \in Packages : q # p => death'[q][1] = death[q][1] /\ process'[q] = process[q]
  BY <1>1, <1>2, <1>5 DEF ToolchainTypes, Over
<1> QED
  BY <1>4, <1>5 DEF ending

LEMMA DiedKeeps ==
  ASSUME Ongoing, NEW p \in Packages, NEW t \in Tests, NEW why \in {"exit", "panic", "timeout"},
         Died(p, t, why)
  PROVE  Ongoing'
<1> DEFINE ending == [why |-> why, test |-> t]
<1>0. Live(p) /\ Running(p, t) /\ Base
  BY DEF Died, Ongoing
<1>1. /\ executions[p][t] \in Seq(Execution) /\ occurrences[p][t] \in Seq(Recorded)
      /\ partial[<<p, t>>] \in Pieces /\ <<p, t>> \in Keys
      /\ Twin(occurrences[p][t], executions[p][t]) /\ executions[p][t] # <<>>
      /\ command.files = 1 =>
           /\ iteration[p] \in Nat \ {0} /\ Sequential(executions[p][t], iteration[p])
           /\ \A u \in Tests : Spoken(u, occurrences[p][u], partial[<<p, u>>], Alive)
  BY <1>0, LiveTest, RunningLast
<1>2. /\ process' \in [Packages -> Stages]
      /\ death' \in [Packages -> [1..command.files -> Ending]]
      /\ command.files = 1 =>
           /\ death'[p][1] = ending /\ process'[p] \in Over
           /\ \A q \in Packages : q # p => death'[q][1] = death[q][1] /\ process'[q] = process[q]
  BY DeathIsOne
<1>3. ASSUME command.files = 1, NEW u \in Tests, u # t
      PROVE  Spoken(u, occurrences[p][u], partial[<<p, u>>], ending)
  <2>1. Spoken(u, occurrences[p][u], partial[<<p, u>>], Alive)
    BY <1>1, <1>3
  <2>2. ending.test # u
    BY <1>3
  <2> QED
    BY <2>1, <2>2, SpokenAlive
<1> HIDE DEF ending
<1>4. ASSUME NEW runs \in Seq(Execution), NEW occs \in Seq(Recorded), NEW held \in Pieces,
             TestStep(p, t, runs, occs, held), Twin(occs, runs), runs # <<>>,
             command.files = 1 => Sequential(runs, iteration[p]) /\ Spoken(t, occs, held, ending)
      PROVE  Ongoing'
  <2>1. command.files = 1 =>
          /\ Sequential(runs, iteration[p])
          /\ Spoken(t, occs, held, death'[p][1])
          /\ \A u \in Tests : u # t => Spoken(u, occurrences[p][u], partial[<<p, u>>], death'[p][1])
          /\ \/ death'[p][1] = Alive
             \/ death'[p][1].why # "none" /\ death'[p][1].test = t /\ process'[p] \in Over
          /\ \A q \in Packages : q # p => death'[q][1] = death[q][1] /\ process'[q] = process[q]
    <3>1. ending.why # "none" /\ ending.test = t
      BY DEF ending
    <3> QED
      BY <1>2, <1>3, <1>4, <3>1
  <2> QED
    BY <1>2, <1>4, <2>1, OneTestKeeps
<1>5. CASE why = "exit" /\ UNCHANGED <<executions, Model>> /\ Steady
  <2>1. TestStep(p, t, executions[p][t], occurrences[p][t], partial[<<p, t>>])
    BY <1>0, <1>1, <1>5 DEF TestStep, Changed, Model, Base, Types, ToolchainTypes, OpenIsLast
  <2>2. ASSUME command.files = 1 PROVE Spoken(t, occurrences[p][t], partial[<<p, t>>], ending)
    <3>1. ending.why = "exit"
      BY <1>5 DEF ending
    <3>2. Spoken(t, occurrences[p][t], partial[<<p, t>>], Alive)
      BY <1>1, <2>2
    <3> QED
      BY <3>1, <3>2, SpokenAlive
  <2> QED
    BY <1>1, <1>4, <2>1, <2>2
<1>6. CASE why \in {"panic", "timeout"} /\ Printed(p, t, LastWords(why))
  <2>1. PICK words : words = IF why = "panic" THEN <<Panic>> ELSE <<Panic, Banner>>
    OBVIOUS
  <2>2. words \in Seq(Symbols) /\ LastWords(why) = Append(words, NL)
    <3>1. CASE why = "panic"
      BY <2>1, <3>1, SymbolsAssumption DEF LastWords
    <3>2. CASE why = "timeout"
      BY <2>1, <3>2, SymbolsAssumption DEF LastWords
    <3> QED
      BY <1>6, <3>1, <3>2
  <2>3. /\ Completed(<<p, t>>, LastWords(why)) = <<partial[<<p, t>>] \o words>>
        /\ Kept(<<p, t>>, LastWords(why)) = <<>>
    BY <1>1, <2>2, WordsTaken
  <2>4. PICK runs, occs, run, occ :
          /\ TestStep(p, t, runs, occs, <<>>)
          /\ Altered(Execution, executions[p][t], runs, run)
          /\ run = [Last(executions[p][t]) EXCEPT !.text = @ \o LastWords(why)]
          /\ Altered(Recorded, occurrences[p][t], occs, occ)
          /\ occ.terminal = Last(occurrences[p][t]).terminal
          /\ occ.status = Last(occurrences[p][t]).status
          /\ occ.lines = Last(occurrences[p][t]).lines \o <<partial[<<p, t>>] \o words>>
    BY <1>6, <2>3 DEF Printed
  <2>5. /\ Last(executions[p][t]) \in Execution /\ Last(executions[p][t]).outcome = "running"
        /\ ~Last(occurrences[p][t]).terminal /\ Last(occurrences[p][t]).status = None
    BY <1>0, RunningLast
  <2>6. run.outcome = "running" /\ run.iteration = Last(executions[p][t]).iteration
    BY <2>4, <2>5 DEF Execution
  <2>7. Twin(occs, runs) /\ runs # <<>> /\ runs \in Seq(Execution) /\ occs \in Seq(Recorded)
    <3>1. Mirrors(occ, run)
      BY <2>4, <2>5, <2>6 DEF Mirrors
    <3>2. Twin(occs, runs)
      BY <1>1, <2>4, <3>1, TwinsAlter
    <3> QED
      BY <2>4, <3>2 DEF Altered
  <2>8. ASSUME command.files = 1
        PROVE  Sequential(runs, iteration[p]) /\ Spoken(t, occs, <<>>, ending)
    <3>1. Sequential(runs, iteration[p])
      BY <1>1, <2>4, <2>5, <2>6, <2>8, SequentialAlter
    <3>2. Spoken(t, occurrences[p][t], partial[<<p, t>>], Alive)
      BY <1>1, <2>8
    <3>3. Spoken(t, occs, <<>>, ending)
      BY <1>1, <1>6, <2>1, <2>4, <3>2, SpokenDie DEF ending
    <3> QED
      BY <3>1, <3>3
  <2>9. <<>> \in Pieces
    BY DEF Pieces
  <2> QED
    BY <1>4, <2>4, <2>7, <2>8, <2>9
<1> QED
  BY <1>5, <1>6 DEF Died
-----------------------------------------------------------------------------
(***************************************************************************)
(* Finish: what was left unfinished gets the outcome it had.                *)
(***************************************************************************)
Speeches == {"plain", "panic", "timeout"}

LEMMA SpeechIsOne == \A ending, t, n, last : Speech(ending, t, n, last) \in Speeches
BY DEF Speech, Speeches

\* The unfinished line at the end of a text changes nothing of what it says.
LEMMA SaysMore ==
  ASSUME NEW ls \in Seq(Pieces), NEW speech \in Speeches, Says(ls, speech), NEW held \in Seq(Plain)
  PROVE  ls \o <<held>> \in Seq(Pieces) /\ Says(ls \o <<held>>, speech)
<1>1. held \in Pieces
  BY PlainIsText
<1>2. ls \o <<held>> = Append(ls, held)
  BY <1>1, AppendIsConcat
<1>3. PICK more : more = Append(ls, held)
  OBVIOUS
<1>4. more \in Seq(Pieces) /\ Len(more) = Len(ls) + 1 /\ Len(ls) \in Nat /\ more[Len(ls) + 1] = held
      /\ DOMAIN ls = 1..Len(ls) /\ DOMAIN more = 1..Len(ls) + 1
      /\ \A i \in 1..Len(ls) : more[i] = ls[i]
  BY <1>1, <1>3, AppendProperties
<1>5. \A i \in DOMAIN more : i = Len(ls) + 1 \/ i \in DOMAIN ls
  BY <1>4
<1>6. \A i \in DOMAIN ls : i \in DOMAIN more /\ more[i] = ls[i]
  BY <1>4
<1>7. CASE speech = "plain"
  <2>1. PICK A : A = Seq(Plain)
    OBVIOUS
  <2>2. Append(ls, held) \in Seq(A)
    BY <1>7, <2>1 DEF Says
  <2> QED
    BY <1>2, <1>3, <1>4, <1>7, <2>1, <2>2 DEF Says
<1>8. CASE speech = "panic"
  BY <1>2, <1>3, <1>4, <1>5, <1>6, <1>8, PlainSaysNothing DEF Says
<1>9. CASE speech = "timeout"
  BY <1>2, <1>3, <1>4, <1>6, <1>9 DEF Says
<1> QED
  BY <1>7, <1>8, <1>9 DEF Speeches

LEMMA SaysWhat ==
  ASSUME NEW ls \in Seq(Pieces), NEW speech \in Speeches, Says(ls, speech)
  PROVE  /\ speech = "timeout" <=> \E i \in DOMAIN ls : IsBanner(ls[i])
         /\ speech # "timeout" => (speech = "panic" <=> \E i \in DOMAIN ls : Mentions(ls[i], Panic))
<1>1. CASE speech = "plain"
  <2>1. \A i \in DOMAIN ls : ls[i] \in Seq(Plain)
    BY <1>1 DEF Says
  <2> QED
    BY <1>1, <2>1, PlainSaysNothing
<1>2. CASE speech # "plain"
  BY <1>2 DEF Says, Speeches
<1> QED
  BY <1>1, <1>2

\* The occurrences of a test with the text that was still held.
Flushed(p, t) == FlushedOccurrences(p)[t]

LEMMA FlushedTwin ==
  ASSUME Ongoing, NEW p \in Packages, NEW t \in Tests
  PROVE  /\ Flushed(p, t) \in Seq(Recorded) /\ Twin(Flushed(p, t), executions[p][t])
         /\ Len(Flushed(p, t)) = Len(occurrences[p][t])
         /\ command.files = 1 =>
              \A n \in 1..Len(executions[p][t]) :
                Says(Flushed(p, t)[n].lines,
                     Speech(death[p][1], t, n, Len(executions[p][t])))
<1> DEFINE occs == occurrences[p][t]
           runs == executions[p][t]
           held == partial[<<p, t>>]
           lines == Remainder(p, t)
           flushed == WithLines(occs, lines)
<1>1. /\ occs \in Seq(Recorded) /\ runs \in Seq(Execution) /\ held \in Pieces
      /\ Twin(occs, runs) /\ (runs = <<>> => held = <<>>)
  BY DEF Ongoing, Base, Types, ToolchainTypes, Twins, NothingHeldBefore, Keys
<1>2. command.files = 1 => Spoken(t, occs, held, death[p][1])
  BY DEF Ongoing, OneStream, SpeechOK
<1>3. Flushed(p, t) = flushed /\ lines = IF held = <<>> THEN <<>> ELSE <<held>>
  BY DEF Flushed, FlushedOccurrences, Remainder
<1> HIDE DEF occs, runs, held, lines
<1>4. CASE held = <<>>
  <2>1. flushed = occs
    BY <1>3, <1>4 DEF WithLines
  <2> HIDE DEF flushed
  <2> QED
    BY <1>1, <1>2, <1>3, <2>1 DEF Spoken, Twin, runs, occs
<1>5. CASE held # <<>>
  <2>1. lines = <<held>> /\ lines \in Seq(Pieces) /\ occs # <<>> /\ Len(occs) = Len(runs)
    BY <1>1, <1>3, <1>5 DEF Twin
  <2> DEFINE last == Len(occs)
  <2>2. PICK occ \in Recorded :
          /\ Altered(Recorded, occs, flushed, occ)
          /\ occ.terminal = occs[last].terminal /\ occ.status = occs[last].status
          /\ occ.lines = occs[last].lines \o lines
    BY <1>1, <2>1, LinesAlter
  <2> HIDE DEF flushed
  <2>3. last \in 1..last /\ occs[last] \in Recorded
    BY <1>1, <2>1
  <2>4. \A n \in 1..last : /\ flushed[n].terminal = occs[n].terminal
                           /\ flushed[n].status = occs[n].status
    BY <2>2, <2>3 DEF Altered
  <2>5. Len(flushed) = last /\ flushed \in Seq(Recorded)
    BY <2>2 DEF Altered
  <2>6. Twin(flushed, runs)
    BY <1>1, <2>1, <2>4, <2>5 DEF Twin, Mirrors
  <2>7. ASSUME command.files = 1, NEW n \in 1..last
        PROVE  Says(flushed[n].lines, Speech(death[p][1], t, n, last))
    <3>1. Spoken(t, occs, held, death[p][1])
      BY <1>2, <2>7
    <3>2. held \in Seq(Plain) /\ Says(occs[n].lines, Speech(death[p][1], t, n, last))
      BY <3>1 DEF Spoken
    <3>3. CASE n = last
      <4>1. occs[last].lines \in Seq(Pieces)
        BY <2>3 DEF Recorded
      <4>2. PICK speech : speech = Speech(death[p][1], t, n, last) /\ speech \in Speeches
        BY SpeechIsOne
      <4>3. flushed[n].lines = occs[last].lines \o <<held>>
        BY <2>1, <2>2, <3>3 DEF Altered
      <4> QED
        BY <3>2, <3>3, <4>1, <4>2, <4>3, SaysMore
    <3>4. CASE n # last
      BY <2>2, <3>2, <3>4 DEF Altered
    <3> QED
      BY <3>3, <3>4
  <2> QED
    BY <1>3, <2>1, <2>5, <2>6, <2>7 DEF runs, occs
<1> QED
  BY <1>4, <1>5

\* The banner is in the output of a package exactly when the alarm killed it.
LEMMA BannerTellsTimeout ==
  ASSUME Ongoing, command.files = 1, NEW p \in Packages
  PROVE  PackageTimedOut(FlushedLines(p), FlushedOccurrences(p)) <=> death[p][1].why = "timeout"
<1> DEFINE lines(t, n) == Flushed(p, t)[n].lines
           speech(t, n) == Speech(death[p][1], t, n, Len(executions[p][t]))
<1>1. FlushedLines(p) = <<>>
  <2>1. package[p].lines = <<>> /\ Remainder(p, NoTest) = <<>>
    BY DEF Ongoing, Base, PackagesSilent, Remainder
  <2> QED
    BY <2>1 DEF FlushedLines
<1>2. ASSUME NEW t \in Tests
      PROVE  /\ DOMAIN Flushed(p, t) = 1..Len(executions[p][t]) /\ Len(executions[p][t]) \in Nat
             /\ \A n \in 1..Len(executions[p][t]) :
                  lines(t, n) \in Seq(Pieces) /\ Says(lines(t, n), speech(t, n))
  <2>1. /\ Flushed(p, t) \in Seq(Recorded) /\ Len(Flushed(p, t)) = Len(executions[p][t])
        /\ \A n \in 1..Len(executions[p][t]) : Says(lines(t, n), speech(t, n))
    BY FlushedTwin DEF Twin
  <2>2. \A n \in 1..Len(Flushed(p, t)) : Flushed(p, t)[n] \in Recorded
    BY <2>1
  <2> QED
    BY <2>1, <2>2 DEF Recorded
<1>3. PackageTimedOut(FlushedLines(p), FlushedOccurrences(p)) <=>
        \E t \in Tests : \E n \in 1..Len(executions[p][t]) :
          \E i \in DOMAIN lines(t, n) : IsBanner(lines(t, n)[i])
  BY <1>1, <1>2 DEF PackageTimedOut, Flushed
<1>4. ASSUME NEW t \in Tests, NEW n \in 1..Len(executions[p][t])
      PROVE  (\E i \in DOMAIN lines(t, n) : IsBanner(lines(t, n)[i])) <=> speech(t, n) = "timeout"
  BY <1>2, SpeechIsOne, SaysWhat
<1> HIDE DEF lines
<1>5. ProcessOK(p)
  BY DEF Ongoing, OneStream
<1>6. ASSUME death[p][1].why = "timeout"
      PROVE  \E t \in Tests : \E n \in 1..Len(executions[p][t]) : speech(t, n) = "timeout"
  <2>1. PICK t \in Tests : t = death[p][1].test /\ executions[p][t] # <<>>
    BY <1>5, <1>6 DEF ProcessOK, Alive
  <2>2. Len(executions[p][t]) \in 1..Len(executions[p][t])
    <3>1. executions[p][t] \in Seq(Execution)
      BY DEF Ongoing, Base, ToolchainTypes
    <3> QED
      BY <2>1, <3>1
  <2>3. speech(t, Len(executions[p][t])) = "timeout"
    BY <1>6, <2>1 DEF Speech
  <2> QED
    BY <2>2, <2>3
<1>7. ASSUME NEW t \in Tests, NEW n, speech(t, n) = "timeout"
      PROVE  death[p][1].why = "timeout"
  BY <1>7 DEF Speech
<1> QED
  BY <1>3, <1>4, <1>6, <1>7

\* What Finish makes of the executions of a test.
LEMMA FinishOutcome ==
  ASSUME Ongoing, Finish, NEW p \in Packages, NEW t \in Tests
  PROVE  /\ Len(occurrences'[p][t]) = Len(executions[p][t])
         /\ \A n \in DOMAIN executions[p][t] :
              \/ occurrences'[p][t][n].status = Outcome(p, t, n)
              \/ /\ command.files > 1
                 /\ executions[p][t][n].outcome = "running"
                 /\ occurrences'[p][t][n].status \in Unfinished
<1> DEFINE timedOut == PackageTimedOut(FlushedLines(p), FlushedOccurrences(p))
           flushed == Flushed(p, t)
           runs == executions[p][t]
           after == [n \in DOMAIN flushed |-> Classified(flushed[n], timedOut)]
<1>1. occurrences'[p][t] = after
  BY DEF Finish, Flushed
<1>2. /\ flushed \in Seq(Recorded) /\ Len(flushed) = Len(runs) /\ Twin(flushed, runs)
      /\ DOMAIN runs = 1..Len(runs) /\ Len(runs) \in Nat /\ runs \in Seq(Execution)
      /\ command.files = 1 =>
           \A n \in 1..Len(runs) : Says(flushed[n].lines, Speech(death[p][1], t, n, Len(runs)))
  <2>1. runs \in Seq(Execution)
    BY DEF Ongoing, Base, ToolchainTypes
  <2> QED
    BY <2>1, FlushedTwin DEF Twin
<1>3. command.files = 1 => (timedOut <=> death[p][1].why = "timeout")
  BY BannerTellsTimeout
<1>4. timedOut \in BOOLEAN
  BY DEF PackageTimedOut
<1> HIDE DEF flushed, timedOut
<1>5. Len(after) = Len(runs)
  BY <1>2
<1>6. ASSUME NEW n \in 1..Len(runs)
      PROVE  \/ after[n].status = Outcome(p, t, n)
             \/ /\ command.files > 1
                /\ runs[n].outcome = "running"
                /\ after[n].status \in Unfinished
  <2> DEFINE run == runs[n]
             ending == death[p][1]
  <2>1. /\ after[n] = Classified(flushed[n], timedOut) /\ Mirrors(flushed[n], run)
        /\ flushed[n] \in Recorded /\ run \in Execution
    BY <1>2 DEF Twin
  <2> HIDE DEF after
  <2>2. CASE run.outcome # "running"
    <3>1. after[n].status = Verdict(run.outcome) /\ run.outcome \in Results
      BY <2>1, <2>2 DEF Classified, Mirrors, Execution
    <3> QED
      BY <3>1 DEF Outcome, Verdict, Results
  <2>3. CASE run.outcome = "running"
    <3>1. after[n].status = ClassifyNonTerminal(flushed[n].lines, timedOut)
      BY <2>1, <2>3 DEF Classified, Mirrors, Recorded
    <3>2. after[n].status \in Unfinished
      BY <3>1 DEF ClassifyNonTerminal, Unfinished
    <3>3. command.files \in Nat \ {0} /\ command.count \in Nat \ {0} /\ ending \in Ending
      BY FirstFile DEF Ongoing, Base
    <3>4. CASE command.files > 1
      BY <2>3, <3>2, <3>4
    <3>5. CASE command.files = 1
      <4>1. ProcessOK(p)
        BY <3>5 DEF Ongoing, OneStream
      <4>2. n = Len(runs) /\ run.iteration = iteration[p] /\ iteration[p] \in 1..command.count
        BY <2>3, <4>1 DEF ProcessOK, Sequential
      <4>3. (run.iteration - 1) \div command.count = 0
        <5>1. \A c \in Nat \ {0} : \A i \in 1..c : (i - 1) \div c = 0
          OBVIOUS
        <5> QED
          BY <3>3, <4>2, <5>1
      <4>4. Outcome(p, t, n) = IF ending.why = "timeout" THEN "timeout"
                               ELSE IF ending = [why |-> "panic", test |-> t] THEN "error"
                               ELSE "aborted"
        <5>1. death[p][((run.iteration - 1) \div command.count) + 1] = ending
          BY <4>3
        <5> QED
          BY <2>3, <5>1 DEF Outcome
      <4>5. /\ flushed[n].lines \in Seq(Pieces)
            /\ Says(flushed[n].lines, Speech(ending, t, n, Len(runs)))
        BY <1>2, <2>1, <3>5 DEF Recorded
      <4>6. Speech(ending, t, n, Len(runs))
              = IF ending.test = t /\ ending.why \in {"panic", "timeout"} THEN ending.why ELSE "plain"
        BY <4>2 DEF Speech
      <4>7. CASE ending.why = "timeout"
        BY <1>3, <3>1, <3>5, <4>4, <4>7 DEF ClassifyNonTerminal
      <4>8. CASE ending.why # "timeout"
        <5>1. ending = [why |-> "panic", test |-> t] <=> ending.why = "panic" /\ ending.test = t
          BY <3>3 DEF Ending
        <5>2. Speech(ending, t, n, Len(runs)) # "timeout"
              /\ (Speech(ending, t, n, Len(runs)) = "panic" <=> ending.why = "panic" /\ ending.test = t)
          BY <4>6, <4>8
        <5>3. (\E i \in DOMAIN flushed[n].lines : Mentions(flushed[n].lines[i], Panic))
                <=> ending.why = "panic" /\ ending.test = t
          BY <4>5, <5>2, SpeechIsOne, SaysWhat
        <5>4. ~timedOut
          BY <1>3, <3>5, <4>8
        <5> QED
          BY <3>1, <4>4, <4>8, <5>1, <5>3, <5>4 DEF ClassifyNonTerminal
      <4> QED
        BY <4>7, <4>8
    <3> QED
      BY <3>3, <3>4, <3>5
  <2> QED
    BY <2>2, <2>3
<1> QED
  BY <1>1, <1>2, <1>5, <1>6
-----------------------------------------------------------------------------
\* After Finish nothing moves any more.
Closed == childExit # "none" /\ file = command.files /\ command \in Commands

PipelineInv == /\ finished \in BOOLEAN
               /\ IF finished THEN Closed /\ ExecutionsRecorded ELSE Ongoing

LEMMA InitIsOngoing == ASSUME Init PROVE Ongoing /\ finished = FALSE
<1>1. /\ command \in Commands /\ file = 1 /\ iteration = [p \in Packages |-> 1]
      /\ process = [p \in Packages |-> IF p \in command.packages THEN "waiting" ELSE "absent"]
      /\ executions = [p \in Packages |-> [t \in Tests |-> <<>>]]
      /\ death = [p \in Packages |-> [f \in 1..command.files |-> Alive]]
  BY DEF Init, GoTestInit
<1>2. /\ partial = [k \in Keys |-> <<>>] /\ finished = FALSE
      /\ occurrences = [p \in Packages |-> [t \in Tests |-> <<>>]]
      /\ open = [p \in Packages |-> [t \in Tests |-> 0]]
      /\ package = [p \in Packages |-> NewPackage]
  BY DEF Init, BuilderInit, JoinerInit
<1>3. command.files \in Nat \ {0} /\ command.count \in Nat \ {0}
  BY <1>1, CommandsAssumption
<1>4. Types /\ OpenIsLast
  BY InitIsOK DEF Init, IInv
<1>5. PackagesSilent
  BY <1>2 DEF PackagesSilent, PackageRecord, NewPackage, Keys
<1>6. ToolchainTypes
  <2>1. Alive \in Ending
    BY DEF Alive, Ending
  <2>2. death \in [Packages -> [1..command.files -> Ending]]
    BY <1>1, <2>1
  <2>3. executions \in [Packages -> [Tests -> Seq(Execution)]]
    BY <1>1
  <2>4. process \in [Packages -> Stages] /\ iteration \in [Packages -> Nat]
    BY <1>1 DEF Stages
  <2> QED
    BY <1>1, <1>3, <2>2, <2>3, <2>4 DEF ToolchainTypes
<1>7. Twins
  BY <1>1, <1>2 DEF Twins, Twin
<1>8. NothingHeldBefore
  BY <1>2 DEF NothingHeldBefore, Keys
<1>9. OneStream
  <2>1. <<>> \in Seq(Plain)
    OBVIOUS
  <2> SUFFICES ASSUME command.files = 1, NEW p \in Packages PROVE ProcessOK(p) /\ SpeechOK(p)
    BY DEF OneStream
  <2>2. ProcessOK(p)
    BY <1>1, <1>3 DEF ProcessOK, Sequential
  <2>3. SpeechOK(p)
    BY <1>2, <2>1 DEF SpeechOK, Spoken, Keys
  <2> QED
    BY <2>2, <2>3
<1> QED
  BY <1>2, <1>4, <1>5, <1>6, <1>7, <1>8, <1>9 DEF Ongoing, Base

LEMMA OngoingGoesOn ==
  ASSUME Ongoing, Next
  PROVE  Ongoing' \/ Finishes
<1>0. Base
  BY DEF Ongoing
<1>1. ASSUME NEW p \in Packages, Begins(p) \/ Reports(p) PROVE Ongoing'
  BY <1>0, <1>1, PackageStep, AroundKeeps
<1>2. ASSUME (\E p \in Packages : Quietly(p)) \/ Exits PROVE Ongoing'
  BY <1>0, <1>2, QuietStep, AroundKeeps
<1>3. ASSUME NEW p \in Packages, NEW t \in Tests, Fails(p, t) PROVE Ongoing'
  BY <1>0, <1>3, FailStep, AroundKeeps
<1>4. ASSUME NEW p \in Packages, NEW t \in Tests, Starts(p, t) PROVE Ongoing'
  BY <1>0, <1>4, StartStep, StartedKeeps
<1>5. ASSUME NEW p \in Packages, NEW t \in Tests, Logs(p, t) PROVE Ongoing'
  BY <1>0, <1>5, LogStep, LoggedKeeps
<1>6. ASSUME NEW p \in Packages, NEW t \in Tests, Ends(p, t) PROVE Ongoing'
  <2>1. PICK action \in Terminal : EndTest(p, t, action) /\ Add(TestEv(p, t, action))
    BY <1>6 DEF Ends
  <2>2. Ended(p, t, action) /\ action \in Results /\ UNCHANGED <<process, death>>
    BY <1>0, <2>1, EndStep
  <2>3. Live(p) /\ Running(p, t)
    BY <2>1 DEF EndTest
  <2> QED
    BY <2>2, <2>3, EndedKeeps
<1>7. ASSUME NEW p \in Packages, NEW t \in Tests, Dies(p, t) PROVE Ongoing'
  BY <1>0, <1>7, DieStep, DiedKeeps
<1> QED
  BY <1>1, <1>2, <1>3, <1>4, <1>5, <1>6, <1>7 DEF Next

LEMMA FinishRecords ==
  ASSUME Ongoing, Finishes
  PROVE  ExecutionsRecorded' /\ Closed' /\ finished' = TRUE
<1>1. /\ Finish /\ UNCHANGED toolchain /\ finished' = TRUE
      /\ childExit # "none" /\ file = command.files
  BY DEF Finishes, Finish
<1>2. UNCHANGED <<command, executions, death, childExit, file>>
  BY <1>1 DEF toolchain
<1>3. \A p, t, n : Outcome(p, t, n)' = Outcome(p, t, n)
  BY <1>2 DEF Outcome
<1>4. ExecutionsRecorded'
  BY <1>1, <1>2, <1>3, FinishOutcome DEF ExecutionsRecorded
<1>5. Closed'
  BY <1>1, <1>2 DEF Closed, Ongoing, Base, ToolchainTypes
<1> QED
  BY <1>1, <1>4, <1>5

LEMMA ClosedStays ==
  ASSUME Closed, finished = TRUE, Next
  PROVE  FALSE
<1>1. command.files \in Nat
  BY CommandsAssumption DEF Closed
<1>2. ASSUME NEW p \in Packages, Begins(p) \/ Quietly(p) \/ Reports(p) PROVE FALSE
  BY <1>2 DEF Begins, Begin, Quietly, NextIteration, EndProcess, Live, Reports, ReportPackage, Closed
<1>3. ASSUME NEW p \in Packages, NEW t \in Tests,
             Starts(p, t) \/ Logs(p, t) \/ Fails(p, t) \/ Ends(p, t) \/ Dies(p, t)
      PROVE  FALSE
  BY <1>3 DEF Starts, StartTest, Logs, Log, Fails, FailTest, Ends, EndTest, Dies, Die, Live, Closed
<1>4. ~Exits
  BY <1>1 DEF Exits, NextFile, Exit, Closed
<1>5. ~Finishes
  BY DEF Finishes, Finish
<1> QED
  BY <1>2, <1>3, <1>4, <1>5 DEF Next

LEMMA PipelineInvariance == Spec => []PipelineInv
<1>1. Init => PipelineInv
  BY InitIsOngoing DEF PipelineInv
<1>2. PipelineInv /\ [Next]_vars => PipelineInv'
  <2> SUFFICES ASSUME PipelineInv, [Next]_vars PROVE PipelineInv'
    OBVIOUS
  <2>1. CASE UNCHANGED vars
    <3>1. UNCHANGED <<builderVars, toolchain>>
      BY <2>1 DEF vars
    <3>2. UNCHANGED <<finished, childExit, file, command>>
      BY <3>1 DEF builderVars, toolchain
    <3>3. ExecutionsRecorded => ExecutionsRecorded'
      <4>1. UNCHANGED <<occurrences, executions, death, command, finished>>
        BY <3>1 DEF builderVars, toolchain
      <4>2. \A p, t, n : Outcome(p, t, n)' = Outcome(p, t, n)
        BY <4>1 DEF Outcome
      <4> QED
        BY <4>1, <4>2 DEF ExecutionsRecorded
    <3>4. Ongoing => Ongoing'
      <4> SUFFICES ASSUME Ongoing PROVE Ongoing'
        OBVIOUS
      <4>1. Around
        BY <3>1, RunsAreThemselves DEF builderVars, toolchain, Around, Model, LinesKept, Ongoing,
             Base, PackagesSilent, ToolchainTypes
      <4> QED
        BY <4>1, AroundKeeps
    <3> QED
      BY <3>2, <3>3, <3>4 DEF PipelineInv, Closed
  <2>2. CASE finished /\ Next
    BY <2>2, ClosedStays DEF PipelineInv
  <2>3. CASE ~finished /\ Next
    <3>1. Ongoing
      BY <2>3 DEF PipelineInv
    <3>2. CASE Finishes
      BY <3>1, <3>2, FinishRecords DEF PipelineInv
    <3>3. CASE Ongoing'
      BY <3>3 DEF PipelineInv, Ongoing, Base, Types
    <3> QED
      BY <2>3, <3>1, <3>2, <3>3, OngoingGoesOn
  <2> QED
    BY <2>1, <2>2, <2>3
<1> QED
  BY <1>1, <1>2, PTL DEF Spec

\* When the stream has ended, every execution of every test is an occurrence of its
\* own, in order, with the outcome it had, whatever overlapped, failed or died.
THEOREM ExecutionsHold == Spec => []ExecutionsRecorded
<1>1. PipelineInv => ExecutionsRecorded
  BY DEF PipelineInv, ExecutionsRecorded
<1> QED
  BY <1>1, PipelineInvariance, PTL
=============================================================================
