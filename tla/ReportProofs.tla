---------------------------- MODULE ReportProofs ----------------------------
(***************************************************************************)
(* Proofs about what a test printed and about the report: text is filed under *)
(* the execution that printed it, what the report says of a run is what         *)
(* happened in it, and what it has no room for is all it leaves out.          *)
(***************************************************************************)
EXTENDS PipelineProofs, FiniteSetTheorems

(***************************************************************************)
(* Whose output it is.                                                      *)
(***************************************************************************)
\* The text filed under an occurrence, and under each; the text of each execution.
Filed(occ) == Joined(occ.lines, NL)

FiledTexts(occs) == [n \in 1..Len(occs) |-> Filed(occs[n])]

RunTexts(runs) == [n \in 1..Len(runs) |-> runs[n].text]

EachTold(occs, runs, held) ==
  \A n \in 1..Len(runs) : Filed(occs[n]) \o (IF n = Len(runs) THEN held ELSE <<>>) = runs[n].text

AllTold(occs, runs, held) == FlattenSeq(FiledTexts(occs)) \o held = FlattenSeq(RunTexts(runs))

\* An execution that ended left no half line.
LineEnded(runs, held) == runs # <<>> /\ Last(runs).outcome # "running" => held = <<>>

Told(files, occs, runs, held) ==
  /\ AllTold(occs, runs, held)
  /\ files = 1 => EachTold(occs, runs, held) /\ LineEnded(runs, held)

Flattens(list, longer, more) == FlattenSeq(longer) = FlattenSeq(list) \o more

LEMMA FlattenAppended ==
  ASSUME NEW S, NEW u \in Seq(Seq(S)), NEW e \in Seq(S), NEW v, Appended(Seq(S), u, v, e)
  PROVE  Flattens(u, v, e)
<1>1. PICK A : A = Seq(S)
  OBVIOUS
<1>2. u \in Seq(A) /\ e \in A /\ v \in Seq(A) /\ Len(v) = Len(u) + 1 /\ v[Len(u) + 1] = e
      /\ \A n \in 1..Len(u) : v[n] = u[n]
  BY <1>1 DEF Appended
<1>3. PICK w : w = Append(u, e)
  OBVIOUS
<1>4. w \in Seq(A) /\ Len(w) = Len(u) + 1 /\ w[Len(u) + 1] = e /\ \A n \in 1..Len(u) : w[n] = u[n]
  BY <1>2, <1>3, AppendProperties
<1>5. v = w
  <2>1. Len(u) \in Nat /\ \A n \in 1..Len(v) : n = Len(u) + 1 \/ n \in 1..Len(u)
    BY <1>2
  <2>2. \A n \in 1..Len(v) : v[n] = w[n]
    BY <1>2, <1>4, <2>1
  <2> QED
    BY <1>2, <1>4, <2>2, SeqEqual
<1> QED
  BY <1>3, <1>5, FlattenProperties DEF Flattens

LEMMA FlattenAltered ==
  ASSUME NEW S, NEW u \in Seq(Seq(S)), NEW more \in Seq(S), NEW v,
         Altered(Seq(S), u, v, u[Len(u)] \o more)
  PROVE  Flattens(u, v, more)
<1>1. PICK A : A = Seq(S)
  OBVIOUS
<1>2. /\ u \in Seq(A) /\ u # <<>> /\ v \in Seq(A) /\ v # <<>> /\ Len(v) = Len(u)
      /\ v[Len(v)] = u[Len(u)] \o more /\ Len(u) \in Nat
      /\ \A n \in 1..Len(u) - 1 : v[n] = u[n]
  BY <1>1 DEF Altered
<1>3. PICK f, l : f = Front(u) /\ l = Last(u)
  OBVIOUS
<1>4. f \in Seq(A) /\ l \in A /\ u = Append(f, l) /\ l = u[Len(u)]
  BY <1>2, <1>3, FrontAndLast DEF Last
<1>5. PICK g, m : g = Front(v) /\ m = Last(v)
  OBVIOUS
<1>6. g \in Seq(A) /\ m \in A /\ v = Append(g, m) /\ m = l \o more
  BY <1>2, <1>4, <1>5, FrontAndLast DEF Last
<1>7. g = f
  <2>1. Len(f) = Len(u) - 1 /\ \A n \in 1..Len(u) - 1 : f[n] = u[n]
    BY <1>2, <1>3, FrontProperties
  <2>2. Len(g) = Len(v) - 1 /\ \A n \in 1..Len(v) - 1 : g[n] = v[n]
    BY <1>2, <1>5, FrontProperties
  <2>3. Len(g) = Len(f) /\ \A n \in 1..Len(f) : g[n] = f[n]
    <3>1. \A n \in 1..Len(u) - 1 : v[n] = u[n]
      BY <1>2
    <3> QED
      BY <1>2, <2>1, <2>2, <3>1
  <2>4. g \in Seq(A) /\ f \in Seq(A)
    BY <1>4, <1>6
  <2> QED
    BY ONLY <2>3, <2>4, SeqEqual
<1>8. PICK flat : flat = FlattenSeq(f) /\ flat \in Seq(S)
  BY <1>1, <1>4, FlattenProperties
<1>9. FlattenSeq(u) = flat \o l /\ FlattenSeq(v) = flat \o (l \o more)
  BY <1>1, <1>4, <1>6, <1>7, <1>8, FlattenProperties
<1>10. (flat \o l) \o more = flat \o (l \o more)
  <2>1. flat \in Seq(S) /\ l \in Seq(S) /\ more \in Seq(S)
    BY <1>1, <1>4, <1>8
  <2> QED
    BY ONLY <2>1, ConcatAssociative
<1> QED
  BY <1>9, <1>10 DEF Flattens

LEMMA FiledIsText ==
  \A occ \in Recorded : Filed(occ) \in Seq(Bytes)
<1> TAKE occ \in Recorded
<1>1. occ.lines \in Seq(Seq(Symbols))
  BY DEF Recorded, Pieces
<1> QED
  BY <1>1, JoinedTyped DEF Filed, Texts, Bytes

LEMMA TextsOfLists ==
  /\ \A occs \in Seq(Recorded) :
       /\ FiledTexts(occs) \in Seq(Seq(Bytes)) /\ Len(FiledTexts(occs)) = Len(occs)
       /\ \A n \in 1..Len(occs) : FiledTexts(occs)[n] = Filed(occs[n])
  /\ \A runs \in Seq(Execution) :
       /\ RunTexts(runs) \in Seq(Seq(Bytes)) /\ Len(RunTexts(runs)) = Len(runs)
       /\ \A n \in 1..Len(runs) : RunTexts(runs)[n] = runs[n].text
<1>1. PICK A : A = Seq(Bytes)
  OBVIOUS
<1>2. ASSUME NEW occs \in Seq(Recorded)
      PROVE  /\ FiledTexts(occs) \in Seq(A) /\ Len(FiledTexts(occs)) = Len(occs)
             /\ \A n \in 1..Len(occs) : FiledTexts(occs)[n] = Filed(occs[n])
  <2>1. \A n \in 1..Len(occs) : Filed(occs[n]) \in A
    BY <1>1, FiledIsText
  <2> QED
    BY <2>1 DEF FiledTexts
<1>3. ASSUME NEW runs \in Seq(Execution)
      PROVE  /\ RunTexts(runs) \in Seq(A) /\ Len(RunTexts(runs)) = Len(runs)
             /\ \A n \in 1..Len(runs) : RunTexts(runs)[n] = runs[n].text
  <2>1. \A n \in 1..Len(runs) : runs[n] \in Execution
    OBVIOUS
  <2>2. \A n \in 1..Len(runs) : runs[n].text \in A
    BY <1>1, <2>1 DEF Execution
  <2> QED
    BY <2>2 DEF RunTexts
<1> QED
  BY <1>1, <1>2, <1>3

\* The texts of lists that were added to, and whose last element was replaced.
LEMMA TextsAppended ==
  ASSUME NEW occs \in Seq(Recorded), NEW occs2, NEW occ, Appended(Recorded, occs, occs2, occ),
         NEW runs \in Seq(Execution), NEW runs2, NEW run, Appended(Execution, runs, runs2, run)
  PROVE  /\ Flattens(FiledTexts(occs), FiledTexts(occs2), Filed(occ))
         /\ Flattens(RunTexts(runs), RunTexts(runs2), run.text)
<1>0. PICK A : A = Seq(Bytes)
  OBVIOUS
<1>1. /\ occs2 \in Seq(Recorded) /\ Len(occs2) = Len(occs) + 1 /\ occs2[Len(occs2)] = occ
      /\ Len(occs) \in Nat /\ \A n \in 1..Len(occs) : occs2[n] = occs[n]
  BY DEF Appended
<1>2. /\ runs2 \in Seq(Execution) /\ Len(runs2) = Len(runs) + 1 /\ runs2[Len(runs2)] = run
      /\ Len(runs) \in Nat /\ \A n \in 1..Len(runs) : runs2[n] = runs[n]
  BY DEF Appended
<1>3. occ \in Recorded /\ run \in Execution
  BY <1>1, <1>2
<1>4. Filed(occ) \in A /\ run.text \in A
  BY <1>0, <1>3, FiledIsText DEF Execution
<1>5. PICK f, g : f = FiledTexts(occs) /\ g = FiledTexts(occs2)
  OBVIOUS
<1>6. /\ f \in Seq(A) /\ Len(f) = Len(occs) /\ \A n \in 1..Len(occs) : f[n] = Filed(occs[n])
      /\ g \in Seq(A) /\ Len(g) = Len(occs2) /\ \A n \in 1..Len(occs2) : g[n] = Filed(occs2[n])
  BY <1>0, <1>1, <1>5, TextsOfLists
<1>7. Appended(A, f, g, Filed(occ))
  <2>1. Len(g) = Len(f) + 1 /\ Len(f) \in Nat /\ g[Len(g)] = Filed(occ)
    BY <1>1, <1>6
  <2>2. \A n \in 1..Len(f) : g[n] = f[n]
    BY <1>1, <1>6
  <2> QED
    BY <1>6, <2>1, <2>2 DEF Appended
<1>8. PICK h, k : h = RunTexts(runs) /\ k = RunTexts(runs2)
  OBVIOUS
<1>9. /\ h \in Seq(A) /\ Len(h) = Len(runs) /\ \A n \in 1..Len(runs) : h[n] = runs[n].text
      /\ k \in Seq(A) /\ Len(k) = Len(runs2) /\ \A n \in 1..Len(runs2) : k[n] = runs2[n].text
  BY <1>0, <1>2, <1>8, TextsOfLists
<1>10. Appended(A, h, k, run.text)
  BY <1>2, <1>9 DEF Appended
<1>11. Flattens(f, g, Filed(occ))
  BY <1>0, <1>4, <1>6, <1>7, FlattenAppended
<1>12. Flattens(h, k, run.text)
  BY <1>0, <1>4, <1>9, <1>10, FlattenAppended
<1> QED
  BY <1>5, <1>8, <1>11, <1>12

LEMMA FiledAltered ==
  ASSUME NEW occs \in Seq(Recorded), NEW occs2, NEW occ, Altered(Recorded, occs, occs2, occ),
         NEW more \in Seq(Bytes), Filed(occ) = Filed(occs[Len(occs)]) \o more
  PROVE  Flattens(FiledTexts(occs), FiledTexts(occs2), more)
<1>0. PICK A : A = Seq(Bytes)
  OBVIOUS
<1>1. /\ occs2 \in Seq(Recorded) /\ Len(occs2) = Len(occs) /\ occs2[Len(occs)] = occ
      /\ Len(occs) \in Nat \ {0} /\ \A n \in 1..Len(occs) : n # Len(occs) => occs2[n] = occs[n]
  BY DEF Altered
<1>2. PICK f, g : f = FiledTexts(occs) /\ g = FiledTexts(occs2)
  OBVIOUS
<1>3. /\ f \in Seq(A) /\ Len(f) = Len(occs) /\ \A n \in 1..Len(occs) : f[n] = Filed(occs[n])
      /\ g \in Seq(A) /\ Len(g) = Len(occs2) /\ \A n \in 1..Len(occs2) : g[n] = Filed(occs2[n])
  BY <1>0, <1>1, <1>2, TextsOfLists
<1>4. Altered(A, f, g, f[Len(f)] \o more)
  <2>1. g[Len(f)] = f[Len(f)] \o more /\ Len(g) = Len(f) /\ Len(f) \in Nat \ {0}
    <3>1. PICK m : m = Len(occs) /\ m \in 1..m
      BY <1>1
    <3>2. f[m] = Filed(occs[m]) /\ g[m] = Filed(occ)
      BY <1>1, <1>3, <3>1
    <3> QED
      BY <1>1, <1>3, <3>1, <3>2
  <2>2. \A n \in 1..Len(f) : n # Len(f) => g[n] = f[n]
    BY <1>1, <1>3
  <2> QED
    BY <1>3, <2>1, <2>2 DEF Altered
<1> QED
  BY <1>0, <1>2, <1>3, <1>4, FlattenAltered

LEMMA RunsAltered ==
  ASSUME NEW runs \in Seq(Execution), NEW runs2, NEW run, Altered(Execution, runs, runs2, run),
         NEW more \in Seq(Bytes), run.text = runs[Len(runs)].text \o more
  PROVE  Flattens(RunTexts(runs), RunTexts(runs2), more)
<1>0. PICK A : A = Seq(Bytes)
  OBVIOUS
<1>1. /\ runs2 \in Seq(Execution) /\ Len(runs2) = Len(runs) /\ runs2[Len(runs)] = run
      /\ Len(runs) \in Nat \ {0} /\ \A n \in 1..Len(runs) : n # Len(runs) => runs2[n] = runs[n]
  BY DEF Altered
<1>2. PICK f, g : f = RunTexts(runs) /\ g = RunTexts(runs2)
  OBVIOUS
<1>3. /\ f \in Seq(A) /\ Len(f) = Len(runs) /\ \A n \in 1..Len(runs) : f[n] = runs[n].text
      /\ g \in Seq(A) /\ Len(g) = Len(runs2) /\ \A n \in 1..Len(runs2) : g[n] = runs2[n].text
  BY <1>0, <1>1, <1>2, TextsOfLists
<1>4. Altered(A, f, g, f[Len(f)] \o more)
  <2>1. g[Len(f)] = f[Len(f)] \o more /\ Len(g) = Len(f) /\ Len(f) \in Nat \ {0}
    <3>1. PICK m : m = Len(runs) /\ m \in 1..m
      BY <1>1
    <3>2. f[m] = runs[m].text /\ g[m] = run.text
      BY <1>1, <1>3, <3>1
    <3> QED
      BY <1>1, <1>3, <3>1, <3>2
  <2>2. \A n \in 1..Len(f) : n # Len(f) => g[n] = f[n]
    BY <1>1, <1>3
  <2> QED
    BY <1>3, <2>1, <2>2 DEF Altered
<1> QED
  BY <1>0, <1>2, <1>3, <1>4, FlattenAltered

\* What the joiner hands out and what it keeps is what it held and what it was given.
LEMMA TakenText ==
  ASSUME NEW k \in Keys, NEW text \in Seq(Bytes), partial[k] \in Pieces
  PROVE  /\ Completed(k, text) \in Seq(Pieces) /\ Kept(k, text) \in Pieces
         /\ Joined(Completed(k, text), NL) \o Kept(k, text) = partial[k] \o text
<1> DEFINE buffered == Buffered(k, text)
<1>1. buffered \in Texts(Symbols, NL)
  BY SeqMonotonic DEF Buffered, Bytes, Texts, Pieces
<1>2. PICK i : i = LastIndex(buffered, NL)
  OBVIOUS
<1>3. PICK done, kept : done = Completed(k, text) /\ kept = Kept(k, text)
  OBVIOUS
<1> HIDE DEF buffered
<1>4. CutsOff(Symbols, NL, buffered, IF i = 0 THEN <<>> ELSE Split(Before(buffered, i), NL),
              After(buffered, i))
  BY <1>1, <1>2, SymbolsAssumption, SplitAtLast
<1>5. CutsOff(Symbols, NL, buffered, done, kept)
  BY <1>2, <1>3, <1>4 DEF Completed, Kept, buffered
<1>6. PICK A : A = Seq(Symbols)
  OBVIOUS
<1>7. done \in Seq(A) /\ kept \in A /\ Split(buffered, NL) = Append(done, kept)
  BY <1>5, <1>6 DEF CutsOff
<1>8. Front(Append(done, kept)) = done /\ Last(Append(done, kept)) = kept
  BY ONLY <1>7, FrontAndLastOfAppend
<1>9. Joined(done, NL) \o kept = buffered
  BY <1>1, <1>7, <1>8, SplitKeepsText
<1> QED
  BY <1>3, <1>6, <1>7, <1>9 DEF Pieces, Buffered, buffered

\* Lines that were added to an occurrence.
LEMMA FiledMore ==
  ASSUME NEW occ \in Recorded, NEW last \in Recorded, NEW lines \in Seq(Pieces),
         occ.lines = last.lines \o lines
  PROVE  Filed(occ) = Filed(last) \o Joined(lines, NL)
<1>1. PICK ls : ls = last.lines
  OBVIOUS
<1>2. ls \in Seq(Seq(Symbols)) /\ lines \in Seq(Seq(Symbols))
  BY <1>1 DEF Recorded, Pieces
<1>3. Joined(ls \o lines, NL) = Joined(ls, NL) \o Joined(lines, NL)
  BY <1>2, JoinedConcat
<1> QED
  BY <1>1, <1>3 DEF Filed

LEMMA ToldStart ==
  ASSUME NEW files, NEW occs \in Seq(Recorded), NEW runs \in Seq(Execution), Len(occs) = Len(runs),
         NEW held \in Pieces, Told(files, occs, runs, held),
         NEW occs2, Appended(Recorded, occs, occs2, NewOccurrence),
         NEW runs2, NEW run, Appended(Execution, runs, runs2, run),
         run.text = <<>>, run.outcome = "running",
         files = 1 => held = <<>>
  PROVE  Told(files, occs2, runs2, held)
<1>1. Filed(NewOccurrence) = <<>>
  BY EmptyText DEF Filed, NewOccurrence
<1>2. /\ runs2 \in Seq(Execution) /\ Len(runs2) = Len(runs) + 1 /\ runs2[Len(runs2)] = run
      /\ Len(runs) \in Nat /\ \A n \in 1..Len(runs) : runs2[n] = runs[n]
  BY DEF Appended
<1>3. /\ occs2 \in Seq(Recorded) /\ Len(occs2) = Len(runs2) /\ occs2[Len(runs2)] = NewOccurrence
      /\ \A n \in 1..Len(runs) : occs2[n] = occs[n]
  BY <1>2 DEF Appended
<1>4. AllTold(occs2, runs2, held)
  <2>1. PICK f, g : f = FlattenSeq(FiledTexts(occs)) /\ g = FlattenSeq(RunTexts(runs))
    OBVIOUS
  <2>2. f \in Seq(Bytes) /\ g \in Seq(Bytes)
    BY <2>1, TextsOfLists, FlattenProperties
  <2>3. f \o <<>> = f /\ g \o <<>> = g
    BY <2>2, ConcatEmptySeq
  <2>4. FlattenSeq(FiledTexts(occs2)) = f /\ FlattenSeq(RunTexts(runs2)) = g
    <3>1. /\ Flattens(FiledTexts(occs), FiledTexts(occs2), <<>>)
          /\ Flattens(RunTexts(runs), RunTexts(runs2), <<>>)
      BY <1>1, TextsAppended
    <3> QED
      BY <2>1, <2>3, <3>1 DEF Flattens
  <2> QED
    BY <2>1, <2>4 DEF Told, AllTold
<1>5. ASSUME files = 1 PROVE EachTold(occs2, runs2, held) /\ LineEnded(runs2, held)
  <2>1. held = <<>> /\ EachTold(occs, runs, <<>>)
    BY <1>5 DEF Told
  <2>2. ASSUME NEW n \in 1..Len(runs2) PROVE Filed(occs2[n]) \o <<>> = runs2[n].text
    <3>1. CASE n = Len(runs2)
      BY <1>1, <1>2, <1>3, <3>1
    <3>2. CASE n # Len(runs2)
      <4>1. n \in 1..Len(runs)
        BY <1>2, <3>2
      <4> QED
        BY <1>2, <1>3, <2>1, <4>1 DEF EachTold
    <3> QED
      BY <3>1, <3>2
  <2> QED
    BY <2>1, <2>2 DEF EachTold, LineEnded
<1> QED
  BY <1>4, <1>5 DEF Told

LEMMA ToldPrint ==
  ASSUME NEW files, NEW occs \in Seq(Recorded), NEW runs \in Seq(Execution), Len(occs) = Len(runs),
         NEW held \in Pieces, Told(files, occs, runs, held), Last(runs).outcome = "running",
         NEW occs2, NEW occ, Altered(Recorded, occs, occs2, occ),
         NEW runs2, NEW run, Altered(Execution, runs, runs2, run),
         NEW text \in Seq(Bytes), NEW lines \in Seq(Pieces), NEW kept \in Pieces,
         run = [Last(runs) EXCEPT !.text = @ \o text], occ.lines = Last(occs).lines \o lines,
         Joined(lines, NL) \o kept = held \o text
  PROVE  Told(files, occs2, runs2, kept)
<1>0. PICK m : m = Len(runs)
  OBVIOUS
<1>1. m = Len(runs) /\ m \in 1..m
  BY <1>0 DEF Altered
<1>2. /\ runs2 \in Seq(Execution) /\ Len(runs2) = m /\ runs2[m] = run
      /\ \A n \in 1..m : n # m => runs2[n] = runs[n]
  BY <1>1 DEF Altered
<1>3. /\ occs2 \in Seq(Recorded) /\ Len(occs2) = m /\ occs2[m] = occ
      /\ \A n \in 1..m : n # m => occs2[n] = occs[n]
  BY <1>1 DEF Altered
<1>4. /\ Last(runs) = runs[m] /\ runs[m] \in Execution /\ run \in Execution
      /\ Last(occs) = occs[m] /\ occs[m] \in Recorded /\ occ \in Recorded
  BY <1>1, <1>2, <1>3 DEF Last
<1>5. PICK new : new = Joined(lines, NL)
  OBVIOUS
<1>6. new \in Seq(Bytes) /\ kept \in Seq(Bytes) /\ held \in Seq(Bytes)
  <2>1. lines \in Seq(Seq(Symbols))
    BY DEF Pieces
  <2> QED
    BY <1>5, <2>1, JoinedTyped, SeqMonotonic DEF Texts, Bytes, Pieces
<1>7. Filed(occ) = Filed(occs[m]) \o new /\ Filed(occs[m]) \in Seq(Bytes)
  BY <1>4, <1>5, FiledMore, FiledIsText
<1>8. run.text = runs[m].text \o text /\ run.outcome = "running"
  BY <1>4 DEF Execution
<1>9. AllTold(occs2, runs2, kept)
  <2>1. PICK f, g : f = FlattenSeq(FiledTexts(occs)) /\ g = FlattenSeq(RunTexts(runs))
    OBVIOUS
  <2>2. f \in Seq(Bytes) /\ f \o held = g
    BY <2>1, TextsOfLists, FlattenProperties DEF Told, AllTold
  <2>3. FlattenSeq(FiledTexts(occs2)) = f \o new
    <3>1. Flattens(FiledTexts(occs), FiledTexts(occs2), new)
      BY <1>1, <1>6, <1>7, FiledAltered
    <3> QED
      BY <2>1, <3>1 DEF Flattens
  <2>4. FlattenSeq(RunTexts(runs2)) = g \o text
    <3>1. Flattens(RunTexts(runs), RunTexts(runs2), text)
      BY <1>1, <1>8, RunsAltered
    <3> QED
      BY <2>1, <3>1 DEF Flattens
  <2>5. Pours(f, new, kept, held, text)
    BY <1>5, <1>6, <2>2, Poured
  <2> QED
    BY <2>2, <2>3, <2>4, <2>5 DEF AllTold, Pours
<1>10. ASSUME files = 1 PROVE EachTold(occs2, runs2, kept) /\ LineEnded(runs2, kept)
  <2>1. EachTold(occs, runs, held)
    BY <1>10 DEF Told
  <2>2. Filed(occ) \o kept = run.text
    <3>1. Filed(occs[m]) \o held = runs[m].text
      BY <1>1, <2>1 DEF EachTold
    <3>2. PICK f : f = Filed(occs[m]) /\ f \in Seq(Bytes)
      BY <1>7
    <3>3. Pours(f, new, kept, held, text)
      BY <1>5, <1>6, <3>2, Poured
    <3> QED
      BY <1>7, <1>8, <3>1, <3>2, <3>3 DEF Pours
  <2>3. EachTold(occs2, runs2, kept)
    <3> SUFFICES ASSUME NEW n \in 1..m
                 PROVE  Filed(occs2[n]) \o (IF n = m THEN kept ELSE <<>>) = runs2[n].text
      BY <1>2 DEF EachTold
    <3>1. CASE n = m
      BY <1>2, <1>3, <2>2, <3>1
    <3>2. CASE n # m
      BY <1>1, <1>2, <1>3, <2>1, <3>2 DEF EachTold
    <3> QED
      BY <3>1, <3>2
  <2>4. LineEnded(runs2, kept)
    BY <1>2, <1>8 DEF LineEnded, Last
  <2> QED
    BY <2>3, <2>4
<1> QED
  BY <1>9, <1>10 DEF Told

LEMMA ToldEnd ==
  ASSUME NEW files, NEW occs \in Seq(Recorded), NEW runs \in Seq(Execution), Len(occs) = Len(runs),
         NEW held \in Pieces, Told(files, occs, runs, held),
         NEW occs2, NEW occ, Altered(Recorded, occs, occs2, occ),
         NEW runs2, NEW run, Altered(Execution, runs, runs2, run),
         run.text = Last(runs).text, run.text # <<>> => Last(run.text) = NL,
         occ.lines = Last(occs).lines
  PROVE  Told(files, occs2, runs2, held)
<1>0. PICK m : m = Len(runs)
  OBVIOUS
<1>1. m = Len(runs) /\ m \in 1..m
  BY <1>0 DEF Altered
<1>2. /\ runs2 \in Seq(Execution) /\ Len(runs2) = m /\ runs2[m] = run
      /\ \A n \in 1..m : n # m => runs2[n] = runs[n]
  BY <1>1 DEF Altered
<1>3. /\ occs2 \in Seq(Recorded) /\ Len(occs2) = m /\ occs2[m] = occ
      /\ \A n \in 1..m : n # m => occs2[n] = occs[n]
  BY <1>1 DEF Altered
<1>4. /\ Last(runs) = runs[m] /\ runs[m] \in Execution /\ run \in Execution
      /\ Last(occs) = occs[m] /\ occs[m] \in Recorded /\ occ \in Recorded
  BY <1>1, <1>2, <1>3 DEF Last
<1>5. /\ \A n \in 1..m : Filed(occs2[n]) = Filed(occs[n])
      /\ \A n \in 1..m : runs2[n].text = runs[n].text
  BY <1>2, <1>3, <1>4 DEF Filed
<1>6. FiledTexts(occs2) = FiledTexts(occs) /\ RunTexts(runs2) = RunTexts(runs)
  BY <1>1, <1>2, <1>3, <1>5 DEF FiledTexts, RunTexts
<1>7. AllTold(occs2, runs2, held)
  BY <1>6 DEF Told, AllTold
<1>8. ASSUME files = 1 PROVE EachTold(occs2, runs2, held) /\ LineEnded(runs2, held)
  <2>1. EachTold(occs, runs, held)
    BY <1>8 DEF Told
  <2>2. EachTold(occs2, runs2, held)
    BY <1>1, <1>2, <1>5, <2>1 DEF EachTold
  <2>3. held = <<>>
    <3>1. Filed(occs[m]) \o held = run.text
      BY <1>1, <1>4, <2>1 DEF EachTold
    <3>2. Filed(occs[m]) \in Texts(Symbols, NL) /\ held \in Seq(Symbols)
      BY <1>4, FiledIsText DEF Texts, Bytes, Pieces
    <3> QED
      BY <3>1, <3>2, SymbolsAssumption, HeldEnds
  <2> QED
    BY <2>2, <2>3 DEF LineEnded
<1> QED
  BY <1>7, <1>8 DEF Told

LEMMA ToldSame ==
  ASSUME NEW files, NEW occs, NEW runs \in Seq(Execution), NEW held, Told(files, occs, runs, held),
         NEW runs2, SameRuns(runs, runs2)
  PROVE  Told(files, occs, runs2, held)
<1>1. /\ Len(runs2) = Len(runs) /\ runs2 \in Seq(Execution)
      /\ \A n \in 1..Len(runs) : runs2[n].text = runs[n].text /\ runs2[n].outcome = runs[n].outcome
  BY DEF SameRuns
<1>2. AllTold(occs, runs2, held)
  <2>1. RunTexts(runs2) = RunTexts(runs)
    BY <1>1 DEF RunTexts
  <2> QED
    BY <2>1 DEF Told, AllTold
<1>3. EachTold(occs, runs, held) => EachTold(occs, runs2, held)
  BY <1>1 DEF EachTold
<1>4. LineEnded(runs, held) => LineEnded(runs2, held)
  <2>1. runs2 # <<>> => runs # <<>> /\ Len(runs) \in 1..Len(runs)
    BY <1>1
  <2> QED
    BY <1>1, <2>1 DEF LineEnded, Last
<1> QED
  BY <1>2, <1>3, <1>4 DEF Told
-----------------------------------------------------------------------------
\* The inductive invariant about the text, until Finish.
Attributed ==
  \A p \in Packages, t \in Tests : Told(command.files, occurrences[p][t], executions[p][t], partial[<<p, t>>])

LEMMA TestTold ==
  ASSUME Ongoing, Attributed, NEW p \in Packages, NEW t \in Tests,
         NEW runs \in Seq(Execution), NEW occs \in Seq(Recorded), NEW held \in Pieces,
         TestStep(p, t, runs, occs, held), Told(command.files, occs, runs, held)
  PROVE  Attributed'
<1>1. /\ executions' = [executions EXCEPT ![p][t] = runs]
      /\ occurrences' = [occurrences EXCEPT ![p][t] = occs]
      /\ partial' = [partial EXCEPT ![<<p, t>>] = held]
      /\ command' = command
  BY DEF TestStep, Changed, Steady
<1>2. Types /\ ToolchainTypes /\ \A q \in Packages, u \in Tests : <<q, u>> \in Keys
  BY DEF Ongoing, Base, Keys
<1>3. /\ executions'[p][t] = runs /\ occurrences'[p][t] = occs /\ partial'[<<p, t>>] = held
      /\ \A q \in Packages, u \in Tests : <<q, u>> # <<p, t>> =>
           /\ executions'[q][u] = executions[q][u] /\ occurrences'[q][u] = occurrences[q][u]
           /\ partial'[<<q, u>>] = partial[<<q, u>>]
  BY <1>1, <1>2 DEF Types, ToolchainTypes
<1>4. ASSUME NEW q \in Packages, NEW u \in Tests
      PROVE  Told(command'.files, occurrences'[q][u], executions'[q][u], partial'[<<q, u>>])
  <2>1. CASE q = p /\ u = t
    BY <1>1, <1>3, <2>1
  <2>2. CASE ~ (q = p /\ u = t)
    <3>1. <<q, u>> # <<p, t>>
      BY <2>2
    <3>2. Told(command.files, occurrences[q][u], executions[q][u], partial[<<q, u>>])
      BY DEF Attributed
    <3>3. /\ executions'[q][u] = executions[q][u] /\ occurrences'[q][u] = occurrences[q][u]
          /\ partial'[<<q, u>>] = partial[<<q, u>>]
      BY <1>3, <3>1
    <3> QED
      BY <1>1, <3>2, <3>3
  <2> QED
    BY <2>1, <2>2
<1> QED
  BY <1>4, Zenon DEF Attributed

LEMMA AroundTold ==
  ASSUME Ongoing, Attributed, Around
  PROVE  Attributed'
<1>1. /\ UNCHANGED <<occurrences, partial>> /\ command' = command
      /\ \A p \in Packages, t \in Tests : SameRuns(executions[p][t], executions'[p][t])
  BY DEF Around, Model
<1>2. \A p \in Packages, t \in Tests : executions[p][t] \in Seq(Execution)
  BY DEF Ongoing, Base, ToolchainTypes
<1>3. ASSUME NEW p \in Packages, NEW t \in Tests
      PROVE  Told(command'.files, occurrences'[p][t], executions'[p][t], partial'[<<p, t>>])
  <2>1. Told(command.files, occurrences[p][t], executions[p][t], partial[<<p, t>>])
    BY DEF Attributed
  <2>2. executions[p][t] \in Seq(Execution) /\ SameRuns(executions[p][t], executions'[p][t])
    BY <1>1, <1>2
  <2>3. Told(command.files, occurrences[p][t], executions'[p][t], partial[<<p, t>>])
    BY <2>1, <2>2, ToldSame
  <2> QED
    BY <1>1, <2>3
<1> QED
  BY <1>3, Zenon DEF Attributed

\* What is known of a test.
LEMMA ThisTest ==
  ASSUME Ongoing, Attributed, NEW p \in Packages, NEW t \in Tests
  PROVE  /\ executions[p][t] \in Seq(Execution) /\ occurrences[p][t] \in Seq(Recorded)
         /\ Len(occurrences[p][t]) = Len(executions[p][t])
         /\ partial[<<p, t>>] \in Pieces /\ <<p, t>> \in Keys
         /\ Told(command.files, occurrences[p][t], executions[p][t], partial[<<p, t>>])
<1>1. <<p, t>> \in Keys /\ Types /\ ToolchainTypes /\ Twins
  BY DEF Keys, Ongoing, Base
<1> QED
  BY <1>1 DEF Types, ToolchainTypes, Twins, Twin, Attributed

LEMMA StartedTold ==
  ASSUME Ongoing, Attributed, NEW p \in Packages, NEW t \in Tests, Started(p, t)
  PROVE  Attributed'
<1> DEFINE held == partial[<<p, t>>]
<1>1. PICK runs, occs, run :
        /\ TestStep(p, t, runs, occs, held)
        /\ Live(p) /\ UNCHANGED <<process, death>>
        /\ executions[p][t] # <<>> => Last(executions[p][t]).iteration < iteration[p]
        /\ run \in Execution /\ run.outcome = "running" /\ run.text = <<>>
        /\ run.iteration = iteration[p]
        /\ Appended(Execution, executions[p][t], runs, run)
        /\ Appended(Recorded, occurrences[p][t], occs, NewOccurrence)
  BY DEF Started
<1>2. ASSUME command.files = 1 PROVE held = <<>>
  <2>1. CASE executions[p][t] = <<>>
    BY <2>1 DEF Ongoing, NothingHeldBefore
  <2>2. CASE executions[p][t] # <<>>
    <3>1. Sequential(executions[p][t], iteration[p]) /\ iteration[p] \in Nat
          /\ executions[p][t] \in Seq(Execution)
      BY <1>1, <1>2, LiveTest
    <3>2. Last(executions[p][t]).outcome # "running"
      <4>1. PICK m : m = Len(executions[p][t])
        OBVIOUS
      <4>2. m \in 1..Len(executions[p][t]) /\ executions[p][t][m] = Last(executions[p][t])
        BY <2>2, <3>1, <4>1 DEF Last
      <4>3. executions[p][t][m].iteration \in Nat
        BY <3>1, <4>2 DEF Sequential
      <4>4. executions[p][t][m].iteration < iteration[p]
        BY <1>1, <2>2, <4>2
      <4>5. executions[p][t][m].outcome = "running" => executions[p][t][m].iteration = iteration[p]
        BY <3>1, <4>2 DEF Sequential
      <4> QED
        BY <3>1, <4>2, <4>3, <4>4, <4>5
    <3>3. LineEnded(executions[p][t], held)
      BY <1>2, ThisTest DEF Told
    <3> QED
      BY <2>2, <3>2, <3>3 DEF LineEnded
  <2> QED
    BY <2>1, <2>2
<1>3. runs \in Seq(Execution) /\ occs \in Seq(Recorded)
  BY <1>1 DEF Appended
<1> HIDE DEF held
<1>4. held \in Pieces
  BY ThisTest DEF held
<1>5. Told(command.files, occs, runs, held)
  BY <1>1, <1>2, <1>4, ThisTest, ToldStart DEF held
<1> QED
  BY <1>1, <1>3, <1>4, <1>5, TestTold

LEMMA PrintedTold ==
  ASSUME Ongoing, Attributed, NEW p \in Packages, NEW t \in Tests, Running(p, t),
         NEW text \in Seq(Bytes), Printed(p, t, text)
  PROVE  Attributed'
<1>1. PICK kept, lines : kept = Kept(<<p, t>>, text) /\ lines = Completed(<<p, t>>, text)
  OBVIOUS
<1>2. PICK runs, occs, run, occ :
        /\ TestStep(p, t, runs, occs, kept)
        /\ Altered(Execution, executions[p][t], runs, run)
        /\ run = [Last(executions[p][t]) EXCEPT !.text = @ \o text]
        /\ Altered(Recorded, occurrences[p][t], occs, occ)
        /\ occ.terminal = Last(occurrences[p][t]).terminal
        /\ occ.status = Last(occurrences[p][t]).status
        /\ occ.lines = Last(occurrences[p][t]).lines \o lines
  BY <1>1 DEF Printed
<1>3. /\ lines \in Seq(Pieces) /\ kept \in Pieces
      /\ Joined(lines, NL) \o kept = partial[<<p, t>>] \o text
  BY <1>1, ThisTest, TakenText
<1>4. Last(executions[p][t]).outcome = "running"
  BY DEF Running
<1>5. runs \in Seq(Execution) /\ occs \in Seq(Recorded)
  BY <1>2 DEF Altered
<1>6. Told(command.files, occs, runs, kept)
  BY <1>2, <1>3, <1>4, ThisTest, ToldPrint
<1> QED
  BY <1>2, <1>3, <1>5, <1>6, TestTold

LEMMA EndedTold ==
  ASSUME Ongoing, Attributed, NEW p \in Packages, NEW t \in Tests, NEW action,
         Ended(p, t, action), Running(p, t)
  PROVE  Attributed'
<1>1. PICK runs, occs, run, occ :
        /\ TestStep(p, t, runs, occs, partial[<<p, t>>])
        /\ Altered(Execution, executions[p][t], runs, run)
        /\ run = [Last(executions[p][t]) EXCEPT !.outcome = action]
        /\ run.text # <<>> => Last(run.text) = NL
        /\ Altered(Recorded, occurrences[p][t], occs, occ)
        /\ occ.terminal = TRUE /\ occ.status = Verdict(action)
        /\ occ.lines = Last(occurrences[p][t]).lines
  BY DEF Ended
<1>2. Last(executions[p][t]) \in Execution
  BY RunningLast DEF Ongoing
<1>3. run.text = Last(executions[p][t]).text
  BY <1>1, <1>2 DEF Execution
<1>4. runs \in Seq(Execution) /\ occs \in Seq(Recorded)
  BY <1>1 DEF Altered
<1>5. Told(command.files, occs, runs, partial[<<p, t>>]) /\ partial[<<p, t>>] \in Pieces
  BY <1>1, <1>3, ThisTest, ToldEnd
<1> QED
  BY <1>1, <1>4, <1>5, TestTold

LEMMA DiedTold ==
  ASSUME Ongoing, Attributed, NEW p \in Packages, NEW t \in Tests,
         NEW why \in {"exit", "panic", "timeout"}, Died(p, t, why)
  PROVE  Attributed'
<1>1. CASE why = "exit" /\ UNCHANGED <<executions, Model>> /\ Steady
  <2>1. UNCHANGED <<occurrences, executions, partial, command>>
    BY <1>1 DEF Model, Steady
  <2> QED
    BY <2>1, Zenon DEF Attributed
<1>2. CASE why \in {"panic", "timeout"} /\ Printed(p, t, LastWords(why))
  <2>1. Running(p, t) /\ LastWords(why) \in Seq(Bytes)
    BY <1>2, WordsAreText DEF Died
  <2> QED
    BY <1>2, <2>1, PrintedTold
<1> QED
  BY <1>1, <1>2 DEF Died

LEMMA AttributedGoesOn ==
  ASSUME Ongoing, Attributed, Next
  PROVE  Attributed' \/ Finishes
<1>0. Base
  BY DEF Ongoing
<1>1. ASSUME NEW p \in Packages, Begins(p) \/ Reports(p) PROVE Attributed'
  BY <1>0, <1>1, PackageStep, AroundTold
<1>2. ASSUME (\E p \in Packages : Quietly(p)) \/ Exits PROVE Attributed'
  BY <1>0, <1>2, QuietStep, AroundTold
<1>3. ASSUME NEW p \in Packages, NEW t \in Tests, Fails(p, t) PROVE Attributed'
  BY <1>0, <1>3, FailStep, AroundTold
<1>4. ASSUME NEW p \in Packages, NEW t \in Tests, Starts(p, t) PROVE Attributed'
  BY <1>0, <1>4, StartStep, StartedTold
<1>5. ASSUME NEW p \in Packages, NEW t \in Tests, Logs(p, t) PROVE Attributed'
  <2>1. PICK text \in Chunks : Printed(p, t, text) /\ Running(p, t)
    BY <1>0, <1>5, LogStep
  <2>2. text \in Seq(Bytes)
    BY ChunksAssumption
  <2> QED
    BY <2>1, <2>2, PrintedTold
<1>6. ASSUME NEW p \in Packages, NEW t \in Tests, Ends(p, t) PROVE Attributed'
  <2>1. PICK action \in Terminal : EndTest(p, t, action) /\ Add(TestEv(p, t, action))
    BY <1>6 DEF Ends
  <2>2. Ended(p, t, action) /\ Running(p, t)
    BY <1>0, <2>1, EndStep DEF EndTest
  <2> QED
    BY <2>2, EndedTold
<1>7. ASSUME NEW p \in Packages, NEW t \in Tests, Dies(p, t) PROVE Attributed'
  BY <1>0, <1>7, DieStep, DiedTold
<1> QED
  BY <1>1, <1>2, <1>3, <1>4, <1>5, <1>6, <1>7 DEF Next
-----------------------------------------------------------------------------
\* What OutputAttributed asks of one test, in the terms of these lemmas.
Reads(done, told, text) == told = text \/ (done /\ told = Terminated(text))

Kin(done, files, occs, runs, held) ==
  /\ files = 1 => \A n \in 1..Len(runs) :
       Reads(done, Filed(occs[n]) \o (IF n = Len(runs) THEN held ELSE <<>>), runs[n].text)
  /\ Reads(done, FlattenSeq(FiledTexts(occs)) \o held, FlattenSeq(RunTexts(runs)))

TextBelongs(done, files, occs, runs, held) ==
  LET filed == [n \in DOMAIN runs |-> Joined(occs[n].lines, NL)]
      heldBy(n) == IF n = Len(runs) THEN held ELSE <<>>
      is(told, text) == told = text \/ (done /\ told = Terminated(text))
  IN  /\ files = 1 => \A n \in DOMAIN runs : is(filed[n] \o heldBy(n), runs[n].text)
      /\ is(FlattenSeq(filed) \o heldBy(Len(runs)), FlattenSeq([n \in DOMAIN runs |-> runs[n].text]))

LEMMA KinBelongs ==
  ASSUME NEW done, NEW files, NEW occs, NEW runs \in Seq(Execution), Len(occs) = Len(runs), NEW held,
         Kin(done, files, occs, runs, held)
  PROVE  TextBelongs(done, files, occs, runs, held)
<1>1. DOMAIN runs = 1..Len(runs)
  OBVIOUS
<1>2. /\ FiledTexts(occs) = [n \in DOMAIN runs |-> Joined(occs[n].lines, NL)]
      /\ RunTexts(runs) = [n \in DOMAIN runs |-> runs[n].text]
  BY <1>1 DEF FiledTexts, Filed, RunTexts
<1>3. files = 1 => \A n \in DOMAIN runs :
        Reads(done, Filed(occs[n]) \o (IF n = Len(runs) THEN held ELSE <<>>), runs[n].text)
  BY <1>1 DEF Kin
<1>4. Reads(done, FlattenSeq([n \in DOMAIN runs |-> Joined(occs[n].lines, NL)]) \o held,
            FlattenSeq([n \in DOMAIN runs |-> runs[n].text]))
  BY <1>2 DEF Kin
<1> QED
  BY <1>3, <1>4 DEF TextBelongs, Reads, Filed

LEMMA ToldIsKin ==
  ASSUME NEW done, NEW files, NEW occs, NEW runs, NEW held, Told(files, occs, runs, held)
  PROVE  Kin(done, files, occs, runs, held)
<1>1. Reads(done, FlattenSeq(FiledTexts(occs)) \o held, FlattenSeq(RunTexts(runs)))
  BY DEF Told, AllTold, Reads
<1>2. ASSUME files = 1, NEW n \in 1..Len(runs)
      PROVE  Reads(done, Filed(occs[n]) \o (IF n = Len(runs) THEN held ELSE <<>>), runs[n].text)
  BY <1>2 DEF Told, EachTold, Reads
<1> QED
  BY <1>1, <1>2 DEF Kin

LEMMA AttributedBelongs ==
  ASSUME Ongoing, Attributed
  PROVE  OutputAttributed
<1>1. ASSUME NEW p \in Packages, NEW t \in Tests
      PROVE  TextBelongs(finished, command.files, occurrences[p][t], executions[p][t], partial[<<p, t>>])
  BY ThisTest, ToldIsKin, KinBelongs
<1> QED
  BY <1>1, Zenon DEF OutputAttributed, TextBelongs

\* A text with a half line at its end has not been ended.
LEMMA HeldUnended ==
  ASSUME NEW f \in Seq(Bytes), NEW held \in Pieces, held # <<>>
  PROVE  f \o held # <<>> /\ Last(f \o held) # NL
<1>1. PICK h : h = held
  OBVIOUS
<1>2. h \in Seq(Symbols) /\ Len(h) \in Nat \ {0} /\ NL \notin Symbols
  BY <1>1, SymbolsAssumption DEF Pieces
<1>3. h \in Seq(Bytes)
  BY <1>2, SeqMonotonic DEF Bytes
<1>4. PICK g : g = f \o h
  OBVIOUS
<1>5. Len(g) = Len(f) + Len(h) /\ g[Len(f) + Len(h)] = h[Len(h)] /\ Len(f) \in Nat
  BY <1>2, <1>3, <1>4
<1>6. h[Len(h)] \in Symbols
  BY <1>2
<1> QED
  BY <1>1, <1>2, <1>4, <1>5, <1>6 DEF Last

\* Finish ends the line that a test left unfinished, and keeps every other text.
LEMMA ToldFlushed ==
  ASSUME NEW files, NEW occs \in Seq(Recorded), NEW runs \in Seq(Execution), Len(occs) = Len(runs),
         NEW held \in Pieces, Told(files, occs, runs, held), occs = <<>> => held = <<>>,
         NEW after, after = WithLines(occs, IF held = <<>> THEN <<>> ELSE <<held>>)
  PROVE  Kin(TRUE, files, after, runs, <<>>)
<1>1. /\ \A n \in 1..Len(runs) : runs[n].text \in Seq(Bytes)
      /\ \A n \in 1..Len(runs) : Filed(occs[n]) \in Seq(Bytes)
      /\ FlattenSeq(FiledTexts(occs)) \in Seq(Bytes)
      /\ FlattenSeq(RunTexts(runs)) \in Seq(Bytes)
  <2>1. \A n \in 1..Len(runs) : runs[n] \in Execution /\ occs[n] \in Recorded
    OBVIOUS
  <2> QED
    BY <2>1, FiledIsText, TextsOfLists, FlattenProperties DEF Execution
<1>2. CASE held = <<>>
  <2>1. after = occs
    BY <1>2 DEF WithLines
  <2> QED
    BY <1>2, <2>1, ToldIsKin
<1>3. CASE held # <<>>
  <2>1. occs # <<>> /\ <<held>> \in Seq(Pieces)
    BY <1>3
  <2>2. PICK occ \in Recorded :
          /\ Altered(Recorded, occs, after, occ)
          /\ occ.lines = occs[Len(occs)].lines \o <<held>>
    BY <1>3, <2>1, LinesAlter
  <2>3. PICK m : m = Len(runs)
    OBVIOUS
  <2>4. /\ m = Len(occs) /\ m \in 1..m /\ occs[m] \in Recorded /\ after[m] = occ
        /\ \A n \in 1..m : n # m => after[n] = occs[n]
    BY <2>2, <2>3 DEF Altered
  <2>5. PICK more : more = Joined(<<held>>, NL)
    OBVIOUS
  <2>6. more = Append(held, NL) /\ more \in Seq(Bytes) /\ held \in Seq(Bytes)
    <3>1. <<>> \in Seq(Seq(Symbols)) /\ held \in Seq(Symbols) /\ <<held>> = Append(<<>>, held)
      BY DEF Pieces
    <3>2. PICK e : e = <<NL>> /\ e \in Seq(Bytes)
      <4>1. NL \in Bytes
        BY DEF Bytes
      <4>2. <<NL>> \in Seq(Bytes)
        BY <4>1
      <4> QED
        BY <4>2
    <3>3. held \in Seq(Bytes)
      BY <3>1, SeqMonotonic DEF Bytes
    <3>4. more = <<>> \o held \o e
      <4>1. Joined(Append(<<>>, held), NL) = Joined(<<>>, NL) \o held \o <<NL>>
        BY <3>1, JoinedAppend
      <4>2. Joined(<<>>, NL) = <<>>
        BY EmptyText
      <4> QED
        BY <2>5, <3>1, <3>2, <4>1, <4>2
    <3>5. <<>> \o held = held
      BY <3>3, ConcatEmptySeq
    <3>6. held \o e = Append(held, NL)
      BY <3>2, <3>3
    <3> QED
      BY <3>2, <3>3, <3>4, <3>5, <3>6, AppendProperties DEF Bytes
  <2>7. Filed(occ) = Filed(occs[m]) \o more
    BY <2>1, <2>2, <2>4, <2>5, FiledMore
  <2>8. ASSUME NEW f \in Seq(Bytes), NEW g, f \o held = g
        PROVE  Reads(TRUE, (f \o more) \o <<>>, g)
    <3>1. NL \in Bytes
      BY DEF Bytes
    <3>2. f \o more = Append(g, NL)
      BY <2>6, <2>8, <3>1, ConcatAppend
    <3>3. Terminated(g) = Append(g, NL)
      BY <1>3, <2>8, HeldUnended DEF Terminated
    <3>4. (f \o more) \o <<>> = f \o more
      BY <2>6, ConcatProperties, ConcatEmptySeq
    <3> QED
      BY <3>2, <3>3, <3>4 DEF Reads
  <2>9. Reads(TRUE, FlattenSeq(FiledTexts(after)) \o <<>>, FlattenSeq(RunTexts(runs)))
    <3>1. FlattenSeq(FiledTexts(after)) = FlattenSeq(FiledTexts(occs)) \o more
      BY <2>2, <2>4, <2>6, <2>7, FiledAltered DEF Flattens
    <3>2. FlattenSeq(FiledTexts(occs)) \o held = FlattenSeq(RunTexts(runs))
      BY DEF Told, AllTold
    <3> QED
      BY <1>1, <2>8, <3>1, <3>2
  <2>10. ASSUME files = 1, NEW n \in 1..Len(runs)
         PROVE  Reads(TRUE, Filed(after[n]) \o (IF n = Len(runs) THEN <<>> ELSE <<>>), runs[n].text)
    <3>1. Filed(occs[n]) \o (IF n = Len(runs) THEN held ELSE <<>>) = runs[n].text
      BY <2>10 DEF Told, EachTold
    <3>2. Filed(occs[n]) \in Seq(Bytes)
      BY <1>1
    <3>3. CASE n = m
      BY <2>3, <2>4, <2>7, <2>8, <3>1, <3>2, <3>3
    <3>4. CASE n # m
      <4>1. Filed(after[n]) \o <<>> = runs[n].text
        BY <2>3, <2>4, <3>1, <3>4
      <4> QED
        BY <4>1 DEF Reads
    <3> QED
      BY <3>3, <3>4
  <2> QED
    BY <2>9, <2>10 DEF Kin
<1> QED
  BY <1>2, <1>3

LEMMA FinishTells ==
  ASSUME Ongoing, Attributed, Finishes
  PROVE  OutputAttributed'
<1>1. /\ Finish /\ finished' = TRUE /\ UNCHANGED <<command, executions>>
      /\ partial' = [k \in Keys |-> <<>>]
  BY DEF Finishes, Finish, JoinerFlush, toolchain
<1>2. ASSUME NEW p \in Packages, NEW t \in Tests
      PROVE  TextBelongs(finished', command'.files, occurrences'[p][t], executions'[p][t], partial'[<<p, t>>])
  <2> DEFINE runs == executions[p][t]
             flushed == Flushed(p, t)
             timedOut == PackageTimedOut(FlushedLines(p), FlushedOccurrences(p))
             after == [n \in DOMAIN flushed |-> Classified(flushed[n], timedOut)]
  <2>1. occurrences'[p][t] = after
    BY <1>1 DEF Finish, Flushed
  <2>2. flushed \in Seq(Recorded) /\ Len(flushed) = Len(runs) /\ runs \in Seq(Execution)
    BY FlushedTwin, ThisTest DEF Twin
  <2>3. flushed = WithLines(occurrences[p][t], IF partial[<<p, t>>] = <<>> THEN <<>> ELSE <<partial[<<p, t>>]>>)
    BY DEF Flushed, FlushedOccurrences, Remainder
  <2>4. occurrences[p][t] = <<>> => partial[<<p, t>>] = <<>>
    BY ThisTest DEF Ongoing, NothingHeldBefore
  <2> HIDE DEF flushed, timedOut
  <2>5. Kin(TRUE, command.files, flushed, runs, <<>>)
    BY <2>3, <2>4, ThisTest, ToldFlushed
  <2>6. Len(after) = Len(runs)
    BY <2>2
  <2>7. \A n \in 1..Len(runs) : after[n].lines = flushed[n].lines
    <3> SUFFICES ASSUME NEW n \in 1..Len(runs) PROVE after[n].lines = flushed[n].lines
      OBVIOUS
    <3>1. flushed[n] \in Recorded /\ after[n] = Classified(flushed[n], timedOut)
      BY <2>2
    <3> QED
      BY <3>1 DEF Classified, Recorded
  <2> HIDE DEF after
  <2>8. FiledTexts(after) = FiledTexts(flushed) /\ \A n \in 1..Len(runs) : Filed(after[n]) = Filed(flushed[n])
    BY <2>2, <2>6, <2>7 DEF FiledTexts, Filed
  <2>9. Kin(TRUE, command.files, after, runs, <<>>)
    BY <2>5, <2>8 DEF Kin
  <2>10. TextBelongs(TRUE, command.files, after, runs, <<>>)
    BY <2>2, <2>6, <2>9, KinBelongs
  <2>11. partial'[<<p, t>>] = <<>>
    BY <1>1, ThisTest
  <2> QED
    BY <1>1, <2>1, <2>10, <2>11
<1> QED
  BY <1>2, Zenon DEF OutputAttributed, TextBelongs
-----------------------------------------------------------------------------
TextInv == PipelineInv /\ IF finished THEN OutputAttributed ELSE Attributed

LEMMA InitIsAttributed == ASSUME Init PROVE Attributed
<1>1. /\ executions = [p \in Packages |-> [t \in Tests |-> <<>>]]
      /\ partial = [k \in Keys |-> <<>>]
      /\ occurrences = [p \in Packages |-> [t \in Tests |-> <<>>]]
  BY DEF Init, GoTestInit, BuilderInit, JoinerInit
<1>2. Told(command.files, <<>>, <<>>, <<>>)
  <2>1. FiledTexts(<<>>) = <<>> /\ RunTexts(<<>>) = <<>>
    BY DEF FiledTexts, RunTexts
  <2>2. FlattenSeq(<<>>) = <<>>
    BY FlattenProperties
  <2> QED
    BY <2>1, <2>2 DEF Told, AllTold, EachTold, LineEnded
<1> QED
  BY <1>1, <1>2 DEF Attributed, Keys

LEMMA TextInvariance == Spec => []TextInv
<1>1. Init => TextInv
  BY InitIsOngoing, InitIsAttributed DEF TextInv, PipelineInv
<1>2. TextInv /\ PipelineInv' /\ [Next]_vars => TextInv'
  <2> SUFFICES ASSUME TextInv, PipelineInv', [Next]_vars
               PROVE  IF finished' THEN OutputAttributed' ELSE Attributed'
    BY DEF TextInv
  <2>1. CASE UNCHANGED vars
    <3>1. UNCHANGED <<finished, command, occurrences, executions, partial>>
      BY <2>1 DEF vars, builderVars, toolchain
    <3>2. OutputAttributed => OutputAttributed'
      <4> SUFFICES ASSUME OutputAttributed PROVE OutputAttributed'
        OBVIOUS
      <4>1. \A p \in Packages, t \in Tests :
              TextBelongs(finished, command.files, occurrences[p][t], executions[p][t], partial[<<p, t>>])
        BY Zenon DEF OutputAttributed, TextBelongs
      <4>2. ASSUME NEW p \in Packages, NEW t \in Tests
            PROVE  TextBelongs(finished', command'.files, occurrences'[p][t], executions'[p][t], partial'[<<p, t>>])
        <5>1. TextBelongs(finished, command.files, occurrences[p][t], executions[p][t], partial[<<p, t>>])
          BY <4>1
        <5> QED
          BY <3>1, <5>1
      <4> QED
        BY <4>2, Zenon DEF OutputAttributed, TextBelongs
    <3>3. Attributed => Attributed'
      BY <3>1, Zenon DEF Attributed
    <3> QED
      BY <3>1, <3>2, <3>3 DEF TextInv
  <2>2. CASE finished /\ Next
    BY <2>2, ClosedStays DEF TextInv, PipelineInv
  <2>3. CASE ~finished /\ Next
    <3>1. Ongoing /\ Attributed
      BY <2>3 DEF TextInv, PipelineInv
    <3>2. CASE Finishes
      BY <3>1, <3>2, FinishTells, FinishRecords
    <3>3. CASE ~Finishes
      <4>1. Ongoing' /\ Attributed'
        BY <2>3, <3>1, <3>3, OngoingGoesOn, AttributedGoesOn
      <4> QED
        BY <4>1 DEF Ongoing, Base
    <3> QED
      BY <3>2, <3>3
  <2> QED
    BY <2>1, <2>2, <2>3
<1> QED
  BY <1>1, <1>2, PipelineInvariance, PTL DEF Spec

\* At every moment what an execution printed is what is filed under it and what is
\* held for it: no test's output goes to another, and none of it is lost.
THEOREM OutputHolds == Spec => []OutputAttributed
<1>1. TextInv => OutputAttributed
  BY AttributedBelongs DEF TextInv, PipelineInv
<1> QED
  BY <1>1, TextInvariance, PTL
-----------------------------------------------------------------------------
(***************************************************************************)
(* Lists as sets.                                                           *)
(***************************************************************************)
LEMMA HeldInSet ==
  ASSUME NEW V, NEW s \in Seq(V)
  PROVE  IsFiniteSet(ToSet(s)) /\ \A v : v \in ToSet(s) <=> Contains(s, v)
<1>1. DOMAIN s = 1..Len(s) /\ Len(s) \in Nat
  OBVIOUS
<1>2. \A v : v \in ToSet(s) <=> Contains(s, v)
  BY <1>1 DEF ToSet, Contains
<1>3. s \in Surjection(1..Len(s), ToSet(s))
  BY <1>1 DEF ToSet, Surjection
<1>4. IsFiniteSet(1..Len(s))
  BY <1>1, FS_Interval
<1> QED
  BY <1>2, <1>3, <1>4, FS_Surjection

\* What a list names the elements of a set by is finite too.
LEMMA NamesFinite ==
  ASSUME NEW V, NEW s \in Seq(V), NEW f, NEW T, T \subseteq {f[s[i]] : i \in 1..Len(s)}
  PROVE  IsFiniteSet(T)
<1> DEFINE g == [i \in 1..Len(s) |-> f[s[i]]]
           U == {g[i] : i \in 1..Len(s)}
<1>1. Len(s) \in Nat
  OBVIOUS
<1>2. g \in Surjection(1..Len(s), U)
  BY <1>1 DEF Surjection
<1>3. IsFiniteSet(U)
  BY <1>1, <1>2, FS_Interval, FS_Surjection
<1>4. T \subseteq U
  OBVIOUS
<1> QED
  BY <1>3, <1>4, FS_Subset

\* A set that holds n different things has at least n elements.
LEMMA EnoughInSet ==
  ASSUME NEW V, NEW s \in Seq(V), Distinct(s), NEW n \in Nat, n <= Len(s),
         NEW T, IsFiniteSet(T), \A i \in 1..n : s[i] \in T
  PROVE  Cardinality(T) >= n /\ Cardinality(T) \in Nat
<1> DEFINE f == [i \in 1..n |-> s[i]]
<1>1. \A i \in 1..n : i \in 1..Len(s)
  OBVIOUS
<1>2. f \in [1..n -> T] /\ \A i, j \in 1..n : f[i] = f[j] => i = j
  BY <1>1 DEF Distinct
<1> HIDE DEF f
<1>3. f \in Injection(1..n, T)
  BY <1>2 DEF Injection, IsInjective
<1>4. Cardinality(1..n) = n /\ Cardinality(T) \in Nat
  BY FS_Interval, FS_CardinalityType
<1> QED
  BY <1>3, <1>4, FS_Injection

\* What a list of lists holds.
Flattened(ss, s) == \A v : Contains(s, v) <=> \E i \in 1..Len(ss) : Contains(ss[i], v)

LEMMA FlattenHolds ==
  ASSUME NEW V, NEW ss \in Seq(Seq(V))
  PROVE  FlattenSeq(ss) \in Seq(V) /\ Flattened(ss, FlattenSeq(ss))
<1> DEFINE A == Seq(V)
           T == {u \in Seq(A) : Flattened(u, FlattenSeq(u))}
<1>1. <<>> \in T
  BY FlattenProperties DEF Flattened, Contains
<1>2. ASSUME NEW u \in Seq(A), NEW e \in A, u \in T PROVE Append(u, e) \in T
  <2>1. PICK w, f, g : w = Append(u, e) /\ f = FlattenSeq(u) /\ g = FlattenSeq(w)
    OBVIOUS
  <2>2. f \in Seq(V) /\ g = f \o e
    BY <2>1, FlattenProperties
  <2>3. Flattened(u, f) /\ Concats(f, e, g)
    BY <1>2, <2>1, <2>2, ConcatHolds
  <2>4. /\ w \in Seq(A) /\ Len(u) \in Nat /\ Len(w) = Len(u) + 1 /\ w[Len(u) + 1] = e
        /\ \A i \in 1..Len(u) : w[i] = u[i]
    BY <2>1, AppendProperties
  <2>5. \A i \in 1..Len(w) : i \in 1..Len(u) \/ i = Len(u) + 1
    BY <2>4
  <2>6. Flattened(w, g)
    <3> SUFFICES ASSUME NEW v PROVE Contains(g, v) <=> \E i \in 1..Len(w) : Contains(w[i], v)
      BY DEF Flattened
    <3>1. Contains(g, v) <=> (\E i \in 1..Len(u) : Contains(u[i], v)) \/ Contains(e, v)
      BY <2>3 DEF Flattened, Concats
    <3>2. \A i \in 1..Len(u) : i \in 1..Len(w)
      BY <2>4
    <3>3. Len(u) + 1 \in 1..Len(w)
      BY <2>4
    <3> HIDE DEF Contains
    <3> QED
      BY ONLY <3>1, <3>2, <3>3, <2>4, <2>5
  <2> QED
    BY <2>1, <2>4, <2>6
<1>3. Seq(A) \subseteq T
  <2> HIDE DEF T, A
  <2> QED
    BY ONLY <1>1, <1>2, SequenceInduction
<1> QED
  BY <1>3, FlattenProperties
-----------------------------------------------------------------------------
(***************************************************************************)
(* The cases of a test.                                                     *)
(***************************************************************************)
\* The occurrence a case tells of.
Told1(c, occs) == occs[IF c.repeat = 0 THEN Len(occs) ELSE c.repeat]

FailedEarlier(occs) == \E m \in 1..Len(occs) - 1 : IsFailure(occs[m].status)

Attempted(occs) == [m \in 1..Len(occs) |-> occs[m].status]

\* What a case of a test says of what was recorded of it.
Stands(c, p, t, occs) ==
  /\ c.kind = "test" /\ c.package = p /\ c.test = t
  /\ occs # <<>> /\ c.repeat \in 0..Len(occs)
  /\ c.status = Told1(c, occs).status
  /\ IsFailure(c.status) => c.error = ErrorText(Told1(c, occs))
  /\ c.repeat # 0 => c.attempts = <<>>
  /\ c.repeat = 0 =>
       /\ c.attempts = TrimAttempts(Attempted(occs))
       /\ c.flaky <=> Len(occs) > 1 /\ ~IsFailure(c.status) /\ FailedEarlier(occs)

Whole(p, t, occs) == WithAttempts(BuildOne(p, t, Last(occs)), occs)

Part(p, t, occs, n) == [BuildOne(p, t, occs[n]) EXCEPT !.repeat = n]

LEMMA TrimmedSome ==
  ASSUME NEW V, NEW s \in Seq(V)
  PROVE  TrimAttempts(s) = <<>> <=> Len(s) < 2
<1>1. Len(s) \in Nat /\ MaxAttemptsPerCase \in Nat \ {0}
  BY ReportAssumption
<1>2. CASE Len(s) < 2
  BY <1>2 DEF TrimAttempts
<1>3. CASE ~ (Len(s) < 2) /\ Len(s) <= MaxAttemptsPerCase
  BY <1>3 DEF TrimAttempts
<1>4. CASE ~ (Len(s) < 2) /\ ~ (Len(s) <= MaxAttemptsPerCase)
  <2>1. PICK u : u = SubSeq(s, 1, MaxAttemptsPerCase - 1)
    OBVIOUS
  <2>2. TrimAttempts(s) = Append(u, Last(s))
    BY <1>4, <2>1 DEF TrimAttempts
  <2>3. u \in Seq(V) /\ Last(s) \in V
    <3>1. s # <<>>
      BY <1>4
    <3> QED
      BY <1>1, <1>4, <2>1, <3>1 DEF Last
  <2>4. Append(u, Last(s)) # <<>>
    BY <2>3
  <2> QED
    BY <1>4, <2>2, <2>4
<1> QED
  BY <1>2, <1>3, <1>4

LEMMA AttemptsListed ==
  ASSUME NEW occs \in Seq(Recorded)
  PROVE  /\ Attempted(occs) \in Seq({occs[m].status : m \in 1..Len(occs)})
         /\ Len(Attempted(occs)) = Len(occs)
         /\ Attempted(occs) = [n \in DOMAIN occs |-> occs[n].status]
<1>1. Len(occs) \in Nat /\ DOMAIN occs = 1..Len(occs)
  OBVIOUS
<1> QED
  BY <1>1 DEF Attempted

LEMMA WholeStands ==
  ASSUME NEW p, NEW t, NEW occs \in Seq(Recorded), occs # <<>>
  PROVE  Stands(Whole(p, t, occs), p, t, occs) /\ Whole(p, t, occs).repeat = 0
<1> DEFINE last == Last(occs)
           one == BuildOne(p, t, last)
           attempts == TrimAttempts(Attempted(occs))
           flaky == ~IsFailure(one.status) /\ FailedEarlier(occs)
<1>1. Len(occs) \in Nat \ {0} /\ last = occs[Len(occs)]
  BY DEF Last
<1>2. one = [kind |-> "test", package |-> p, test |-> t, repeat |-> 0, status |-> last.status,
             error |-> IF IsFailure(last.status) THEN ErrorText(last) ELSE <<>>,
             attempts |-> <<>>, flaky |-> FALSE]
  BY DEF BuildOne, NewCase
<1>3. attempts = <<>> <=> Len(occs) < 2
  BY AttemptsListed, TrimmedSome
<1>4. Whole(p, t, occs) = IF attempts = <<>> THEN one
                          ELSE [one EXCEPT !.attempts = attempts, !.flaky = flaky]
  BY AttemptsListed DEF Whole, WithAttempts, FailedEarlier
<1> HIDE DEF attempts, last, one, flaky
<1>5. PICK w : w = Whole(p, t, occs)
  OBVIOUS
<1>6. /\ w.kind = "test" /\ w.package = p /\ w.test = t /\ w.repeat = 0 /\ w.status = last.status
      /\ w.error = (IF IsFailure(last.status) THEN ErrorText(last) ELSE <<>>)
      /\ w.attempts = attempts
      /\ w.flaky = IF attempts = <<>> THEN FALSE ELSE flaky
  BY <1>2, <1>4, <1>5
<1>7. one.status = last.status
  BY <1>2
<1>8. Told1(w, occs) = last
  BY <1>1, <1>6 DEF Told1
<1>9. w.flaky <=> Len(occs) > 1 /\ ~IsFailure(w.status) /\ FailedEarlier(occs)
  <2>1. attempts = <<>> <=> ~ (Len(occs) > 1)
    BY <1>1, <1>3
  <2> QED
    BY <1>6, <1>7, <2>1, Zenon DEF flaky
<1> QED
  BY <1>1, <1>5, <1>6, <1>8, <1>9 DEF Stands, attempts

LEMMA PartStands ==
  ASSUME NEW p, NEW t, NEW occs \in Seq(Recorded), NEW n \in 1..Len(occs)
  PROVE  Stands(Part(p, t, occs, n), p, t, occs) /\ Part(p, t, occs, n).repeat = n
<1>1. PICK w : w = Part(p, t, occs, n)
  OBVIOUS
<1>2. w = [kind |-> "test", package |-> p, test |-> t, repeat |-> n, status |-> occs[n].status,
           error |-> IF IsFailure(occs[n].status) THEN ErrorText(occs[n]) ELSE <<>>,
           attempts |-> <<>>, flaky |-> FALSE]
  BY <1>1 DEF Part, BuildOne, NewCase
<1>3. n # 0 /\ n \in 0..Len(occs) /\ occs # <<>>
  OBVIOUS
<1>4. w.repeat = n /\ Told1(w, occs) = occs[n]
  BY <1>2, <1>3 DEF Told1
<1> QED
  BY <1>1, <1>2, <1>3, <1>4 DEF Stands

\* What is known of the cases of a test.
CasesTell(p, t, cs) ==
  LET occs == occurrences[p][t]
  IN  /\ cs \in Seq(ToSet(cs)) /\ Distinct(cs)
      /\ \A c : Contains(cs, c) => Stands(c, p, t, occs)
      /\ occs # <<>> /\ KeepTest(p, t) =>
           \A n \in 1..Len(occs) : \E c : Contains(cs, c) /\ c.repeat \in {0, n}
      /\ ~KeepTest(p, t) => cs = <<>>

LEMMA CasesTold ==
  ASSUME Types, NEW p \in Packages, NEW t \in Tests, NEW repeat
  PROVE  CasesTell(p, t, Cases(p, t, repeat))
<1>1. PICK occs : occs = occurrences[p][t]
  OBVIOUS
<1>2. occs \in Seq(Recorded) /\ Len(occs) \in Nat /\ DOMAIN occs = 1..Len(occs)
  BY <1>1 DEF Types
<1>3. PICK cs : cs = Cases(p, t, repeat)
  OBVIOUS
<1>4. CASE occs = <<>> \/ ~KeepTest(p, t)
  <2>1. cs = <<>>
    BY <1>1, <1>3, <1>4 DEF Cases
  <2> QED
    BY <1>1, <1>3, <1>4, <2>1 DEF CasesTell, Contains, Distinct
<1>5. CASE occs # <<>> /\ KeepTest(p, t) /\ repeat = "split" /\ Len(occs) > 1
  <2>1. cs = [n \in 1..Len(occs) |-> Part(p, t, occs, n)]
    BY <1>1, <1>2, <1>3, <1>5 DEF Cases, Part
  <2>2. DOMAIN cs = 1..Len(occs) /\ Len(cs) = Len(occs) /\ \A n \in 1..Len(occs) : cs[n] = Part(p, t, occs, n)
    BY <1>2, <2>1
  <2>3. cs \in Seq(ToSet(cs))
    BY <1>2, <2>1 DEF ToSet
  <2>4. \A n \in 1..Len(occs) : Stands(cs[n], p, t, occs) /\ cs[n].repeat = n
    BY <1>2, <2>2, PartStands
  <2>5. Distinct(cs)
    BY <2>2, <2>4 DEF Distinct
  <2>6. \A c : Contains(cs, c) => Stands(c, p, t, occs)
    BY <2>2, <2>4 DEF Contains
  <2>7. \A n \in 1..Len(occs) : \E c : Contains(cs, c) /\ c.repeat \in {0, n}
    BY <2>2, <2>4 DEF Contains
  <2> QED
    BY <1>1, <1>3, <1>5, <2>3, <2>5, <2>6, <2>7 DEF CasesTell
<1>6. CASE occs # <<>> /\ KeepTest(p, t) /\ ~ (repeat = "split" /\ Len(occs) > 1)
  <2>1. PICK w : w = Whole(p, t, occs)
    OBVIOUS
  <2>2. cs = <<w>>
    BY <1>1, <1>3, <1>6, <2>1 DEF Cases, Whole
  <2>3. Stands(w, p, t, occs) /\ w.repeat = 0
    BY <1>2, <1>6, <2>1, WholeStands
  <2>4. cs \in Seq(ToSet(cs)) /\ Distinct(cs) /\ \A c : Contains(cs, c) <=> c = w
    BY <2>2 DEF ToSet, Distinct, Contains
  <2> QED
    BY <1>1, <1>3, <1>6, <2>3, <2>4 DEF CasesTell
<1> QED
  BY <1>4, <1>5, <1>6
-----------------------------------------------------------------------------
(***************************************************************************)
(* The suite of a package.                                                  *)
(***************************************************************************)
\* The cases a suite may hold.
SomeCase(p, repeat) == UNION {ToSet(Cases(p, t, repeat)) : t \in Tests}

TestParts(p, repeat) == [t \in Tests |-> Cases(p, t, repeat)]

TestsShown(p, repeat) == Gathered(testOrder[p], TestParts(p, repeat), MaxCasesPerSuite)

LEMMA PartsApart ==
  ASSUME Types, NEW p \in Packages, NEW repeat
  PROVE  TestParts(p, repeat) \in [Tests -> Seq(SomeCase(p, repeat))] /\ Apart(Tests, TestParts(p, repeat))
<1>1. \A t \in Tests : CasesTell(p, t, Cases(p, t, repeat))
  BY CasesTold
<1>2. ASSUME NEW t \in Tests PROVE Cases(p, t, repeat) \in Seq(SomeCase(p, repeat))
  <2>1. PICK cs : cs = Cases(p, t, repeat)
    OBVIOUS
  <2>2. cs \in Seq(ToSet(cs)) /\ ToSet(cs) \subseteq SomeCase(p, repeat)
    BY <1>1, <2>1 DEF CasesTell, SomeCase
  <2> QED
    BY <2>1, <2>2, SeqMonotonic
<1>3. \A t \in Tests : Distinct(TestParts(p, repeat)[t])
  BY <1>1 DEF TestParts, CasesTell
<1>4. \A t \in Tests : \A c : Contains(TestParts(p, repeat)[t], c) => c.test = t
  BY <1>1 DEF TestParts, CasesTell, Stands
<1>5. TestParts(p, repeat) \in [Tests -> Seq(SomeCase(p, repeat))]
  BY <1>2 DEF TestParts
<1> QED
  BY <1>3, <1>4, <1>5 DEF Apart

\* What the loop over the tests of a package shows of them.
SuiteTells(p, cs) ==
  /\ cs \in Seq(ToSet(cs)) /\ Distinct(cs)
  /\ \A c : Contains(cs, c) =>
       /\ Contains(testOrder[p], c.test) /\ KeepTest(p, c.test)
       /\ Stands(c, p, c.test, occurrences[p][c.test])
  /\ \A t \in Tests :
       Contains(testOrder[p], t) /\ KeepTest(p, t) /\ occurrences[p][t] # <<>> =>
         \/ \A n \in 1..Len(occurrences[p][t]) :
              \E c : Contains(cs, c) /\ c.test = t /\ c.repeat \in {0, n}
         \/ Len(cs) >= MaxCasesPerSuite /\ \A c : Contains(cs, c) => c.test # t

LEMMA SuiteTold ==
  ASSUME Types, Lists, NEW p \in Packages, NEW repeat
  PROVE  SuiteTells(p, TestsShown(p, repeat))
<1>1. PICK cs, names, V : cs = TestsShown(p, repeat) /\ names = testOrder[p] /\ V = SomeCase(p, repeat)
  OBVIOUS
<1>2. PICK parts : parts = TestParts(p, repeat)
  OBVIOUS
<1>3. names \in Seq(Tests) /\ Distinct(names)
  BY <1>1, ListedEach DEF Lists, Listed
<1>4. cs \in Seq(V) /\ Gathers(names, parts, MaxCasesPerSuite, cs)
  <2>1. MaxCasesPerSuite \in Nat
    BY ReportAssumption
  <2>2. parts \in [Tests -> Seq(V)] /\ Apart(Tests, parts)
    BY <1>1, <1>2, PartsApart
  <2>3. cs = Gathered(names, parts, MaxCasesPerSuite)
    BY <1>1, <1>2 DEF TestsShown
  <2> QED
    BY <1>3, <2>1, <2>2, <2>3, GatheredElements
<1>5. ASSUME NEW t \in Tests PROVE CasesTell(p, t, parts[t])
  BY <1>2, CasesTold DEF TestParts
<1>6. \A t : Contains(names, t) => t \in Tests
  BY <1>3 DEF Contains
<1>7. cs \in Seq(ToSet(cs))
  <2>1. Len(cs) \in Nat /\ DOMAIN cs = 1..Len(cs) /\ cs = [i \in 1..Len(cs) |-> cs[i]]
    BY <1>4
  <2>2. \A i \in 1..Len(cs) : cs[i] \in ToSet(cs)
    BY <2>1 DEF ToSet
  <2> QED
    BY <2>1, <2>2
<1>8. ASSUME NEW c, Contains(cs, c)
      PROVE  /\ Contains(names, c.test) /\ KeepTest(p, c.test)
             /\ Stands(c, p, c.test, occurrences[p][c.test])
  <2>1. PICK t : Contains(names, t) /\ Contains(parts[t], c)
    BY <1>4, <1>8 DEF Gathers
  <2>2. CasesTell(p, t, parts[t])
    BY <1>5, <1>6, <2>1
  <2>3. Stands(c, p, t, occurrences[p][t])
    BY <2>1, <2>2 DEF CasesTell
  <2>4. c.test = t
    BY <2>3 DEF Stands
  <2>5. KeepTest(p, t)
    <3>1. ~ Contains(<<>>, c)
      BY DEF Contains
    <3> QED
      BY <2>1, <2>2, <3>1 DEF CasesTell
  <2> QED
    BY <2>1, <2>3, <2>4, <2>5
<1>9. ASSUME NEW t \in Tests, Contains(names, t), KeepTest(p, t), occurrences[p][t] # <<>>
      PROVE  \/ \A n \in 1..Len(occurrences[p][t]) :
                  \E c : Contains(cs, c) /\ c.test = t /\ c.repeat \in {0, n}
             \/ Len(cs) >= MaxCasesPerSuite /\ \A c : Contains(cs, c) => c.test # t
  <2>1. /\ \A n \in 1..Len(occurrences[p][t]) : \E c : Contains(parts[t], c) /\ c.repeat \in {0, n}
        /\ \A c : Contains(parts[t], c) => c.test = t
    BY <1>5, <1>9 DEF CasesTell, Stands
  <2>2. CASE \A c : Contains(parts[t], c) => Contains(cs, c)
    BY <2>1, <2>2
  <2>3. CASE Len(cs) >= MaxCasesPerSuite /\ \A c : Contains(parts[t], c) => ~ Contains(cs, c)
    <3>1. ASSUME NEW c, Contains(cs, c), c.test = t PROVE FALSE
      <4>1. PICK u : Contains(names, u) /\ Contains(parts[u], c)
        BY <1>4, <3>1 DEF Gathers
      <4>2. u = t
        BY <1>5, <1>6, <3>1, <4>1 DEF CasesTell, Stands
      <4> QED
        BY <2>3, <3>1, <4>1, <4>2
    <3> QED
      BY <2>3, <3>1
  <2> QED
    BY <1>4, <1>9, <2>2, <2>3 DEF Gathers
<1> QED
  BY <1>1, <1>4, <1>7, <1>8, <1>9 DEF SuiteTells, Gathers
\* The synthetic case is there when the package failed and nothing else explains it.
Blamed(p, shown) == package[p].status = "fail" /\ ~ \E c : Contains(shown, c) /\ ExplainsAFailure(c)

SuiteAdds(p, shown, cs) ==
  /\ cs \in Seq(ToSet(cs))
  /\ \A c : Contains(cs, c) <=> Contains(shown, c) \/ (Blamed(p, shown) /\ c = PackageFailureCase(p))

LEMMA ExplainedBy ==
  ASSUME NEW V, NEW cs \in Seq(V)
  PROVE  AnythingExplainsAFailure(cs) <=> \E c : Contains(cs, c) /\ ExplainsAFailure(c)
<1>1. DOMAIN cs = 1..Len(cs)
  OBVIOUS
<1> QED
  BY <1>1 DEF AnythingExplainsAFailure, Contains

LEMMA OwnElements ==
  ASSUME NEW V, NEW s \in Seq(V)
  PROVE  s \in Seq(ToSet(s))
<1>1. Len(s) \in Nat /\ DOMAIN s = 1..Len(s) /\ s = [i \in 1..Len(s) |-> s[i]]
  OBVIOUS
<1>2. \A i \in 1..Len(s) : s[i] \in ToSet(s)
  BY <1>1 DEF ToSet
<1> QED
  BY <1>1, <1>2

LEMMA SuiteHolds ==
  ASSUME Types, Lists, NEW p \in Packages, NEW repeat
  PROVE  SuiteAdds(p, TestsShown(p, repeat), SuiteCases(p, repeat))
<1>1. PICK shown, cs, case : /\ shown = TestsShown(p, repeat) /\ cs = SuiteCases(p, repeat)
                             /\ case = PackageFailureCase(p)
  OBVIOUS
<1>2. shown \in Seq(ToSet(shown))
  BY <1>1, SuiteTold DEF SuiteTells
<1>3. cs = IF package[p].status = "fail" /\ ~AnythingExplainsAFailure(shown)
           THEN Append(shown, case) ELSE shown
  BY <1>1 DEF SuiteCases, TestsShown, TestParts
<1>4. Blamed(p, shown) <=> package[p].status = "fail" /\ ~AnythingExplainsAFailure(shown)
  BY <1>2, ExplainedBy DEF Blamed
<1>5. PICK S : S = ToSet(shown) \cup {case}
  OBVIOUS
<1>6. shown \in Seq(S) /\ case \in S
  BY <1>2, <1>5, SeqMonotonic
<1>7. Append(shown, case) \in Seq(S) /\ Adds(shown, case, Append(shown, case))
  BY <1>6, AppendAdds
<1>8. CASE Blamed(p, shown)
  <2>1. cs = Append(shown, case)
    BY <1>3, <1>4, <1>8
  <2>2. cs \in Seq(ToSet(cs))
    BY <1>7, <2>1, OwnElements
  <2> QED
    BY <1>1, <1>7, <1>8, <2>1, <2>2 DEF SuiteAdds, Adds
<1>9. CASE ~ Blamed(p, shown)
  BY <1>1, <1>2, <1>3, <1>4, <1>9 DEF SuiteAdds
<1> QED
  BY <1>1, <1>8, <1>9

LEMMA SuiteIsOfPackage ==
  ASSUME Types, Lists, NEW p \in Packages, NEW repeat, NEW c, Contains(SuiteCases(p, repeat), c)
  PROVE  c.package = p
<1>1. SuiteAdds(p, TestsShown(p, repeat), SuiteCases(p, repeat)) /\ SuiteTells(p, TestsShown(p, repeat))
  BY SuiteHolds, SuiteTold
<1>2. CASE Contains(TestsShown(p, repeat), c)
  BY <1>1, <1>2 DEF SuiteTells, Stands
<1>3. CASE c = PackageFailureCase(p)
  BY <1>3 DEF PackageFailureCase, NewCase
<1> QED
  BY <1>1, <1>2, <1>3 DEF SuiteAdds
-----------------------------------------------------------------------------
(***************************************************************************)
(* The whole report.                                                        *)
(***************************************************************************)
FullOfOthers(cases, p) == Cardinality({case.package : case \in cases} \ {p}) >= MaxSuitesPerLaunch

\* The report holds the suites of some packages, all it has room for, and the
\* synthetic failure when the exit was red and they are not.
ReportTells(repeat, exit, evidence, packs, cases) ==
  LET backed == exit \notin {NoExit, "zero"} /\ \A p \in packs : \A c :
                  Contains(SuiteCases(p, repeat), c) => ~ExplainsAFailure(c)
  IN  /\ packs \subseteq Packages /\ IsFiniteSet(cases)
      /\ \A c : c \in cases <=> \/ \E p \in packs : Contains(SuiteCases(p, repeat), c)
                                \/ backed /\ c = Unattributed(evidence)
      /\ \A p \in Packages : Contains(packageOrder, p) /\ SuiteCases(p, repeat) # <<>> =>
           p \in packs \/ FullOfOthers(cases, p)

LEMMA ReportTold ==
  ASSUME Types, Lists, NEW repeat, NEW exit, NEW evidence
  PROVE  \E packs : ReportTells(repeat, exit, evidence, packs,
                                ToSet(FlattenSeq(Collect(repeat, exit, evidence))))
<1> DEFINE suite(p) == SuiteCases(p, repeat)
           some == {p \in Packages : suite(p) # <<>>}
           last == Unattributed(evidence)
           V == (UNION {ToSet(suite(p)) : p \in Packages}) \cup {last}
<1>1. PICK shown : shown = Filtered(packageOrder, some)
  OBVIOUS
<1>2. shown \in Seq(Packages) /\ Distinct(shown)
      /\ \A p : Contains(shown, p) <=> Contains(packageOrder, p) /\ p \in some
  <2>1. packageOrder \in Seq(Packages) /\ Distinct(packageOrder)
    BY DEF Lists
  <2> HIDE DEF some
  <2> QED
    BY <1>1, <2>1, FilteredElements DEF Filters
<1>3. PICK room : room = IF Len(shown) > MaxSuitesPerLaunch THEN MaxSuitesPerLaunch ELSE Len(shown)
  OBVIOUS
<1>4. /\ room \in Nat /\ room <= Len(shown) /\ Len(shown) \in Nat
      /\ room < Len(shown) => room = MaxSuitesPerLaunch
  BY <1>2, <1>3, ReportAssumption
<1>5. PICK suites : suites = [i \in 1..room |-> suite(shown[i])]
  OBVIOUS
<1>6. Suites(repeat) = suites
  BY <1>1, <1>3, <1>5 DEF Suites
<1>7. \A i \in 1..room : i \in 1..Len(shown) /\ shown[i] \in Packages /\ Contains(shown, shown[i])
  BY <1>2, <1>4 DEF Contains
<1>8. \A p \in Packages : suite(p) \in Seq(V)
  <2> SUFFICES ASSUME NEW p \in Packages PROVE suite(p) \in Seq(V)
    OBVIOUS
  <2>1. PICK cs : cs = suite(p)
    OBVIOUS
  <2>2. cs \in Seq(ToSet(cs))
    BY <2>1, SuiteHolds DEF SuiteAdds
  <2>3. ToSet(cs) \subseteq V
    BY <2>1
  <2> HIDE DEF V, suite
  <2> QED
    BY <2>1, <2>2, <2>3, SeqMonotonic
<1>9. PICK A : A = Seq(V)
  OBVIOUS
<1>10. suites \in Seq(A) /\ Len(suites) = room /\ <<last>> \in A
       /\ \A c : Contains(<<last>>, c) <=> c = last
  <2>1. \A i \in 1..room : suite(shown[i]) \in A
    BY <1>7, <1>8, <1>9
  <2>2. last \in V
    <3> HIDE DEF last, suite
    <3> QED
      OBVIOUS
  <2> HIDE DEF V, suite, last
  <2>3. \A c : Contains(<<last>>, c) <=> c = last
    BY DEF Contains
  <2> QED
    BY <1>4, <1>5, <1>9, <2>1, <2>2, <2>3
<1> DEFINE packs == {shown[i] : i \in 1..room}
           backed == exit \notin {NoExit, "zero"} /\ \A p \in packs : \A c :
                       Contains(suite(p), c) => ~ExplainsAFailure(c)
<1>11. PICK collected : collected = Collect(repeat, exit, evidence)
  OBVIOUS
<1>12. collected = IF backed THEN Append(suites, <<last>>) ELSE suites
  <2>1. DOMAIN suites = 1..room
    BY <1>5
  <2>2. \A i \in 1..room : AnythingExplainsAFailure(suites[i])
                             <=> \E c : Contains(suite(shown[i]), c) /\ ExplainsAFailure(c)
    BY <1>5, <1>7, <1>8, ExplainedBy
  <2>3. (\E i \in DOMAIN suites : AnythingExplainsAFailure(suites[i]))
          <=> \E p \in packs : \E c : Contains(suite(p), c) /\ ExplainsAFailure(c)
    BY <2>1, <2>2
  <2>4. collected = IF \/ exit \in {NoExit, "zero"}
                       \/ \E i \in DOMAIN suites : AnythingExplainsAFailure(suites[i])
                    THEN suites ELSE Append(suites, <<last>>)
    BY <1>6, <1>11 DEF Collect, WithBackstop
  <2> HIDE DEF suite, packs, last
  <2> QED
    BY <2>3, <2>4
<1>13. PICK flat, cases : flat = FlattenSeq(collected) /\ cases = ToSet(flat)
  OBVIOUS
<1> HIDE DEF V, suite, last, backed
<1>14. flat \in Seq(V) /\ Flattened(collected, flat)
  <2>1. collected \in Seq(A)
    <3>1. Append(suites, <<last>>) \in Seq(A)
      BY <1>10
    <3> QED
      BY <1>10, <1>12, <3>1
  <2> QED
    BY <1>9, <1>13, <2>1, FlattenHolds
<1>15. IsFiniteSet(cases) /\ \A c : c \in cases <=> Contains(flat, c)
  BY <1>13, <1>14, HeldInSet
<1>16. \A c : c \in cases <=> (\E p \in packs : Contains(suite(p), c)) \/ (backed /\ c = last)
  <2>1. \A c : (\E i \in 1..room : Contains(suites[i], c)) <=> \E p \in packs : Contains(suite(p), c)
    BY <1>5
  <2>2. CASE ~backed
    BY <1>10, <1>12, <1>14, <1>15, <2>1, <2>2 DEF Flattened
  <2>3. CASE backed
    <3>1. PICK longer : longer = Append(suites, <<last>>)
      OBVIOUS
    <3>2. /\ Len(longer) = room + 1 /\ longer[room + 1] = <<last>>
          /\ \A i \in 1..room : longer[i] = suites[i]
      BY <1>4, <1>10, <3>1, AppendProperties
    <3>3. \A i \in 1..room + 1 : i \in 1..room \/ i = room + 1
      BY <1>4
    <3>4. \A i \in 1..room : i \in 1..room + 1
      BY <1>4
    <3>5. room + 1 \in 1..room + 1
      BY <1>4
    <3>6. collected = longer
      BY <1>12, <2>3, <3>1
    <3>7. \A c : c \in cases <=> \E i \in 1..room + 1 : Contains(longer[i], c)
      BY <1>14, <1>15, <3>2, <3>6 DEF Flattened
    <3>8. \A c : (\E i \in 1..room + 1 : Contains(longer[i], c))
                   <=> (\E i \in 1..room : Contains(suites[i], c)) \/ c = last
      <4> HIDE DEF Contains
      <4> QED
        BY ONLY <1>10, <3>2, <3>3, <3>4, <3>5
    <3> QED
      BY <2>1, <2>3, <3>7, <3>8
  <2> QED
    BY <2>2, <2>3
<1>17. ASSUME NEW p \in Packages, Contains(packageOrder, p), suite(p) # <<>>, p \notin packs
       PROVE  FullOfOthers(cases, p)
  <2>1. PICK T : T = {case.package : case \in cases} \ {p}
    OBVIOUS
  <2>2. Contains(shown, p)
    BY <1>2, <1>17
  <2>3. room = MaxSuitesPerLaunch
    <3>1. PICK i \in 1..Len(shown) : shown[i] = p
      BY <2>2 DEF Contains
    <3>2. i \notin 1..room
      BY <1>17, <3>1
    <3> QED
      BY <1>4, <3>1, <3>2
  <2>4. IsFiniteSet(T)
    <3>1. PICK f : f = [v \in V |-> v.package]
      OBVIOUS
    <3>2. \A i \in 1..Len(flat) : flat[i] \in V
      BY <1>14
    <3>3. \A c \in cases : \E i \in 1..Len(flat) : c.package = f[flat[i]]
      BY <1>15, <3>1, <3>2 DEF Contains
    <3>4. T \subseteq {f[flat[i]] : i \in 1..Len(flat)}
      BY <2>1, <3>3
    <3> QED
      BY <1>14, <3>4, NamesFinite
  <2>5. ASSUME NEW i \in 1..room PROVE shown[i] \in T
    <3>1. PICK q : q = shown[i]
      OBVIOUS
    <3>2. q \in Packages /\ q \in packs /\ q # p /\ suite(q) # <<>>
      BY <1>2, <1>7, <1>17, <3>1
    <3>3. PICK cs : cs = suite(q)
      OBVIOUS
    <3>4. cs \in Seq(V) /\ cs # <<>>
      BY <1>8, <3>2, <3>3
    <3>5. Contains(cs, cs[1])
      BY <3>4 DEF Contains
    <3>6. cs[1] \in cases
      BY <1>16, <3>2, <3>3, <3>5
    <3>7. cs[1].package = q
      BY <3>2, <3>3, <3>5, SuiteIsOfPackage DEF suite
    <3> QED
      BY <2>1, <3>1, <3>2, <3>6, <3>7
  <2>6. Cardinality(T) >= room
    BY <1>2, <1>4, <2>4, <2>5, EnoughInSet
  <2> QED
    BY <2>1, <2>3, <2>6 DEF FullOfOthers
<1>18. packs \subseteq Packages
  BY <1>7
<1>19. ReportTells(repeat, exit, evidence, packs, cases)
  <2>1. \A p \in Packages : Contains(packageOrder, p) /\ suite(p) # <<>> => p \in packs \/ FullOfOthers(cases, p)
    BY <1>17
  <2>2. \A c : c \in cases <=> \/ \E p \in packs : Contains(SuiteCases(p, repeat), c)
                               \/ backed /\ c = Unattributed(evidence)
    BY <1>16 DEF suite, last
  <2>3. backed <=> exit \notin {NoExit, "zero"} /\ \A p \in packs : \A c :
                     Contains(SuiteCases(p, repeat), c) => ~ExplainsAFailure(c)
    BY DEF backed, suite
  <2>4. \A p \in Packages : Contains(packageOrder, p) /\ SuiteCases(p, repeat) # <<>> =>
          p \in packs \/ FullOfOthers(cases, p)
    BY <2>1 DEF suite
  <2> HIDE DEF packs
  <2> QED
    BY <1>15, <1>18, <2>2, <2>3, <2>4 DEF ReportTells
<1> QED
  BY <1>11, <1>13, <1>19
-----------------------------------------------------------------------------
(***************************************************************************)
(* Tests and the tests they run in.                                         *)
(***************************************************************************)
LEMMA UnderUnder ==
  ASSUME NEW t \in Tests, NEW u \in Tests, IsUnder(u, t)
  PROVE  Len(t) \in Nat /\ Len(u) \in Nat /\ Len(t) < Len(u)
         /\ \A v \in Tests : IsUnder(v, u) => IsUnder(v, t)
<1>1. PICK W : W = UNION {ToSet(v) : v \in Tests}
  OBVIOUS
<1>2. \A v \in Tests : v \in Seq(W)
  <2> SUFFICES ASSUME NEW v \in Tests PROVE v \in Seq(W)
    OBVIOUS
  <2>1. v \in Seq(ToSet(v)) /\ ToSet(v) \subseteq W
    BY <1>1, TestsAssumption
  <2> QED
    BY <2>1, SeqMonotonic
<1>3. ASSUME NEW r \in Seq(W), NEW s \in Seq(W)
      PROVE  IsPrefix(r, s) <=> Len(r) <= Len(s) /\ \A i \in 1..Len(r) : r[i] = s[i]
  <2>1. CASE Len(r) <= Len(s)
    <3>1. PICK x, y : x = SubSeq(r, 1, Len(r)) /\ y = SubSeq(s, 1, Len(r))
      OBVIOUS
    <3>2. /\ x \in Seq(W) /\ y \in Seq(W) /\ Len(x) = Len(r) /\ Len(y) = Len(r) /\ Len(r) \in Nat
          /\ \A i \in 1..Len(r) : x[i] = r[i] /\ y[i] = s[i]
      BY <2>1, <3>1
    <3>3. x = y <=> \A i \in 1..Len(r) : r[i] = s[i]
      BY <3>2, SeqEqual
    <3> QED
      BY <2>1, <3>1, <3>3 DEF IsPrefix
  <2>2. CASE ~ (Len(r) <= Len(s))
    BY <2>2 DEF IsPrefix
  <2> QED
    BY <2>1, <2>2
<1>4. /\ t \in Seq(W) /\ u \in Seq(W) /\ t # u /\ Len(t) \in Nat /\ Len(u) \in Nat
      /\ Len(t) <= Len(u) /\ \A i \in 1..Len(t) : t[i] = u[i]
  BY <1>2, <1>3 DEF IsUnder, IsStrictPrefix
<1>5. Len(t) # Len(u)
  BY <1>4, SeqEqual
<1>6. ASSUME NEW v \in Tests, IsUnder(v, u) PROVE IsUnder(v, t)
  <2>1. /\ v \in Seq(W) /\ Len(v) \in Nat /\ Len(u) <= Len(v)
        /\ \A i \in 1..Len(u) : u[i] = v[i]
    BY <1>2, <1>3, <1>6 DEF IsUnder, IsStrictPrefix
  <2>2. \A i \in 1..Len(t) : i \in 1..Len(u) /\ t[i] = v[i]
    BY <1>4, <2>1
  <2>3. IsPrefix(t, v) /\ t # v
    BY <1>3, <1>4, <1>5, <2>1, <2>2
  <2> QED
    BY <2>3 DEF IsUnder, IsStrictPrefix
<1> QED
  BY <1>4, <1>5, <1>6

\* Of the elements of a list that belong to a set, one is as great as any.
LEMMA GreatestListed ==
  ASSUME NEW V, NEW f \in [V -> Nat], NEW K, NEW s \in Seq(V), \E v \in K : Contains(s, v)
  PROVE  \E v \in K : Contains(s, v) /\ \A w \in K : Contains(s, w) => f[w] <= f[v]
<1> DEFINE great(u) == \E v \in K : Contains(u, v) /\ \A w \in K : Contains(u, w) => f[w] <= f[v]
           T == {u \in Seq(V) : (\E v \in K : Contains(u, v)) => great(u)}
<1>1. <<>> \in T
  BY DEF Contains
<1>2. ASSUME NEW u \in Seq(V), NEW e \in V, u \in T PROVE Append(u, e) \in T
  <2>1. PICK x : x = Append(u, e)
    OBVIOUS
  <2>2. x \in Seq(V) /\ Adds(u, e, x)
    BY <2>1, AppendAdds
  <2>3. \A v : Contains(u, v) => v \in V
    BY DEF Contains
  <2>4. ASSUME NEW v \in K, Contains(x, v) PROVE great(x)
    <3>1. CASE e \notin K
      BY <1>2, <2>2, <2>4, <3>1 DEF Adds
    <3>2. CASE e \in K /\ ~ \E w \in K : Contains(u, w)
      BY <2>2, <3>2 DEF Adds
    <3>3. CASE e \in K /\ \E w \in K : Contains(u, w)
      <4>1. PICK m \in K : Contains(u, m) /\ \A w \in K : Contains(u, w) => f[w] <= f[m]
        BY <1>2, <3>3
      <4>2. f[m] \in Nat /\ f[e] \in Nat /\ \A w \in K : Contains(u, w) => f[w] \in Nat
        BY <2>3, <4>1
      <4>3. CASE f[e] <= f[m]
        BY <2>2, <4>1, <4>3 DEF Adds
      <4>4. CASE ~ (f[e] <= f[m])
        <5>1. \A w \in K : Contains(u, w) => f[w] <= f[e]
          BY <4>1, <4>2, <4>4
        <5>2. Contains(x, e) /\ \A w \in K : Contains(x, w) => Contains(u, w) \/ w = e
          BY <2>2 DEF Adds
        <5>3. f[e] <= f[e]
          BY <4>2
        <5> QED
          BY <3>3, <5>1, <5>2, <5>3
      <4> QED
        BY <4>3, <4>4
    <3> QED
      BY <3>1, <3>2, <3>3
  <2> QED
    BY <2>1, <2>2, <2>4
<1>3. Seq(V) \subseteq T
  <2> HIDE DEF T
  <2> QED
    BY ONLY <1>1, <1>2, SequenceInduction
<1> QED
  BY <1>3

\* Below a parent that is dropped for its children, a red test is kept.
LEMMA DescendantKept ==
  ASSUME Lists, NEW p \in Packages, NEW t \in Tests, AnyChildFailed(p, t)
  PROVE  \E u \in Tests : /\ IsUnder(u, t) /\ Contains(testOrder[p], u)
                          /\ KeepTest(p, u) /\ IsFailure(FinalStatus(p, u))
<1> DEFINE K == {u \in Tests : IsUnder(u, t) /\ IsFailure(FinalStatus(p, u))}
           f == [u \in Tests |-> IF IsUnder(u, t) THEN Len(u) ELSE 0]
<1>1. PICK names : names = testOrder[p]
  OBVIOUS
<1>2. names \in Seq(Tests) /\ DOMAIN names = 1..Len(names)
  BY <1>1 DEF Lists
<1>3. \A parent : AnyChildFailed(p, parent) <=>
                    \E u : Contains(names, u) /\ IsUnder(u, parent) /\ IsFailure(FinalStatus(p, u))
  BY <1>1, <1>2 DEF AnyChildFailed, Contains
<1>4. \A u : Contains(names, u) => u \in Tests
  BY <1>2 DEF Contains
<1>5. \E u \in K : Contains(names, u)
  BY <1>3, <1>4
<1>6. f \in [Tests -> Nat]
  BY UnderUnder
<1>7. PICK u \in K : Contains(names, u) /\ \A w \in K : Contains(names, w) => f[w] <= f[u]
  <2> HIDE DEF K, f
  <2> QED
    BY <1>2, <1>5, <1>6, GreatestListed
<1>8. ASSUME AnyChildFailed(p, u) PROVE FALSE
  <2>1. PICK v : Contains(names, v) /\ IsUnder(v, u) /\ IsFailure(FinalStatus(p, v))
    BY <1>3, <1>8
  <2>2. v \in Tests /\ u \in Tests
    BY <1>4, <1>7, <2>1
  <2>3. IsUnder(v, t) /\ Len(u) \in Nat /\ Len(v) \in Nat /\ Len(u) < Len(v)
    BY <1>7, <2>1, <2>2, UnderUnder
  <2>4. f[v] <= f[u] /\ f[v] = Len(v) /\ f[u] = Len(u)
    BY <1>7, <2>1, <2>2, <2>3
  <2> QED
    BY <2>3, <2>4
<1>9. KeepTest(p, u)
  BY <1>7, <1>8 DEF KeepTest
<1> QED
  BY <1>1, <1>7, <1>9
-----------------------------------------------------------------------------
(***************************************************************************)
(* The report of a run that has ended.                                      *)
(***************************************************************************)
\* A test is listed once there is something to report of it.
Seen == \A p \in Packages, t \in Tests : Contains(testOrder[p], t) => occurrences[p][t] # <<>>

\* What the builder knows of a package is what go test said of it last.
PackagesTold ==
  /\ red \subseteq Packages
  /\ \A p \in Packages :
       /\ package[p].failedBuild \in {NoBinary, Binary[p]}
       /\ package[p].status = "fail" => p \in red
       /\ package[p].status # None => Contains(packageOrder, p)
       /\ command.files = 1 /\ p \in red => package[p].status = "fail" /\ process[p] = "reported"

Complete == /\ finished = TRUE
            /\ Types /\ Lists /\ Seen /\ PackagesTold /\ PackagesSilent /\ ToolchainTypes
            /\ ExecutionsRecorded

Runs(p, t) == Len(executions[p][t])

\* What is recorded of an execution is red exactly when it was.
LEMMA RecordedAsRed ==
  ASSUME Complete, NEW p \in Packages, NEW t \in Tests
  PROVE  /\ Runs(p, t) \in Nat /\ Len(occurrences[p][t]) = Runs(p, t)
         /\ occurrences[p][t] \in Seq(Recorded)
         /\ DOMAIN executions[p][t] = 1..Runs(p, t)
         /\ \A n \in 1..Runs(p, t) :
              /\ IsFailure(occurrences[p][t][n].status) <=> Failing(p, t, n)
              /\ command.files = 1 => occurrences[p][t][n].status = Outcome(p, t, n)
<1>1. PICK runs, occs : runs = executions[p][t] /\ occs = occurrences[p][t]
  OBVIOUS
<1>2. runs \in Seq(Execution) /\ occs \in Seq(Recorded)
  BY <1>1 DEF Complete, Types, ToolchainTypes
<1>3. Len(occs) = Len(runs) /\ DOMAIN runs = 1..Len(runs) /\ Len(runs) \in Nat
  BY <1>1, <1>2 DEF Complete, ExecutionsRecorded
<1>4. ASSUME NEW n \in 1..Len(runs)
      PROVE  /\ IsFailure(occs[n].status) <=> Failing(p, t, n)
             /\ command.files = 1 => occs[n].status = Outcome(p, t, n)
  <2>1. \/ occs[n].status = Outcome(p, t, n)
        \/ command.files > 1 /\ runs[n].outcome = "running" /\ occs[n].status \in Unfinished
    BY <1>1, <1>3 DEF Complete, ExecutionsRecorded
  <2>2. CASE occs[n].status = Outcome(p, t, n)
    BY <2>2 DEF Failing
  <2>3. CASE command.files > 1 /\ runs[n].outcome = "running" /\ occs[n].status \in Unfinished
    <3>1. Outcome(p, t, n) \in Unfinished
      BY <1>1, <2>3 DEF Outcome, Unfinished
    <3>2. \A status \in Unfinished : IsFailure(status)
      BY DEF Unfinished, IsFailure
    <3>3. command.files # 1
      BY <2>3
    <3> QED
      BY <2>3, <3>1, <3>2, <3>3 DEF Failing
  <2> QED
    BY <2>1, <2>2, <2>3
<1> QED
  BY <1>1, <1>2, <1>3, <1>4 DEF Runs

\* How a case shows a red execution.
Shows(case, p, t, n) ==
  \/ /\ case.test = t
     /\ IF case.attempts = <<>> THEN IsFailure(case.status) /\ case.repeat \in {0, n}
        ELSE IF Trimmed(p, t) THEN case.flaky \/ IsFailure(case.status)
        ELSE IsFailure(case.attempts[n])
  \/ IsUnder(case.test, t) /\ ExplainsAFailure(case)

\* The case of a red execution shows it, and explains it unless it was trimmed.
LEMMA StandsShows ==
  ASSUME Complete, NEW p \in Packages, NEW t \in Tests, NEW n \in 1..Runs(p, t), Failing(p, t, n),
         NEW c, Stands(c, p, t, occurrences[p][t]), c.repeat \in {0, n}
  PROVE  /\ Shows(c, p, t, n)
         /\ ~Trimmed(p, t) \/ n = Runs(p, t) => ExplainsAFailure(c)
<1>1. PICK occs, last : occs = occurrences[p][t] /\ last = Len(occs)
  OBVIOUS
<1>2. /\ occs \in Seq(Recorded) /\ last = Runs(p, t) /\ last \in Nat /\ n \in 1..last
      /\ IsFailure(occs[n].status)
  BY <1>1, RecordedAsRed
<1>3. c.test = t /\ c.status = Told1(c, occs).status
  BY <1>1 DEF Stands
<1>4. CASE c.repeat = n
  <2>1. c.attempts = <<>> /\ Told1(c, occs) = occs[n]
    BY <1>1, <1>2, <1>4 DEF Stands, Told1
  <2>2. IsFailure(c.status)
    BY <1>2, <1>3, <2>1
  <2> QED
    BY <1>3, <1>4, <2>1, <2>2 DEF Shows, ExplainsAFailure
<1>5. CASE c.repeat = 0
  <2>1. /\ Told1(c, occs) = occs[last] /\ c.attempts = TrimAttempts(Attempted(occs))
        /\ c.flaky <=> last > 1 /\ ~IsFailure(c.status) /\ FailedEarlier(occs)
    BY <1>1, <1>5 DEF Stands, Told1
  <2>2. c.attempts = <<>> <=> last < 2
    <3>1. \E V : Attempted(occs) \in Seq(V) /\ Len(Attempted(occs)) = last
      BY <1>1, <1>2, AttemptsListed
    <3> QED
      BY <2>1, <3>1, TrimmedSome
  <2>3. n = last => IsFailure(c.status)
    BY <1>2, <1>3, <2>1
  <2>4. n # last => last > 1 /\ FailedEarlier(occs)
    <3>1. n # last => n \in 1..last - 1
      BY <1>2
    <3> QED
      BY <1>1, <1>2, <3>1 DEF FailedEarlier
  <2>5. CASE c.attempts = <<>>
    <3>1. n = last
      BY <1>2, <2>2, <2>5
    <3> QED
      BY <1>3, <1>5, <2>3, <2>5, <3>1 DEF Shows, ExplainsAFailure
  <2>6. CASE c.attempts # <<>> /\ Trimmed(p, t)
    <3>1. c.flaky \/ IsFailure(c.status)
      BY <2>1, <2>3, <2>4, Zenon
    <3> QED
      BY <1>2, <1>3, <2>3, <2>6, <3>1 DEF Shows, ExplainsAFailure
  <2>7. CASE c.attempts # <<>> /\ ~Trimmed(p, t)
    <3>1. last <= MaxAttemptsPerCase /\ ~ (last < 2)
      BY <1>2, <2>2, <2>7, ReportAssumption DEF Trimmed, Runs
    <3>2. c.attempts = Attempted(occs)
      BY <1>1, <1>2, <2>1, <3>1, AttemptsListed DEF TrimAttempts
    <3>3. DOMAIN c.attempts = 1..last /\ c.attempts[n] = occs[n].status
      BY <1>1, <1>2, <3>2 DEF Attempted
    <3> QED
      BY <1>2, <1>3, <2>7, <3>3 DEF Shows, ExplainsAFailure
  <2> QED
    BY <2>5, <2>6, <2>7
<1> QED
  BY <1>4, <1>5
-----------------------------------------------------------------------------
(***************************************************************************)
(* What the report owes a test is shown, unless it has no room for it.       *)
(***************************************************************************)
ShowsIn(shown, p, t, n) ==
  \E c : /\ Contains(shown, c) /\ Shows(c, p, t, n)
         /\ ~Trimmed(p, t) => ExplainsAFailure(c)

NoRoomIn(shown, t) == Len(shown) >= MaxCasesPerSuite /\ \A c : Contains(shown, c) => c.test # t

LEMMA OwedShown ==
  ASSUME Complete, NEW p \in Packages, NEW t \in Tests, NEW n \in 1..Runs(p, t), Owed(p, t, n),
         NEW repeat
  PROVE  /\ Contains(packageOrder, p)
         /\ \/ ShowsIn(TestsShown(p, repeat), p, t, n)
            \/ NoRoomIn(TestsShown(p, repeat), t)
<1>1. PICK shown : shown = TestsShown(p, repeat)
  OBVIOUS
<1>2. SuiteTells(p, shown)
  BY <1>1, SuiteTold DEF Complete
<1>3. /\ Runs(p, t) \in Nat /\ Len(occurrences[p][t]) = Runs(p, t)
      /\ occurrences[p][t] \in Seq(Recorded) /\ occurrences[p][t] # <<>>
  BY RecordedAsRed
<1>4. Contains(testOrder[p], t) /\ Contains(packageOrder, p)
  <2>1. Listed(p, testOrder[p], occurrences[p], packageOrder)
    BY ListedEach DEF Complete, Lists
  <2>2. ~ Contains(<<>>, t)
    BY DEF Contains
  <2> QED
    BY <1>3, <2>1, <2>2 DEF Listed
<1>5. Failing(p, t, n)
  BY DEF Owed
<1>6. CASE KeepTest(p, t)
  <2>1. CASE NoRoomIn(shown, t)
    BY <1>1, <1>4, <2>1
  <2>2. CASE ~NoRoomIn(shown, t)
    <3>1. PICK c : Contains(shown, c) /\ c.test = t /\ c.repeat \in {0, n}
      BY <1>2, <1>3, <1>4, <1>6, <2>2 DEF SuiteTells, NoRoomIn
    <3>2. Stands(c, p, t, occurrences[p][t])
      BY <1>2, <3>1 DEF SuiteTells
    <3>3. ShowsIn(shown, p, t, n)
      BY <1>5, <3>1, <3>2, StandsShows DEF ShowsIn
    <3> QED
      BY <1>1, <1>4, <3>3
  <2> QED
    BY <2>1, <2>2
<1>7. CASE ~KeepTest(p, t)
  <2>1. HasChildren(p, t) /\ n = Runs(p, t)
    BY <1>7 DEF KeepTest, Owed, Runs
  <2>2. IsFailure(FinalStatus(p, t))
    BY <1>3, <1>5, <2>1, RecordedAsRed DEF FinalStatus, Last
  <2>3. AnyChildFailed(p, t)
    BY <1>7, <2>2 DEF KeepTest
  <2>4. PICK u \in Tests : /\ IsUnder(u, t) /\ Contains(testOrder[p], u)
                          /\ KeepTest(p, u) /\ IsFailure(FinalStatus(p, u))
    BY <2>3, DescendantKept DEF Complete
  <2>5. PICK m : m = Runs(p, u)
    OBVIOUS
  <2>6. /\ occurrences[p][u] # <<>> /\ m \in 1..Runs(p, u) /\ Failing(p, u, m)
        /\ Len(occurrences[p][u]) = Runs(p, u)
    <3>1. occurrences[p][u] # <<>>
      BY <2>4 DEF Complete, Seen
    <3>2. m \in 1..Runs(p, u) /\ Len(occurrences[p][u]) = m
      BY <2>5, <3>1, RecordedAsRed
    <3>3. IsFailure(occurrences[p][u][m].status)
      BY <2>4, <3>1, <3>2 DEF FinalStatus, Last
    <3> QED
      BY <2>5, <3>1, <3>2, <3>3, RecordedAsRed
  <2>7. CASE \A k \in 1..Len(occurrences[p][u]) :
               \E c : Contains(shown, c) /\ c.test = u /\ c.repeat \in {0, k}
    <3>1. PICK c : Contains(shown, c) /\ c.test = u /\ c.repeat \in {0, m}
      BY <2>6, <2>7
    <3>2. Stands(c, p, u, occurrences[p][u])
      BY <1>2, <3>1 DEF SuiteTells
    <3>3. ExplainsAFailure(c)
      BY <2>5, <2>6, <3>1, <3>2, StandsShows
    <3>4. ShowsIn(shown, p, t, n)
      BY <2>4, <3>1, <3>3 DEF ShowsIn, Shows
    <3> QED
      BY <1>1, <1>4, <3>4
  <2>8. CASE Len(shown) >= MaxCasesPerSuite
    <3>1. \A c : Contains(shown, c) => c.test # t
      BY <1>2, <1>7 DEF SuiteTells
    <3> QED
      BY <1>1, <1>4, <2>8, <3>1 DEF NoRoomIn
  <2> QED
    BY <1>2, <2>4, <2>6, <2>7, <2>8 DEF SuiteTells
<1> QED
  BY <1>6, <1>7

\* The cases of the tests of a package that the report shows are those of its suite.
LEMMA InItsSuite ==
  ASSUME Complete, NEW repeat, NEW exit, NEW evidence, NEW packs, NEW cases,
         ReportTells(repeat, exit, evidence, packs, cases),
         NEW p \in packs, NEW c, Contains(TestsShown(p, repeat), c)
  PROVE  c \in TestCases(cases, p)
<1>1. p \in Packages
  BY DEF ReportTells
<1>2. Contains(SuiteCases(p, repeat), c)
  BY <1>1, SuiteHolds DEF SuiteAdds, Complete
<1>3. Stands(c, p, c.test, occurrences[p][c.test])
  BY <1>1, SuiteTold DEF SuiteTells, Complete
<1>4. c \in cases
  BY <1>2 DEF ReportTells
<1> QED
  BY <1>3, <1>4 DEF TestCases, Stands

LEMMA RoomTaken ==
  ASSUME Complete, NEW repeat, NEW exit, NEW evidence, NEW packs, NEW cases,
         ReportTells(repeat, exit, evidence, packs, cases),
         NEW p \in packs, NEW t, NoRoomIn(TestsShown(p, repeat), t)
  PROVE  FullWithout(cases, p, t)
<1>1. PICK shown, T : shown = TestsShown(p, repeat) /\ T = {case \in TestCases(cases, p) : case.test # t}
  OBVIOUS
<1>2. shown \in Seq(ToSet(shown)) /\ Distinct(shown) /\ Len(shown) \in Nat
  BY <1>1, SuiteTold DEF SuiteTells, Complete, ReportTells
<1>3. \A c : Contains(shown, c) => c \in T
  BY <1>1, InItsSuite DEF NoRoomIn
<1>4. \A i \in 1..Len(shown) : shown[i] \in T
  BY <1>3 DEF Contains
<1>5. IsFiniteSet(T)
  <2>1. IsFiniteSet(cases) /\ T \subseteq cases
    BY <1>1 DEF ReportTells, TestCases
  <2> QED
    BY <2>1, FS_Subset
<1>6. Cardinality(T) >= Len(shown) /\ Cardinality(T) \in Nat
  BY <1>2, <1>4, <1>5, EnoughInSet
<1>7. Cardinality(T) >= MaxCasesPerSuite
  BY <1>1, <1>2, <1>6, ReportAssumption DEF NoRoomIn
<1> QED
  BY <1>1, <1>7 DEF FullWithout

\* Its suite is in the report, unless the report is full of others.
LEMMA OwedInReport ==
  ASSUME Complete, NEW p \in Packages, NEW t \in Tests, NEW n \in 1..Runs(p, t), Owed(p, t, n),
         NEW repeat, NEW exit, NEW evidence, NEW packs, NEW cases,
         ReportTells(repeat, exit, evidence, packs, cases)
  PROVE  \/ p \in packs /\ ShowsIn(TestsShown(p, repeat), p, t, n)
         \/ FullWithout(cases, p, t)
<1>1. PICK shown : shown = TestsShown(p, repeat)
  OBVIOUS
<1>2. Contains(packageOrder, p) /\ (ShowsIn(shown, p, t, n) \/ NoRoomIn(shown, t))
  BY <1>1, OwedShown
<1>3. \E c : Contains(shown, c)
  <2>1. CASE ShowsIn(shown, p, t, n)
    BY <2>1 DEF ShowsIn
  <2>2. CASE NoRoomIn(shown, t)
    <3>1. Len(shown) >= 1
      <4>1. shown \in Seq(ToSet(shown))
        BY <1>1, SuiteTold DEF SuiteTells, Complete
      <4> QED
        BY <2>2, <4>1, ReportAssumption DEF NoRoomIn
    <3> QED
      BY <3>1 DEF Contains
  <2> QED
    BY <1>2, <2>1, <2>2
<1>4. SuiteCases(p, repeat) # <<>>
  <2>1. \E c : Contains(SuiteCases(p, repeat), c)
    BY <1>1, <1>3, SuiteHolds DEF SuiteAdds, Complete
  <2> QED
    BY <2>1 DEF Contains
<1>5. p \in packs \/ FullOfOthers(cases, p)
  BY <1>2, <1>4 DEF ReportTells
<1>6. FullOfOthers(cases, p) => FullWithout(cases, p, t)
  BY DEF FullOfOthers, FullWithout
<1>7. p \in packs /\ NoRoomIn(shown, t) => FullWithout(cases, p, t)
  BY <1>1, RoomTaken
<1> QED
  BY <1>1, <1>2, <1>5, <1>6, <1>7
-----------------------------------------------------------------------------
(***************************************************************************)
(* The five things the report promises.                                     *)
(***************************************************************************)
LEMMA AnyReport ==
  ASSUME Complete, NEW repeat, NEW exit
  PROVE  \E packs : ReportTells(repeat, exit, Evidence, packs, Reported(repeat, exit))
BY ReportTold DEF Complete, Reported

\* A case is one of a test, the one a package is blamed with, or the backstop's.
OfTest(c, repeat, packs) ==
  /\ c.kind = "test" /\ c.package \in packs /\ c.test \in Tests
  /\ Contains(TestsShown(c.package, repeat), c)
  /\ Stands(c, c.package, c.test, occurrences[c.package][c.test])

OfPackage(c, repeat, packs) ==
  /\ c.package \in packs /\ c = PackageFailureCase(c.package)
  /\ Blamed(c.package, TestsShown(c.package, repeat))

OfNone(c, repeat, exit, evidence, packs) ==
  /\ c = Unattributed(evidence) /\ exit \notin {NoExit, "zero"}
  /\ \A p \in packs : \A d : Contains(SuiteCases(p, repeat), d) => ~ExplainsAFailure(d)

LEMMA CaseOrigin ==
  ASSUME Complete, NEW repeat, NEW exit, NEW evidence, NEW packs, NEW cases,
         ReportTells(repeat, exit, evidence, packs, cases), NEW c \in cases
  PROVE  \/ OfTest(c, repeat, packs)
         \/ OfPackage(c, repeat, packs)
         \/ OfNone(c, repeat, exit, evidence, packs)
<1>1. CASE \E p \in packs : Contains(SuiteCases(p, repeat), c)
  <2>1. PICK p \in packs : Contains(SuiteCases(p, repeat), c)
    BY <1>1
  <2>2. p \in Packages
    BY DEF ReportTells
  <2>3. SuiteAdds(p, TestsShown(p, repeat), SuiteCases(p, repeat)) /\ SuiteTells(p, TestsShown(p, repeat))
    BY <2>2, SuiteHolds, SuiteTold DEF Complete
  <2>4. CASE Contains(TestsShown(p, repeat), c)
    <3>1. Stands(c, p, c.test, occurrences[p][c.test]) /\ Contains(testOrder[p], c.test)
      BY <2>3, <2>4 DEF SuiteTells
    <3>2. c.test \in Tests
      <4>1. testOrder[p] \in Seq(Tests)
        BY <2>2 DEF Complete, Lists
      <4> QED
        BY <3>1, <4>1 DEF Contains
    <3> QED
      BY <2>4, <3>1, <3>2 DEF OfTest, Stands
  <2>5. CASE Blamed(p, TestsShown(p, repeat)) /\ c = PackageFailureCase(p)
    <3>1. c.package = p
      BY <2>5 DEF PackageFailureCase, NewCase
    <3> QED
      BY <2>5, <3>1 DEF OfPackage
  <2> QED
    BY <2>1, <2>3, <2>4, <2>5 DEF SuiteAdds
<1>2. CASE ~ \E p \in packs : Contains(SuiteCases(p, repeat), c)
  BY <1>2 DEF ReportTells, OfNone
<1> QED
  BY <1>1, <1>2

\* A case of a package tells of a package that failed.
LEMMA BlameTold ==
  ASSUME Complete, NEW c, NEW repeat, NEW packs, packs \subseteq Packages, OfPackage(c, repeat, packs)
  PROVE  c.kind \in {"build", "package"} /\ c.package \in red /\ ExplainsAFailure(c)
<1>1. PICK p \in Packages : p = c.package
  BY DEF OfPackage
<1>2. package[p].status = "fail" /\ p \in red
  BY <1>1 DEF OfPackage, Blamed, Complete, PackagesTold
<1>3. c.status = "error" /\ c.kind \in {"build", "package"}
  BY <1>1 DEF OfPackage, PackageFailureCase, NewCase
<1> QED
  BY <1>1, <1>2, <1>3 DEF ExplainsAFailure, IsFailure

LEMMA FailuresReportedThen == ASSUME Complete PROVE FailuresReported
<1>1. ASSUME NEW repeat, NEW exit, NEW p \in Packages, NEW t \in Tests, NEW cases,
             cases = Reported(repeat, exit), NEW n \in DOMAIN executions[p][t], Owed(p, t, n)
      PROVE  (\E case \in TestCases(cases, p) : Shows(case, p, t, n)) \/ FullWithout(cases, p, t)
  <2>1. PICK packs : ReportTells(repeat, exit, Evidence, packs, cases)
    BY <1>1, AnyReport
  <2>2. n \in 1..Runs(p, t)
    BY <1>1, RecordedAsRed
  <2>3. CASE p \in packs /\ ShowsIn(TestsShown(p, repeat), p, t, n)
    BY <2>1, <2>3, InItsSuite DEF ShowsIn
  <2> QED
    BY <1>1, <2>1, <2>2, <2>3, OwedInReport
<1> QED
  BY <1>1 DEF FailuresReported, AllReported, Shows

\* Where nothing explains a failure, none was owed that there is room for.
Unseen(cases, p) ==
  \A t \in Tests : \/ Trimmed(p, t)
                   \/ FullWithout(cases, p, t)
                   \/ \A n \in DOMAIN executions[p][t] : ~Owed(p, t, n)

LEMMA UnseenThen ==
  ASSUME Complete, NEW repeat, NEW exit, NEW evidence, NEW packs, NEW cases,
         ReportTells(repeat, exit, evidence, packs, cases), NEW p \in Packages,
         p \in packs => \A c : Contains(TestsShown(p, repeat), c) => ~ExplainsAFailure(c)
  PROVE  Unseen(cases, p)
<1> SUFFICES ASSUME NEW t \in Tests, ~Trimmed(p, t), NEW n \in DOMAIN executions[p][t], Owed(p, t, n)
             PROVE  FullWithout(cases, p, t)
  BY DEF Unseen
<1>1. n \in 1..Runs(p, t)
  BY RecordedAsRed
<1>2. ~ (p \in packs /\ ShowsIn(TestsShown(p, repeat), p, t, n))
  BY DEF ShowsIn
<1> QED
  BY <1>1, <1>2, OwedInReport

LEMMA NothingInventedThen == ASSUME Complete PROVE NothingInvented
<1> DEFINE Told2(c, cases) ==
      CASE c.kind = "test" -> \E n \in DOMAIN executions[c.package][c.test] : Failing(c.package, c.test, n)
        [] c.kind \in {"package", "build"} -> c.package \in red /\ Unseen(cases, c.package)
        [] c.kind = "unattributed" -> childExit # "zero" /\ \A p \in Packages : Unseen(cases, p)
<1>1. ASSUME NEW repeat, NEW exit \in Observations, NEW cases, cases = Reported(repeat, exit),
             NEW c \in cases, IsFailure(c.status)
      PROVE  Told2(c, cases)
  <2>1. PICK packs : ReportTells(repeat, exit, Evidence, packs, cases)
    BY <1>1, AnyReport
  <2>2. packs \subseteq Packages
    BY <2>1 DEF ReportTells
  <2>3. CASE OfTest(c, repeat, packs)
    <3>1. PICK p \in Packages, t \in Tests : p = c.package /\ t = c.test
      BY <2>2, <2>3 DEF OfTest
    <3>2. PICK m : m = IF c.repeat = 0 THEN Len(occurrences[p][t]) ELSE c.repeat
      OBVIOUS
    <3>3. m \in 1..Runs(p, t) /\ IsFailure(occurrences[p][t][m].status)
      <4>1. Stands(c, p, t, occurrences[p][t])
        BY <2>3, <3>1 DEF OfTest
      <4>2. m \in 1..Len(occurrences[p][t])
        <5>1. occurrences[p][t] # <<>> /\ c.repeat \in 0..Len(occurrences[p][t])
              /\ Len(occurrences[p][t]) \in Nat
          BY <4>1, RecordedAsRed DEF Stands
        <5> QED
          BY <3>2, <5>1, RecordedAsRed
      <4>3. c.status = occurrences[p][t][m].status
        BY <3>2, <4>1 DEF Stands, Told1
      <4> QED
        BY <1>1, <4>2, <4>3, RecordedAsRed
    <3>4. m \in DOMAIN executions[p][t] /\ Failing(p, t, m)
      BY <3>3, RecordedAsRed
    <3> QED
      BY <2>3, <3>1, <3>4 DEF OfTest
  <2>4. CASE OfPackage(c, repeat, packs)
    <3>1. c.kind \in {"build", "package"} /\ c.package \in red /\ c.package \in Packages
      BY <2>2, <2>4, BlameTold DEF OfPackage
    <3>2. \A d : Contains(TestsShown(c.package, repeat), d) => ~ExplainsAFailure(d)
      BY <2>4 DEF OfPackage, Blamed
    <3>3. Unseen(cases, c.package)
      BY <2>1, <3>1, <3>2, UnseenThen
    <3> QED
      BY <3>1, <3>3
  <2>5. CASE OfNone(c, repeat, exit, Evidence, packs)
    <3>1. c.kind = "unattributed"
      BY <2>5 DEF OfNone, Unattributed, NewCase
    <3>2. childExit # "zero"
      BY <2>5 DEF OfNone, Observations
    <3>3. ASSUME NEW p \in Packages PROVE Unseen(cases, p)
      <4>1. ASSUME p \in packs, NEW d, Contains(TestsShown(p, repeat), d) PROVE ~ExplainsAFailure(d)
        <5>1. Contains(SuiteCases(p, repeat), d)
          BY <4>1, SuiteHolds DEF SuiteAdds, Complete
        <5> QED
          BY <2>5, <4>1, <5>1 DEF OfNone
      <4> QED
        BY <2>1, <4>1, UnseenThen
    <3> QED
      BY <3>1, <3>2, <3>3
  <2> QED
    BY <2>1, <2>3, <2>4, <2>5, CaseOrigin
<1>2. \A cases \in AllReported : \A c \in {d \in cases : IsFailure(d.status)} : Told2(c, cases)
  <2> HIDE DEF Told2
  <2> QED
    BY <1>1 DEF AllReported
<1> QED
  BY <1>2, Zenon DEF NothingInvented, Unseen

LEMMA NeverGreenerThen == ASSUME Complete PROVE NeverGreener
<1> SUFFICES ASSUME command.files = 1, NEW repeat, NEW exit \in Observations, NEW cases,
                    cases = Reported(repeat, exit)
             PROVE  /\ \A p \in red : \/ \E c \in cases : ExplainsAFailure(c) /\ c.package = p
                                      \/ FullOfOthers(cases, p)
                    /\ exit \notin {NoExit, "zero"} => \E c \in cases : ExplainsAFailure(c)
  BY DEF NeverGreener, FullOfOthers
<1>1. PICK packs : ReportTells(repeat, exit, Evidence, packs, cases)
  BY AnyReport
<1>2. ASSUME NEW p \in red, ~FullOfOthers(cases, p)
      PROVE  \E c \in cases : ExplainsAFailure(c) /\ c.package = p
  <2>1. p \in Packages /\ package[p].status = "fail" /\ Contains(packageOrder, p)
    <3>1. "fail" # None
      BY DEF None
    <3> QED
      BY <3>1 DEF Complete, PackagesTold
  <2>2. SuiteAdds(p, TestsShown(p, repeat), SuiteCases(p, repeat))
    BY <2>1, SuiteHolds DEF Complete
  <2>3. ExplainsAFailure(PackageFailureCase(p))
    BY DEF PackageFailureCase, NewCase, ExplainsAFailure, IsFailure
  <2>4. PICK c : Contains(SuiteCases(p, repeat), c) /\ ExplainsAFailure(c)
    BY <2>1, <2>2, <2>3 DEF SuiteAdds, Blamed
  <2>5. SuiteCases(p, repeat) # <<>>
    BY <2>4 DEF Contains
  <2>6. p \in packs
    BY <1>1, <1>2, <2>1, <2>5 DEF ReportTells
  <2>7. c \in cases
    BY <1>1, <2>4, <2>6 DEF ReportTells
  <2>8. c.package = p
    BY <2>1, <2>4, SuiteIsOfPackage DEF Complete
  <2> QED
    BY <2>4, <2>7, <2>8
<1>3. ASSUME exit \notin {NoExit, "zero"} PROVE \E c \in cases : ExplainsAFailure(c)
  <2>1. CASE \E p \in packs : \E c : Contains(SuiteCases(p, repeat), c) /\ ExplainsAFailure(c)
    BY <1>1, <2>1 DEF ReportTells
  <2>2. CASE ~ \E p \in packs : \E c : Contains(SuiteCases(p, repeat), c) /\ ExplainsAFailure(c)
    <3>1. Unattributed(Evidence) \in cases
      BY <1>1, <1>3, <2>2 DEF ReportTells
    <3>2. ExplainsAFailure(Unattributed(Evidence))
      BY DEF Unattributed, NewCase, ExplainsAFailure, IsFailure
    <3> QED
      BY <3>1, <3>2
  <2> QED
    BY <2>1, <2>2
<1> QED
  BY <1>2, <1>3

LEMMA TrimmedKeepsLast ==
  ASSUME NEW V, NEW s \in Seq(V), Len(s) > MaxAttemptsPerCase
  PROVE  Len(TrimAttempts(s)) = MaxAttemptsPerCase /\ Last(TrimAttempts(s)) = Last(s)
<1>1. Len(s) \in Nat /\ MaxAttemptsPerCase \in Nat \ {0}
  BY ReportAssumption
<1>2. PICK u : u = SubSeq(s, 1, MaxAttemptsPerCase - 1)
  OBVIOUS
<1>3. u \in Seq(V) /\ Len(u) = MaxAttemptsPerCase - 1 /\ Last(s) \in V
  BY <1>1, <1>2 DEF Last
<1>4. PICK w : w = Append(u, Last(s))
  OBVIOUS
<1>5. Len(w) = MaxAttemptsPerCase /\ Last(w) = Last(s)
  BY <1>1, <1>3, <1>4, AppendProperties DEF Last
<1> QED
  BY <1>1, <1>2, <1>4, <1>5 DEF TrimAttempts

Reflects(c, outcomes) ==
  /\ c.status = Last(outcomes)
  /\ IF Trimmed(c.package, c.test)
     THEN /\ Len(c.attempts) = MaxAttemptsPerCase
          /\ Last(c.attempts) = Last(outcomes)
     ELSE Len(outcomes) > 1 => c.attempts = outcomes
  /\ c.flaky <=> /\ ~IsFailure(Last(outcomes))
                 /\ \E n \in DOMAIN outcomes : IsFailure(outcomes[n])

LEMMA CollapsedMirrors ==
  ASSUME Complete, command.files = 1, NEW repeat, NEW exit, NEW c \in Reported(repeat, exit),
         c.kind = "test", c.repeat = 0, NEW outcomes, outcomes = Outcomes(c.package, c.test)
  PROVE  Reflects(c, outcomes)
<1>1. PICK packs : ReportTells(repeat, exit, Evidence, packs, Reported(repeat, exit))
  BY AnyReport
<1>2. OfTest(c, repeat, packs)
  <2>1. ~OfPackage(c, repeat, packs)
    BY <1>1, BlameTold DEF ReportTells
  <2>2. ~OfNone(c, repeat, exit, Evidence, packs)
    BY DEF OfNone, Unattributed, NewCase
  <2> QED
    BY <1>1, <2>1, <2>2, CaseOrigin
<1>3. PICK p \in Packages, t \in Tests : p = c.package /\ t = c.test
  BY <1>1, <1>2 DEF OfTest, ReportTells
<1>4. PICK occs, last : occs = occurrences[p][t] /\ last = Runs(p, t)
  OBVIOUS
<1>5. Stands(c, p, t, occs)
  BY <1>2, <1>3, <1>4 DEF OfTest
<1>6. /\ occs \in Seq(Recorded) /\ Len(occs) = last /\ last \in Nat \ {0}
      /\ DOMAIN executions[p][t] = 1..last
      /\ \A n \in 1..last : occs[n].status = Outcome(p, t, n)
  BY <1>4, <1>5, RecordedAsRed DEF Stands
<1>7. outcomes = [n \in 1..last |-> occs[n].status]
  BY <1>3, <1>6 DEF Outcomes
<1>8. outcomes = Attempted(occs) /\ Len(outcomes) = last /\ Last(outcomes) = occs[last].status
      /\ DOMAIN outcomes = 1..last
  BY <1>6, <1>7 DEF Attempted, Last
<1>9. PICK V : outcomes \in Seq(V)
  BY <1>6, <1>8, AttemptsListed
<1>10. /\ c.status = Last(outcomes) /\ c.attempts = TrimAttempts(outcomes)
       /\ c.flaky <=> last > 1 /\ ~IsFailure(c.status) /\ FailedEarlier(occs)
  BY <1>5, <1>6, <1>8 DEF Stands, Told1
<1>11. Trimmed(p, t) => /\ Len(c.attempts) = MaxAttemptsPerCase
                        /\ Last(c.attempts) = Last(outcomes)
  <2>1. Trimmed(p, t) => Len(outcomes) > MaxAttemptsPerCase
    BY <1>4, <1>8 DEF Trimmed, Runs
  <2> QED
    BY <1>9, <1>10, <2>1, TrimmedKeepsLast
<1>12. ~Trimmed(p, t) /\ last > 1 => c.attempts = outcomes
  <2>1. ~Trimmed(p, t) /\ last > 1 => last <= MaxAttemptsPerCase /\ ~ (last < 2)
    BY <1>4, <1>6, ReportAssumption DEF Trimmed, Runs
  <2> QED
    BY <1>8, <1>10, <2>1 DEF TrimAttempts
<1>13. c.flaky <=> ~IsFailure(Last(outcomes)) /\ \E n \in 1..last : IsFailure(outcomes[n])
  <2>1. FailedEarlier(occs) <=> \E n \in 1..last - 1 : IsFailure(outcomes[n])
    <3>1. \A n \in 1..last - 1 : n \in 1..last
      BY <1>6
    <3> QED
      BY <1>6, <1>7, <3>1 DEF FailedEarlier
  <2>2. ~IsFailure(Last(outcomes)) =>
          ((\E n \in 1..last : IsFailure(outcomes[n])) <=> last > 1 /\ \E n \in 1..last - 1 : IsFailure(outcomes[n]))
    <3>1. \A n \in 1..last : n = last \/ (last > 1 /\ n \in 1..last - 1)
      BY <1>6
    <3>2. \A n \in 1..last - 1 : n \in 1..last
      BY <1>6
    <3>3. Last(outcomes) = outcomes[last]
      BY <1>6, <1>7, <1>8
    <3> QED
      BY <3>1, <3>2, <3>3
  <2> QED
    BY <1>10, <2>1, <2>2, Zenon
<1> QED
  BY <1>3, <1>8, <1>10, <1>11, <1>12, <1>13 DEF Reflects

LEMMA CasesMirrorThen == ASSUME Complete PROVE CasesMirrorExecutions
<1>1. command.files = 1 => \A cases \in AllReported : \A c \in cases :
        c.kind = "test" /\ c.repeat = 0 => Reflects(c, Outcomes(c.package, c.test))
  BY CollapsedMirrors DEF AllReported
<1> QED
  BY <1>1 DEF CasesMirrorExecutions, Reflects
-----------------------------------------------------------------------------
(***************************************************************************)
(* What a failing case carries.                                             *)
(***************************************************************************)
\* The lines of a text are those it was joined from, whether the last was ended or not.
LEMMA LinesOfJoined ==
  ASSUME NEW lines \in Seq(Seq(Symbols)), NEW text \in Texts(Symbols, NL),
         Joined(lines, NL) \in {text, Terminated(text)}
  PROVE  LinesOf(text) = lines
<1>1. NL \notin Symbols
  BY SymbolsAssumption
<1>2. PICK A : A = Seq(Symbols)
  OBVIOUS
<1>3. PICK pieces : pieces = Split(text, NL)
  OBVIOUS
<1>4. CASE Joined(lines, NL) = text
  <2>1. pieces = Append(lines, <<>>)
    BY <1>1, <1>3, <1>4, SplitOfJoined
  <2>2. lines \in Seq(A) /\ <<>> \in A
    BY <1>2
  <2>3. pieces \in Seq(A) /\ Len(pieces) = Len(lines) + 1 /\ Last(pieces) = <<>> /\ Front(pieces) = lines
    <3>1. PICK empty : empty = <<>> /\ empty \in A
      BY <2>2
    <3>2. /\ pieces = Append(lines, empty) /\ pieces \in Seq(A) /\ Len(pieces) = Len(lines) + 1
          /\ pieces[Len(lines) + 1] = empty /\ \A i \in 1..Len(lines) : pieces[i] = lines[i]
      BY <2>1, <2>2, <3>1, AppendProperties
    <3>3. Len(lines) \in Nat /\ pieces # <<>>
      BY <2>2, <3>2
    <3>4. Front(pieces) \in Seq(A) /\ Len(Front(pieces)) = Len(lines)
          /\ \A i \in 1..Len(lines) : Front(pieces)[i] = lines[i]
      <4>1. Front(pieces) \in Seq(A) /\ Len(Front(pieces)) = Len(pieces) - 1
            /\ \A i \in 1..Len(pieces) - 1 : Front(pieces)[i] = pieces[i]
        BY ONLY <3>2, <3>3, FrontProperties
      <4>2. Len(pieces) - 1 = Len(lines)
        BY <3>2, <3>3
      <4> QED
        BY <3>2, <4>1, <4>2
    <3>5. Front(pieces) = lines
      BY ONLY <2>2, <3>4, SeqEqual
    <3> QED
      BY <3>1, <3>2, <3>5 DEF Last
  <2> QED
    BY <1>3, <2>3 DEF LinesOf
<1>5. CASE Joined(lines, NL) # text
  <2>1. text # <<>> /\ Last(text) # NL /\ Joined(lines, NL) = Append(text, NL)
    BY <1>5 DEF Terminated
  <2>2. pieces = lines
    BY <1>1, <1>3, <2>1, SplitOfUnended
  <2>3. Last(pieces) # <<>>
    <3> SUFFICES ASSUME Last(pieces) = <<>> PROVE FALSE
      OBVIOUS
    <3>1. PICK front : front = Front(pieces)
      OBVIOUS
    <3>2. front \in Seq(A) /\ Joined(front, NL) \o <<>> = text
      BY <1>2, <1>3, <3>1, SplitTyped, SplitKeepsText
    <3>3. Joined(front, NL) = text
      <4>1. Joined(front, NL) \in Seq(Bytes)
        BY <1>2, <3>2, JoinedTyped DEF Texts, Bytes
      <4> QED
        BY <3>2, <4>1, ConcatEmptySeq
    <3> QED
      BY <1>2, <2>1, <3>2, <3>3, JoinedEnds
  <2> QED
    BY <1>3, <2>2, <2>3 DEF LinesOf
<1> QED
  BY <1>4, <1>5

\* The lines of what an execution printed are those filed under it.
LEMMA LinesOfRun ==
  ASSUME Complete, OutputAttributed, command.files = 1, NEW p \in Packages, NEW t \in Tests,
         partial[<<p, t>>] = <<>>, NEW n \in 1..Runs(p, t)
  PROVE  LinesOf(executions[p][t][n].text) = occurrences[p][t][n].lines
<1>1. PICK lines, text : lines = occurrences[p][t][n].lines /\ text = executions[p][t][n].text
  OBVIOUS
<1>2. occurrences[p][t] \in Seq(Recorded) /\ Len(occurrences[p][t]) = Runs(p, t)
      /\ executions[p][t] \in Seq(Execution) /\ DOMAIN executions[p][t] = 1..Runs(p, t)
  BY RecordedAsRed DEF Complete, ToolchainTypes
<1>3. lines \in Seq(Seq(Symbols)) /\ text \in Texts(Symbols, NL)
  <2>1. occurrences[p][t][n] \in Recorded /\ executions[p][t][n] \in Execution
    BY <1>2
  <2> QED
    BY <1>1, <2>1 DEF Recorded, Execution, Pieces, Bytes, Texts
<1>4. TextBelongs(finished, command.files, occurrences[p][t], executions[p][t], partial[<<p, t>>])
  BY Zenon DEF OutputAttributed, TextBelongs
<1>5. PICK told : told = Joined(lines, NL)
  OBVIOUS
<1>6. told = text \/ told = Terminated(text)
  <2>1. told \o <<>> = told
    BY <1>3, <1>5, JoinedTyped DEF Texts
  <2>2. PICK occs, runs, filed : /\ occs = occurrences[p][t] /\ runs = executions[p][t]
                                /\ filed = [m \in DOMAIN runs |-> Joined(occs[m].lines, NL)]
    OBVIOUS
  <2>3. \A m \in DOMAIN runs :
          \/ filed[m] \o (IF m = Len(runs) THEN <<>> ELSE <<>>) = runs[m].text
          \/ filed[m] \o (IF m = Len(runs) THEN <<>> ELSE <<>>) = Terminated(runs[m].text)
    BY <1>4, <2>2, Zenon DEF TextBelongs
  <2>4. n \in DOMAIN runs /\ filed[n] = told /\ runs[n].text = text
    BY <1>1, <1>2, <1>5, <2>2
  <2> QED
    BY <2>1, <2>3, <2>4
<1> QED
  BY <1>1, <1>3, <1>5, <1>6, LinesOfJoined

\* What the compiler said of a package is kept until the package is reported, and after.
Compiled ==
  /\ buildOutput \in [ImportPaths -> Seq(Seq(Bytes) \ {<<>>})]
  /\ \A p \in Packages : process[p] = "broken" \/ package[p].failedBuild # NoBinary =>
       buildOutput[Binary[p]] # <<>>

\* The head of a text has something in it.
LEMMA SomeHead ==
  ASSUME NEW V, NEW text \in Seq(V), text # <<>>
  PROVE  Truncate(text, MaxCaseErrorRunes) # <<>>
<1>1. MaxCaseErrorRunes \in Nat \ {0} /\ Len(text) \in Nat \ {0}
  BY ReportAssumption
<1>2. PICK m : m = IF Len(text) <= MaxCaseErrorRunes THEN Len(text) ELSE MaxCaseErrorRunes
  OBVIOUS
<1>3. m \in 1..Len(text)
  BY <1>1, <1>2
<1>4. Len(SubSeq(text, 1, m)) = m
  BY <1>3, SubSeqProperties
<1> QED
  BY <1>2, <1>3, <1>4 DEF Truncate

\* The texts of the reporter's own are never empty.
LEMMA OneRune ==
  ASSUME NEW text, NEW e, text = <<e>>
  PROVE  text # <<>> /\ Truncate(text, MaxCaseErrorRunes) # <<>>
<1>1. text \in Seq({e}) /\ text # <<>>
  OBVIOUS
<1> QED
  BY <1>1, SomeHead

LEMMA SomeText ==
  /\ Truncate(NotAttributed, MaxCaseErrorRunes) # <<>>
  /\ Truncate(NothingSeen, MaxCaseErrorRunes) # <<>>
BY OneRune, Zenon DEF NotAttributed, NothingSeen

\* Chunks that are not empty make a text that is not empty.
LEMMA SomeOutput ==
  ASSUME NEW chunks \in Seq(Seq(Bytes) \ {<<>>}), chunks # <<>>
  PROVE  FlattenSeq(chunks) \in Seq(Bytes) /\ FlattenSeq(chunks) # <<>>
<1>1. PICK A, C : A = Seq(Bytes) /\ C = A \ {<<>>}
  OBVIOUS
<1>2. PICK front, last : front = Front(chunks) /\ last = Last(chunks)
  OBVIOUS
<1>3. front \in Seq(C) /\ last \in C /\ chunks = Append(front, last)
  BY <1>1, <1>2, FrontAndLast
<1>4. front \in Seq(A) /\ last \in A
  BY <1>1, <1>3, SeqMonotonic
<1>5. PICK f : f = FlattenSeq(front) /\ f \in Seq(Bytes)
  BY <1>1, <1>4, FlattenProperties
<1>6. FlattenSeq(chunks) = f \o last
  BY <1>1, <1>3, <1>4, <1>5, FlattenProperties
<1>7. last \in Seq(Bytes) /\ last # <<>>
  BY <1>1, <1>3
<1>8. Len(f \o last) = Len(f) + Len(last) /\ Len(f) \in Nat /\ Len(last) \in Nat \ {0}
  BY <1>5, <1>7
<1>9. f \o last # <<>> /\ f \o last \in Seq(Bytes)
  BY <1>5, <1>7, <1>8
<1> QED
  BY <1>6, <1>9

\* A case of a package shows what the compiler said of it, or something.
LEMMA BlameShows ==
  ASSUME Complete, Compiled, NEW c, NEW repeat, NEW packs, packs \subseteq Packages,
         OfPackage(c, repeat, packs)
  PROVE  /\ c.kind = "build" =>
              c.error = Truncate(FlattenSeq(buildOutput[Binary[c.package]]), MaxCaseErrorRunes)
         /\ c.kind = "package" => c.error # <<>>
<1>1. PICK p \in Packages : p = c.package
  BY DEF OfPackage
<1>2. package[p].failedBuild \in {NoBinary, Binary[p]} /\ package[p].lines = <<>>
  BY <1>1 DEF Complete, PackagesTold, PackagesSilent
<1>3. PICK binary, output : binary = package[p].failedBuild /\ output = buildOutput[binary]
  OBVIOUS
<1>4. PICK text : text = IF binary # NoBinary /\ output # <<>> THEN FlattenSeq(output)
                         ELSE Join(package[p].lines, NL)
  OBVIOUS
<1>5. /\ c.kind = (IF binary # NoBinary THEN "build" ELSE "package")
      /\ c.error = TruncateOr(text, MaxCaseErrorRunes, NotAttributed)
  BY <1>1, <1>3, <1>4 DEF OfPackage, PackageFailureCase, NewCase
<1>6. CASE binary # NoBinary
  <2>1. binary = Binary[p] /\ Binary[p] \in ImportPaths
    BY <1>2, <1>3, <1>6, BinaryAssumption
  <2>2. output \in Seq(Seq(Bytes) \ {<<>>}) /\ output # <<>>
    BY <1>3, <1>6, <2>1 DEF Compiled
  <2>3. text = FlattenSeq(output)
    BY <1>4, <1>6, <2>2
  <2>4. Truncate(text, MaxCaseErrorRunes) # <<>>
    BY <2>2, <2>3, SomeOutput, SomeHead
  <2> QED
    BY <1>1, <1>3, <1>5, <1>6, <2>1, <2>3, <2>4 DEF TruncateOr
<1>7. CASE binary = NoBinary
  <2>1. c.kind = "package"
    BY <1>5, <1>7
  <2>2. c.error # <<>>
    BY <1>5, SomeText DEF TruncateOr
  <2> QED
    BY <2>1, <2>2
<1> QED
  BY <1>6, <1>7

\* The evidence of the backstop is some text.
LEMMA EvidenceShown ==
  ASSUME NEW c, c = Unattributed(Evidence)
  PROVE  c.kind = "unattributed" /\ c.error # <<>>
<1>1. PICK text : text = IF Evidence = <<>> THEN NothingSeen ELSE Evidence
  OBVIOUS
<1>2. c.kind = "unattributed" /\ c.error = Truncate(text, MaxCaseErrorRunes)
  BY <1>1 DEF Unattributed, NewCase
<1>3. \E e : text = <<e>>
  <2>1. (\E e : Preamble = <<e>>) \/ Preamble = <<>>
    BY Zenon DEF Preamble
  <2>2. (\E e : Stderr = <<e>>) \/ Stderr = <<>>
    BY Zenon DEF Stderr
  <2>3. \E e : NothingSeen = <<e>>
    BY Zenon DEF NothingSeen
  <2> QED
    BY <1>1, <2>1, <2>2, <2>3, Zenon DEF Evidence
<1> QED
  BY <1>2, <1>3, OneRune

Carries(c, n) ==
  CASE c.kind = "test" ->
         command.files = 1 =>
           c.error = Truncate(Join(Said(executions[c.package][c.test][n].text), NL), MaxCaseErrorRunes)
    [] c.kind = "build" ->
         c.error = Truncate(FlattenSeq(buildOutput[Binary[c.package]]), MaxCaseErrorRunes)
    [] c.kind \in {"package", "unattributed"} -> c.error # <<>>

LEMMA CaseCarries ==
  ASSUME Complete, Compiled, OutputAttributed, \A k \in Keys : partial[k] = <<>>,
         NEW repeat, NEW exit, NEW c \in Reported(repeat, exit), IsFailure(c.status), NEW n,
         n = IF c.repeat = 0 THEN Len(executions[c.package][c.test]) ELSE c.repeat
  PROVE  Carries(c, n)
<1>1. PICK packs : ReportTells(repeat, exit, Evidence, packs, Reported(repeat, exit)) /\ packs \subseteq Packages
  BY AnyReport DEF ReportTells
<1>2. CASE OfPackage(c, repeat, packs)
  <2>1. c.kind \in {"build", "package"}
    BY <1>1, <1>2, BlameTold
  <2>2. /\ c.kind = "build" =>
             c.error = Truncate(FlattenSeq(buildOutput[Binary[c.package]]), MaxCaseErrorRunes)
        /\ c.kind = "package" => c.error # <<>>
    BY <1>1, <1>2, BlameShows
  <2> QED
    BY <2>1, <2>2 DEF Carries
<1>3. CASE OfNone(c, repeat, exit, Evidence, packs)
  <2>1. c.kind = "unattributed" /\ c.error # <<>>
    BY <1>3, EvidenceShown DEF OfNone
  <2> QED
    BY <2>1 DEF Carries
<1>4. CASE OfTest(c, repeat, packs)
  <2>0. c.kind = "test"
    BY <1>4 DEF OfTest
  <2> SUFFICES ASSUME command.files = 1
               PROVE  c.error = Truncate(Join(Said(executions[c.package][c.test][n].text), NL),
                                         MaxCaseErrorRunes)
    BY <2>0 DEF Carries
  <2>1. PICK p \in Packages, t \in Tests : p = c.package /\ t = c.test
    BY <1>1, <1>4 DEF OfTest
  <2>2. PICK occs : occs = occurrences[p][t]
    OBVIOUS
  <2>3. Stands(c, p, t, occs)
    BY <1>4, <2>1, <2>2 DEF OfTest
  <2>4. occs \in Seq(Recorded) /\ Len(occs) = Runs(p, t) /\ Runs(p, t) \in Nat /\ occs # <<>>
    BY <2>2, <2>3, RecordedAsRed DEF Stands
  <2>5. n \in 1..Runs(p, t) /\ Told1(c, occs) = occs[n]
    BY <2>1, <2>3, <2>4 DEF Stands, Told1, Runs
  <2>6. PICK text : text = executions[p][t][n].text
    OBVIOUS
  <2>7. LinesOf(text) = occs[n].lines
    <3>1. partial[<<p, t>>] = <<>>
      BY DEF Keys
    <3> QED
      BY <2>2, <2>5, <2>6, <3>1, LinesOfRun
  <2>8. Said(text) = PlainLines(occs[n])
    BY <2>7, Zenon DEF Said, PlainLines
  <2>9. c.error = ErrorText(occs[n])
    BY <2>3, <2>5 DEF Stands
  <2> QED
    BY <2>1, <2>6, <2>8, <2>9 DEF ErrorText
<1> QED
  BY <1>1, <1>2, <1>3, <1>4, CaseOrigin

LEMMA EvidenceThen ==
  ASSUME Complete, Compiled, OutputAttributed, \A k \in Keys : partial[k] = <<>>
  PROVE  FailuresCarryEvidence
<1>1. \A cases \in AllReported : \A c \in cases : IsFailure(c.status) =>
        Carries(c, IF c.repeat = 0 THEN Len(executions[c.package][c.test]) ELSE c.repeat)
  BY CaseCarries DEF AllReported
<1> QED
  BY <1>1 DEF FailuresCarryEvidence, Carries
-----------------------------------------------------------------------------
(***************************************************************************)
(* What the report is read from, kept while the stream is read.             *)
(***************************************************************************)
Books == Lists /\ Seen /\ PackagesTold

\* What the steps leave of the order of packages.
PackagesKept == \A q : Contains(packageOrder, q) => Contains(packageOrder', q)

\* An event adds to the list of its own package only, and there its own test only.
LEMMA EventRegisters ==
  ASSUME Types, Lists, NEW ev, Named(ev), Add(ev)
  PROVE  /\ PackagesKept
         /\ \/ UNCHANGED testOrder
            \/ /\ ev.package \in Packages /\ ev.test \in Tests
               /\ \A q \in Packages : \A u : Contains(testOrder'[q], u) =>
                    Contains(testOrder[q], u) \/ (q = ev.package /\ u = ev.test)
         /\ ev.importPath = NoBinary /\ ev.package \in Packages => Contains(packageOrder', ev.package)
<1>1. ASSUME NEW p \in Packages, packageOrder' = Registered(packageOrder, p)
      PROVE  PackagesKept /\ Contains(packageOrder', p)
  BY <1>1, RegisteredName DEF Lists, Registration, PackagesKept
<1>2. ASSUME NEW p \in Packages, NEW t \in Tests, testOrder' = [testOrder EXCEPT ![p] = Registered(@, t)]
      PROVE  \A q \in Packages : \A u : Contains(testOrder'[q], u) =>
               Contains(testOrder[q], u) \/ (q = p /\ u = t)
  <2>1. testOrder \in [Packages -> Seq(Tests)]
    BY DEF Lists
  <2>2. PICK names : names = Registered(testOrder[p], t)
    OBVIOUS
  <2>3. Registration(testOrder[p], t, names)
    BY <2>1, <2>2, RegisteredName
  <2>4. testOrder'[p] = names /\ \A q \in Packages : q # p => testOrder'[q] = testOrder[q]
    BY <1>2, <2>1, <2>2
  <2> QED
    BY <2>3, <2>4 DEF Registration
<1>3. CASE AddBuild(ev)
  BY <1>3 DEF AddBuild, PackagesKept
<1>4. CASE AddNothing(ev)
  BY <1>4, NamesAssumption DEF AddNothing, PackagesKept
<1>5. CASE AddOutput(ev)
  <2>1. ev.package \in Packages /\ packageOrder' = Registered(packageOrder, ev.package)
    BY <1>5 DEF AddOutput, Named
  <2>2. \/ UNCHANGED testOrder
        \/ ev.test # NoTest /\ testOrder' = [testOrder EXCEPT ![ev.package] = Registered(@, ev.test)]
    BY <1>5, Zenon DEF AddOutput
  <2> QED
    BY <1>1, <1>2, <2>1, <2>2 DEF Named
<1>6. CASE AddPackage(ev)
  <2>1. ev.package \in Packages /\ packageOrder' = Registered(packageOrder, ev.package)
        /\ UNCHANGED testOrder
    BY <1>6 DEF AddPackage, Named
  <2> QED
    BY <1>1, <2>1
<1>7. CASE Registers(ev)
  <2>1. /\ ev.package \in Packages /\ packageOrder' = Registered(packageOrder, ev.package)
        /\ ev.test \in Tests /\ testOrder' = [testOrder EXCEPT ![ev.package] = Registered(@, ev.test)]
    BY <1>7 DEF Registers, Named
  <2> QED
    BY <1>1, <1>2, <2>1
<1>8. AddRun(ev) \/ AddTerminal(ev) \/ AddOther(ev) => Registers(ev)
  BY Zenon DEF AddRun, AddTerminal, AddOther
<1> QED
  BY <1>3, <1>4, <1>5, <1>6, <1>7, <1>8, Zenon DEF Add

\* A step on one test, by the event it sends.
LEMMA TestBooks ==
  ASSUME Types, Books, NEW p \in Packages, NEW t \in Tests, NEW runs, NEW occs, NEW held,
         TestStep(p, t, runs, occs, held), Len(occs) \in Nat \ {0},
         UNCHANGED red, UNCHANGED process \/ (process[p] = "running" /\ process' = [process EXCEPT ![p] = "failing"]),
         process \in [Packages -> Stages],
         NEW ev, Named(ev), Add(ev), ev.package = p, ev.test = t
  PROVE  Books'
<1>1. Lists'
  BY EventListed DEF Books
<1>2. PackagesKept /\ \A q \in Packages : \A u : Contains(testOrder'[q], u) =>
                        Contains(testOrder[q], u) \/ (q = p /\ u = t)
  BY EventRegisters DEF Books
<1>3. \A q \in Packages, u \in Tests :
        occurrences'[q][u] = IF q = p /\ u = t THEN occs ELSE occurrences[q][u]
  BY DEF TestStep, Changed, Types
<1>4. occs # <<>>
  OBVIOUS
<1>5. Seen'
  BY <1>2, <1>3, <1>4 DEF Seen, Books
<1>6. UNCHANGED <<package, command>>
  BY DEF TestStep, Steady
<1>7. \A q \in Packages : process[q] = "reported" => process'[q] = "reported"
  OBVIOUS
<1>8. PackagesTold'
  BY <1>2, <1>6, <1>7 DEF PackagesTold, PackagesKept, Books
<1> QED
  BY <1>1, <1>5, <1>8 DEF Books

\* A step that changes no test, with the event it sends if there is one.
LEMMA AroundBooks ==
  ASSUME Types, Books, UNCHANGED <<occurrences, command>>, PackagesTold',
         UNCHANGED builderVars \/ \E ev : Named(ev) /\ Add(ev) /\ ev.test = NoTest
  PROVE  Books'
<1>1. Lists' /\ UNCHANGED testOrder
  <2>1. CASE UNCHANGED builderVars
    BY <2>1 DEF builderVars, Lists, ListedOnce, Books
  <2>2. CASE \E ev : Named(ev) /\ Add(ev) /\ ev.test = NoTest
    BY <2>2, EventListed, EventRegisters, NamesAssumption DEF Books
  <2> QED
    BY <2>1, <2>2
<1>2. Seen'
  BY <1>1 DEF Seen, Books
<1> QED
  BY <1>1, <1>2 DEF Books

LEMMA TestEvNamed ==
  ASSUME NEW p \in Packages, NEW t \in Tests, NEW action, NEW ev, ev = TestEv(p, t, action)
  PROVE  Named(ev) /\ ev.package = p /\ ev.test = t
<1>1. <<>> \in Seq(Bytes)
  OBVIOUS
<1> QED
  BY <1>1 DEF Named, TestEv, PackageEv, Blank

LEMMA OutputEvNamed ==
  ASSUME NEW p \in Packages, NEW t \in Tests, NEW text \in Seq(Bytes), NEW ev, ev = OutputEv(p, t, text)
  PROVE  Named(ev) /\ ev.package = p /\ ev.test = t
BY DEF Named, OutputEv, TestEv, PackageEv, Blank

LEMMA BeginsBooks ==
  ASSUME Base, Books, NEW p \in Packages, Begins(p)
  PROVE  Books'
<1>0. /\ Types /\ process \in [Packages -> Stages] /\ package \in [Packages -> PackageRecord]
      /\ <<>> \in Seq(Bytes)
  BY DEF Base, ToolchainTypes, PackagesSilent
<1>1. /\ process[p] = "waiting" /\ UNCHANGED <<command, red>>
      /\ \A q \in Packages : process[q] = "reported" => process'[q] = "reported"
  <2>1. PICK outcome : Begin(p, outcome)
    BY Zenon DEF Begins
  <2> QED
    BY <1>0, <2>1 DEF Begin
<1>2. \/ UNCHANGED builderVars
      \/ \E ev : Named(ev) /\ Add(ev) /\ ev.test = NoTest /\ ev.output = <<>>
                 /\ ev.importPath = NoBinary /\ ev.action \notin Terminal
      \/ \E ev : Named(ev) /\ Add(ev) /\ ev.test = NoTest /\ ev.importPath # NoBinary
  <2>1. CASE Add(PackageEv(p, "start"))
    <3>1. PICK ev : ev = PackageEv(p, "start")
      OBVIOUS
    <3>2. Named(ev) /\ ev.test = NoTest /\ ev.output = <<>> /\ ev.importPath = NoBinary
          /\ ev.action \notin Terminal
      BY <1>0, <3>1 DEF Named, PackageEv, Blank, Terminal
    <3> QED
      BY <2>1, <3>1, <3>2
  <2>2. CASE \E text \in Chunks :
               Add([Blank EXCEPT !.action = "build-output", !.importPath = Binary[p], !.output = text])
    <3>1. PICK text \in Chunks :
            Add([Blank EXCEPT !.action = "build-output", !.importPath = Binary[p], !.output = text])
      BY <2>2, Zenon
    <3>2. PICK ev : ev = [Blank EXCEPT !.action = "build-output", !.importPath = Binary[p], !.output = text]
      OBVIOUS
    <3>3. Named(ev) /\ ev.test = NoTest /\ ev.importPath # NoBinary
      BY <3>2, ChunksAssumption, BinaryAssumption, NamesAssumption DEF Named, Blank
    <3> QED
      BY <3>1, <3>2, <3>3
  <2> QED
    BY <2>1, <2>2, Zenon DEF Begins
<1>3. UNCHANGED <<occurrences, package>> /\ PackagesKept
  <2>1. CASE UNCHANGED builderVars
    BY <2>1 DEF builderVars, PackagesKept
  <2>2. ASSUME NEW ev, Named(ev), Add(ev), ev.test = NoTest,
               \/ ev.output = <<>> /\ ev.importPath = NoBinary /\ ev.action \notin Terminal
               \/ ev.importPath # NoBinary
        PROVE  UNCHANGED <<occurrences, package>> /\ PackagesKept
    <3>1. AddBuild(ev) \/ AddNothing(ev) \/ AddPackage(ev)
      BY <2>2 DEF Add, AddOutput, AddRun, AddTerminal, AddOther, Registers
    <3>2. UNCHANGED <<occurrences, package>>
      BY <2>2, <3>1 DEF AddBuild, AddNothing, AddPackage
    <3> QED
      BY <1>0, <2>2, <3>2, EventRegisters DEF Books
  <2> QED
    BY <1>2, <2>1, <2>2
<1>4. PackagesTold'
  BY <1>1, <1>3 DEF PackagesTold, PackagesKept, Books
<1> QED
  BY <1>0, <1>1, <1>2, <1>3, <1>4, AroundBooks

LEMMA ReportsBooks ==
  ASSUME Base, Books, NEW p \in Packages, Reports(p)
  PROVE  Books'
<1>0. /\ Types /\ process \in [Packages -> Stages] /\ package \in [Packages -> PackageRecord]
      /\ <<>> \in Seq(Bytes)
  BY DEF Base, ToolchainTypes, PackagesSilent
<1>1. PICK action, binary, ev :
        /\ action \in {"pass", "fail", "skip"} /\ ReportPackage(p, action)
        /\ binary = (IF process[p] = "broken" THEN Binary[p] ELSE NoBinary)
        /\ ev = [PackageEv(p, action) EXCEPT !.failedBuild = binary] /\ Add(ev)
  BY DEF Reports
<1>2. /\ Named(ev) /\ ev.package = p /\ ev.test = NoTest /\ ev.output = <<>> /\ ev.importPath = NoBinary
      /\ ev.action = action /\ ev.failedBuild = binary /\ action \in Terminal
      /\ binary \in {NoBinary, Binary[p]}
  BY <1>0, <1>1 DEF Named, PackageEv, Blank, Terminal
<1>3. AddPackage(ev)
  <2>1. ~AddBuild(ev) /\ ~AddNothing(ev) /\ ~AddOutput(ev) /\ ~Registers(ev)
    BY <1>2, NamesAssumption DEF AddBuild, AddNothing, AddOutput, Registers
  <2>2. AddRun(ev) \/ AddTerminal(ev) \/ AddOther(ev) => Registers(ev)
    BY Zenon DEF AddRun, AddTerminal, AddOther
  <2> QED
    BY <1>1, <2>1, <2>2, Zenon DEF Add
<1>4. /\ package' = [package EXCEPT ![p].status = action, ![p].failedBuild = binary]
      /\ UNCHANGED <<occurrences, testOrder>>
  BY <1>2, <1>3 DEF AddPackage
<1>5. PackagesKept /\ Contains(packageOrder', p)
  <2>1. Add(ev)
    BY <1>1
  <2> QED
    BY <1>0, <1>2, <2>1, EventRegisters, Zenon DEF Books
<1>6. /\ process[p] # "reported" /\ process' = [process EXCEPT ![p] = "reported"]
      /\ red' = (IF action = "fail" THEN red \cup {p} ELSE red) /\ UNCHANGED command
  BY <1>1, Zenon DEF ReportPackage
<1>7. ASSUME NEW q \in Packages
      PROVE  /\ package'[q].failedBuild \in {NoBinary, Binary[q]}
             /\ package'[q].status = "fail" => q \in red'
             /\ package'[q].status # None => Contains(packageOrder', q)
             /\ command'.files = 1 /\ q \in red' => package'[q].status = "fail" /\ process'[q] = "reported"
  <2>1. CASE q = p
    <3>1. package[p] \in PackageRecord
      BY <1>0
    <3>2. package'[p].status = action /\ package'[p].failedBuild = binary
      BY <1>0, <1>4, <3>1 DEF PackageRecord
    <3>3. process'[p] = "reported"
      BY <1>0, <1>6
    <3>4. command.files = 1 => p \notin red
      BY <1>6 DEF Books, PackagesTold
    <3> QED
      BY <1>2, <1>5, <1>6, <2>1, <3>2, <3>3, <3>4
  <2>2. CASE q # p
    <3>1. package'[q] = package[q] /\ process'[q] = process[q] /\ (q \in red' <=> q \in red)
      BY <1>0, <1>4, <1>6, <2>2
    <3> QED
      BY <1>5, <1>6, <3>1 DEF Books, PackagesTold, PackagesKept
  <2> QED
    BY <2>1, <2>2
<1>8. PackagesTold'
  BY <1>6, <1>7 DEF PackagesTold, Books
<1> QED
  BY <1>0, <1>1, <1>2, <1>4, <1>6, <1>8, AroundBooks

LEMMA QuietBooks ==
  ASSUME Base, Books, (\E p \in Packages : Quietly(p)) \/ Exits
  PROVE  Books'
<1>0. /\ Types /\ process \in [Packages -> Stages]
      /\ command.files \in Nat /\ file \in 1..command.files
  BY CommandsAssumption DEF Base, ToolchainTypes
<1>1. UNCHANGED builderVars
  BY DEF Quietly, Exits
<1>2. UNCHANGED <<command, red>>
  BY DEF Quietly, Exits, NextIteration, EndProcess, NextFile, Exit
<1>3. command.files = 1 => \A q \in Packages : process[q] = "reported" => process'[q] = "reported"
  <2>1. ASSUME NEW p \in Packages, Quietly(p)
        PROVE  \A q \in Packages : process[q] = "reported" => process'[q] = "reported"
    BY <1>0, <2>1 DEF Quietly, NextIteration, EndProcess, Live
  <2>2. ASSUME Exits, command.files = 1 PROVE UNCHANGED process
    BY <1>0, <2>2 DEF Exits, NextFile, Exit
  <2> QED
    BY <2>1, <2>2
<1>4. UNCHANGED <<package, packageOrder, occurrences>>
  BY <1>1 DEF builderVars
<1>5. PackagesTold'
  BY <1>2, <1>3, <1>4 DEF PackagesTold, Books
<1> QED
  BY <1>0, <1>1, <1>2, <1>4, <1>5, AroundBooks

LEMMA BooksGoOn ==
  ASSUME Ongoing, Books, Next
  PROVE  Books' \/ Finishes
<1>0. Base /\ Types /\ process \in [Packages -> Stages] /\ ~finished
  BY DEF Ongoing, Base, ToolchainTypes
<1>1. ASSUME NEW p \in Packages, Begins(p) \/ Reports(p) PROVE Books'
  BY <1>0, <1>1, BeginsBooks, ReportsBooks
<1>2. ASSUME (\E p \in Packages : Quietly(p)) \/ Exits PROVE Books'
  BY <1>0, <1>2, QuietBooks
<1>3. ASSUME NEW p \in Packages, NEW t \in Tests, Fails(p, t) PROVE Books'
  <2>1. UNCHANGED builderVars /\ UNCHANGED <<process, red, command>>
    BY <1>3 DEF Fails, FailTest
  <2>2. UNCHANGED <<occurrences, package, packageOrder>>
    BY <2>1 DEF builderVars
  <2>3. PackagesTold'
    BY <2>1, <2>2 DEF PackagesTold, Books
  <2> QED
    BY <1>0, <2>1, <2>2, <2>3, AroundBooks
<1>4. ASSUME NEW p \in Packages, NEW t \in Tests, Starts(p, t) PROVE Books'
  <2>1. Add(TestEv(p, t, "run")) /\ UNCHANGED <<process, red>>
    BY <1>4 DEF Starts, StartTest
  <2>2. PICK runs, occs : TestStep(p, t, runs, occs, partial[<<p, t>>]) /\ Len(occs) \in Nat \ {0}
    BY <1>0, <1>4, StartStep DEF Started, Appended
  <2>3. PICK ev : ev = TestEv(p, t, "run")
    OBVIOUS
  <2>4. Named(ev) /\ ev.package = p /\ ev.test = t /\ Add(ev)
    BY <2>1, <2>3, TestEvNamed
  <2> QED
    BY <1>0, <2>1, <2>2, <2>4, TestBooks
<1>5. ASSUME NEW p \in Packages, NEW t \in Tests, NEW text, text \in Seq(Bytes), Printed(p, t, text),
             Add(OutputEv(p, t, text)), UNCHANGED red,
             UNCHANGED process \/ (process[p] = "running" /\ process' = [process EXCEPT ![p] = "failing"])
      PROVE  Books'
  <2>1. PICK runs, occs, occ : TestStep(p, t, runs, occs, Kept(<<p, t>>, text))
                               /\ Altered(Recorded, occurrences[p][t], occs, occ)
    BY <1>5 DEF Printed
  <2>2. Len(occs) \in Nat \ {0}
    BY <2>1 DEF Altered
  <2>3. PICK ev : ev = OutputEv(p, t, text)
    OBVIOUS
  <2>4. Named(ev) /\ ev.package = p /\ ev.test = t /\ Add(ev)
    BY <1>5, <2>3, OutputEvNamed
  <2> QED
    BY <1>0, <1>5, <2>1, <2>2, <2>4, TestBooks
<1>6. ASSUME NEW p \in Packages, NEW t \in Tests, Logs(p, t) PROVE Books'
  <2>1. PICK text \in Chunks : Log(p, t, text) /\ Add(OutputEv(p, t, text))
    BY <1>6 DEF Logs
  <2>2. text \in Seq(Bytes) /\ text # <<>>
    BY ChunksAssumption
  <2>3. /\ Live(p) /\ Running(p, t) /\ executions' = Write(executions, p, t, text)
        /\ UNCHANGED <<process, death, command, file, iteration>> /\ UNCHANGED red
    BY <2>1 DEF Log
  <2>4. Printed(p, t, text)
    BY <1>0, <2>1, <2>2, <2>3, OutputStep
  <2> QED
    BY <1>5, <2>1, <2>2, <2>3, <2>4
<1>7. ASSUME NEW p \in Packages, NEW t \in Tests, Ends(p, t) PROVE Books'
  <2>1. PICK action \in Terminal : EndTest(p, t, action) /\ Add(TestEv(p, t, action))
    BY <1>7 DEF Ends
  <2>2. Ended(p, t, action) /\ UNCHANGED <<process, red>>
    BY <1>0, <2>1, EndStep DEF EndTest
  <2>3. PICK runs, occs, occ : TestStep(p, t, runs, occs, partial[<<p, t>>])
                               /\ Altered(Recorded, occurrences[p][t], occs, occ)
    BY <2>2 DEF Ended
  <2>4. Len(occs) \in Nat \ {0}
    BY <2>3 DEF Altered
  <2>5. PICK ev : ev = TestEv(p, t, action)
    OBVIOUS
  <2>6. Named(ev) /\ ev.package = p /\ ev.test = t /\ Add(ev)
    BY <2>1, <2>5, TestEvNamed
  <2> QED
    BY <1>0, <2>2, <2>3, <2>4, <2>6, TestBooks
<1>8. ASSUME NEW p \in Packages, NEW t \in Tests, Dies(p, t) PROVE Books'
  <2>1. PICK why \in {"exit", "panic", "timeout"} :
          /\ Die(p, t, why)
          /\ IF LastWords(why) = <<>> THEN UNCHANGED builderVars
             ELSE Add(OutputEv(p, t, LastWords(why)))
    BY <1>8 DEF Dies
  <2>2. /\ process[p] = "running" /\ process' = [process EXCEPT ![p] = "failing"]
        /\ UNCHANGED <<red, command, iteration, file>>
        /\ Running(p, t) /\ executions' = Write(executions, p, t, LastWords(why))
    BY <2>1 DEF Die, Live
  <2>3. CASE LastWords(why) = <<>>
    <3>1. UNCHANGED builderVars
      BY <2>1, <2>3
    <3>2. UNCHANGED <<occurrences, package, packageOrder>>
      BY <3>1 DEF builderVars
    <3>3. \A q \in Packages : process[q] = "reported" => process'[q] = "reported"
      BY <1>0, <2>2
    <3>4. PackagesTold'
      BY <2>2, <3>2, <3>3 DEF PackagesTold, Books
    <3> QED
      BY <1>0, <2>2, <3>1, <3>2, <3>4, AroundBooks
  <2>4. CASE LastWords(why) # <<>>
    <3>1. why \in {"panic", "timeout"}
      BY <2>4 DEF LastWords
    <3>2. LastWords(why) \in Seq(Bytes) /\ LastWords(why) # <<>>
      BY <3>1, WordsAreText
    <3>3. Add(OutputEv(p, t, LastWords(why)))
      BY <2>1, <2>4
    <3>4. Printed(p, t, LastWords(why))
      BY <1>0, <2>2, <3>2, <3>3, OutputStep
    <3> QED
      BY <1>5, <2>2, <3>2, <3>3, <3>4
  <2> QED
    BY <2>3, <2>4
<1> QED
  BY <1>1, <1>2, <1>3, <1>4, <1>6, <1>7, <1>8 DEF Next

\* What holds of the finished run, for good.
Settled == /\ Types /\ PackagesSilent /\ ToolchainTypes
           /\ \A k \in Keys : partial[k] = <<>>

LEMMA FinishBooks ==
  ASSUME Ongoing, Books, Finishes
  PROVE  Books' /\ Settled'
<1>1. /\ Finish /\ UNCHANGED toolchain /\ Base /\ Types /\ PackagesSilent /\ ToolchainTypes
      /\ NothingHeldBefore
  BY DEF Finishes, Ongoing, Base
<1>2. UNCHANGED <<command, process, iteration, executions, death, red, file>>
  BY <1>1 DEF toolchain
<1>3. Types'
  <2>1. StatusOK
    <3>1. \A p \in Packages, t \in Tests : /\ Twin(occurrences[p][t], executions[p][t])
                                          /\ occurrences[p][t] \in Seq(Recorded)
                                          /\ executions[p][t] \in Seq(Execution)
      BY <1>1 DEF Base, Twins, Types, ToolchainTypes
    <3> QED
      BY <3>1, TwinsAreUndecided DEF StatusOK
  <2>2. IInv
    BY <2>1 DEF IInv, Ongoing, Base
  <2>3. BuilderNext
    BY <1>1 DEF BuilderNext
  <2> QED
    BY <2>2, <2>3, StepsKeepIInv DEF IInv
<1>4. Lists'
  BY <1>1, FinishListed DEF Books
<1>5. /\ partial' = [k \in Keys |-> <<>>] /\ UNCHANGED packageOrder
      /\ package' = [p \in Packages |-> [package[p] EXCEPT !.lines = FlushedLines(p)]]
  BY <1>1 DEF Finish, JoinerFlush
<1>6. ASSUME NEW p \in Packages
      PROVE  /\ package'[p] \in PackageRecord /\ package'[p].lines = <<>>
             /\ package'[p].status = package[p].status
             /\ package'[p].failedBuild = package[p].failedBuild
             /\ partial'[<<p, NoTest>>] = <<>>
  <2>1. package[p] \in PackageRecord /\ package[p].lines = <<>> /\ partial[<<p, NoTest>>] = <<>>
    BY <1>1 DEF PackagesSilent
  <2>2. FlushedLines(p) = <<>>
    BY <2>1 DEF FlushedLines, Remainder
  <2>3. package'[p] = [package[p] EXCEPT !.lines = <<>>]
    BY <1>5, <2>2
  <2>4. <<p, NoTest>> \in Keys
    BY DEF Keys
  <2> QED
    BY <1>5, <2>1, <2>3, <2>4 DEF PackageRecord
<1>7. PackagesSilent'
  BY <1>5, <1>6 DEF PackagesSilent
<1>8. ToolchainTypes'
  BY <1>1, <1>2 DEF ToolchainTypes
<1>9. PackagesTold'
  BY <1>2, <1>5, <1>6 DEF PackagesTold, Books
<1>10. ASSUME NEW p \in Packages, NEW t \in Tests, Contains(testOrder'[p], t)
       PROVE  occurrences'[p][t] # <<>>
  <2>1. PICK names :
          /\ names = [i \in DOMAIN Unregistered(p) |-> Unregistered(p)[i][2]]
          /\ names \in Seq(Tests)
          /\ \A u : Contains(names, u) => partial[<<p, u>>] # <<>>
    BY <1>1, UnregisteredTests DEF Books
  <2>2. testOrder[p] \in Seq(Tests)
    BY DEF Books, Lists
  <2>3. PICK all : all = testOrder[p] \o names
    OBVIOUS
  <2>4. Concats(testOrder[p], names, all)
    BY <2>1, <2>2, <2>3, ConcatHolds
  <2>5. testOrder'[p] = all
    BY <1>1, <2>1, <2>3 DEF Finish
  <2>6. Contains(testOrder[p], t) \/ partial[<<p, t>>] # <<>>
    BY <1>10, <2>1, <2>4, <2>5 DEF Concats
  <2>7. occurrences[p][t] \in Seq(Recorded) /\ Twin(occurrences[p][t], executions[p][t])
    BY <1>1 DEF Base, Twins, Types
  <2>8. occurrences[p][t] # <<>>
    <3>1. partial[<<p, t>>] # <<>> => executions[p][t] # <<>>
      BY <1>1 DEF NothingHeldBefore
    <3>2. executions[p][t] \in Seq(Execution) /\ Len(occurrences[p][t]) = Len(executions[p][t])
      BY <1>1, <2>7 DEF ToolchainTypes, Twin
    <3>3. partial[<<p, t>>] # <<>> => occurrences[p][t] # <<>>
      BY <2>7, <3>1, <3>2
    <3> QED
      BY <2>6, <3>3 DEF Books, Seen
  <2>9. PICK timedOut : occurrences'[p][t]
          = [n \in DOMAIN Flushed(p, t) |-> Classified(Flushed(p, t)[n], timedOut)]
    BY <1>1 DEF Finish, Flushed
  <2>10. Flushed(p, t) \in Seq(Recorded) /\ Len(Flushed(p, t)) = Len(occurrences[p][t])
    BY FlushedTwin
  <2>11. 1 \in DOMAIN occurrences'[p][t]
    BY <2>7, <2>8, <2>9, <2>10
  <2> QED
    BY <2>11
<1>11. Seen'
  BY <1>10 DEF Seen
<1>12. \A k \in Keys : partial'[k] = <<>>
  BY <1>5
<1> QED
  BY <1>3, <1>4, <1>7, <1>8, <1>9, <1>11, <1>12 DEF Books, Settled

ReportInv == Books /\ (finished => Settled)

LEMMA InitIsBooked == ASSUME Init PROVE Books
<1>1. /\ testOrder = [p \in Packages |-> <<>>] /\ package = [p \in Packages |-> NewPackage]
      /\ red = {} /\ BuilderInit
  BY DEF Init, GoTestInit, BuilderInit
<1>2. Lists
  BY <1>1, InitListed
<1>3. Seen
  BY <1>1 DEF Seen, Contains
<1>4. PackagesTold
  BY <1>1 DEF PackagesTold, NewPackage, None
<1> QED
  BY <1>2, <1>3, <1>4 DEF Books

LEMMA ReportInvariance == Spec => []ReportInv
<1>1. Init => ReportInv
  BY InitIsOngoing, InitIsBooked DEF ReportInv
<1>2. PipelineInv /\ PipelineInv' /\ ReportInv /\ [Next]_vars => ReportInv'
  <2> SUFFICES ASSUME PipelineInv, PipelineInv', ReportInv, [Next]_vars PROVE ReportInv'
    OBVIOUS
  <2>1. CASE UNCHANGED vars
    <3>1. UNCHANGED <<builderVars, toolchain>>
      BY <2>1 DEF vars
    <3>2. UNCHANGED <<partial, order, packageOrder, package, testOrder, occurrences, open, buildOutput,
                      finished, command, process, iteration, executions, death, red, file>>
      BY <3>1 DEF builderVars, toolchain
    <3>3. Books => Books'
      BY <3>2 DEF Books, Lists, ListedOnce, Seen, PackagesTold
    <3>4. Settled => Settled'
      BY <3>2 DEF Settled, Types, PackagesSilent, ToolchainTypes
    <3> QED
      BY <3>2, <3>3, <3>4 DEF ReportInv
  <2>2. CASE finished /\ Next
    BY <2>2, ClosedStays DEF PipelineInv
  <2>3. CASE ~finished /\ Next
    <3>1. Ongoing /\ Books
      BY <2>3 DEF PipelineInv, ReportInv
    <3>2. CASE Finishes
      BY <3>1, <3>2, FinishBooks DEF ReportInv
    <3>3. CASE ~Finishes
      <4>1. Books' /\ Ongoing'
        BY <2>3, <3>1, <3>3, BooksGoOn, OngoingGoesOn
      <4> QED
        BY <4>1 DEF ReportInv, Ongoing, Base
    <3> QED
      BY <3>2, <3>3
  <2> QED
    BY <2>1, <2>2, <2>3
<1> QED
  BY <1>1, <1>2, PipelineInvariance, PTL DEF Spec

\* An event about a test tells nothing of a build.
LEMMA TestSaysNoBuild ==
  ASSUME NEW ev, Add(ev), ev.importPath = NoBinary, ev.test # NoTest
  PROVE  UNCHANGED <<buildOutput, package>>
<1>1. ~AddBuild(ev) /\ ~AddPackage(ev)
  BY DEF AddBuild, AddPackage
<1>2. AddNothing(ev) => UNCHANGED <<buildOutput, package>>
  BY Zenon DEF AddNothing
<1>3. AddOutput(ev) => UNCHANGED <<buildOutput, package>>
  BY Zenon DEF AddOutput
<1>4. AddRun(ev) \/ AddTerminal(ev) \/ AddOther(ev) => UNCHANGED <<buildOutput, package>>
  BY Zenon DEF AddRun, AddTerminal, AddOther, Registers
<1> QED
  BY <1>1, <1>2, <1>3, <1>4, Zenon DEF Add

\* A step that says nothing of a build, and breaks none.
LEMMA CompiledSame ==
  ASSUME Compiled, UNCHANGED buildOutput,
         \A q \in Packages : /\ process'[q] = "broken" => process[q] = "broken"
                             /\ package'[q].failedBuild = package[q].failedBuild
  PROVE  Compiled'
BY DEF Compiled

LEMMA BeginsCompiled ==
  ASSUME Base, Compiled, NEW p \in Packages, Begins(p)
  PROVE  Compiled'
<1>0. process \in [Packages -> Stages] /\ package \in [Packages -> PackageRecord]
  BY DEF Base, ToolchainTypes, PackagesSilent
<1>1. CASE Begin(p, "unbuilt") /\ UNCHANGED builderVars
  BY <1>0, <1>1, CompiledSame DEF Begin, builderVars
<1>2. CASE (Begin(p, "running") \/ Begin(p, "no tests")) /\ Add(PackageEv(p, "start"))
  <2>1. PICK ev : ev = PackageEv(p, "start")
    OBVIOUS
  <2>2. /\ ev.package = p /\ ev.test = NoTest /\ ev.output = <<>> /\ ev.importPath = NoBinary
        /\ ev.action \notin Terminal /\ ev.package # NoPackage
    BY <2>1, NamesAssumption DEF PackageEv, Blank, Terminal
  <2>3. AddPackage(ev)
    <3>1. ~AddBuild(ev) /\ ~AddNothing(ev) /\ ~AddOutput(ev) /\ ~Registers(ev)
      BY <2>2 DEF AddBuild, AddNothing, AddOutput, Registers
    <3>2. AddRun(ev) \/ AddTerminal(ev) \/ AddOther(ev) => Registers(ev)
      BY Zenon DEF AddRun, AddTerminal, AddOther
    <3> QED
      BY <1>2, <2>1, <3>1, <3>2, Zenon DEF Add
  <2>4. UNCHANGED <<package, buildOutput>>
    BY <2>2, <2>3 DEF AddPackage
  <2>5. \A q \in Packages : process'[q] = "broken" => process[q] = "broken"
    <3>1. \A outcome : Begin(p, outcome) /\ outcome # "broken" =>
            \A q \in Packages : process'[q] = "broken" => process[q] = "broken"
      BY <1>0 DEF Begin
    <3>2. "running" # "broken" /\ "no tests" # "broken"
      BY Zenon
    <3> QED
      BY <1>2, <3>1, <3>2, Zenon
  <2> QED
    BY <2>4, <2>5, CompiledSame
<1>3. ASSUME Begin(p, "broken"), NEW text \in Chunks,
             Add([Blank EXCEPT !.action = "build-output", !.importPath = Binary[p], !.output = text])
      PROVE  Compiled'
  <2>1. PICK ev : ev = [Blank EXCEPT !.action = "build-output", !.importPath = Binary[p], !.output = text]
    OBVIOUS
  <2>2. /\ ev.importPath = Binary[p] /\ ev.importPath # NoBinary /\ ev.output = text
        /\ Binary[p] \in ImportPaths
    BY <2>1, BinaryAssumption, NamesAssumption DEF Blank
  <2>3. AddBuild(ev)
    <3>1. ~AddNothing(ev) /\ ~AddOutput(ev) /\ ~AddPackage(ev) /\ ~Registers(ev)
      BY <2>2 DEF AddNothing, AddOutput, AddPackage, Registers
    <3>2. AddRun(ev) \/ AddTerminal(ev) \/ AddOther(ev) => Registers(ev)
      BY Zenon DEF AddRun, AddTerminal, AddOther
    <3> QED
      BY <1>3, <2>1, <3>1, <3>2, Zenon DEF Add
  <2>4. text \in Seq(Bytes) \ {<<>>}
    BY ChunksAssumption
  <2>5. buildOutput' = [buildOutput EXCEPT ![Binary[p]] = Append(@, text)] /\ UNCHANGED package
    BY <2>2, <2>3, <2>4 DEF AddBuild
  <2>6. PICK C : C = Seq(Bytes) \ {<<>>}
    OBVIOUS
  <2>7. buildOutput \in [ImportPaths -> Seq(C)] /\ text \in C
    BY <2>4, <2>6 DEF Compiled
  <2>8. Append(buildOutput[Binary[p]], text) \in Seq(C) /\ Append(buildOutput[Binary[p]], text) # <<>>
    BY <2>2, <2>7
  <2>9. /\ buildOutput' \in [ImportPaths -> Seq(C)]
        /\ \A b \in ImportPaths : buildOutput[b] # <<>> \/ b = Binary[p] => buildOutput'[b] # <<>>
    BY <2>2, <2>5, <2>7, <2>8
  <2>10. \A q \in Packages : process'[q] = "broken" => process[q] = "broken" \/ q = p
    BY <1>0, <1>3 DEF Begin
  <2>11. \A q \in Packages : Binary[q] \in ImportPaths
    BY BinaryAssumption
  <2> QED
    BY <2>5, <2>6, <2>9, <2>10, <2>11 DEF Compiled
<1> QED
  BY <1>1, <1>2, <1>3, Zenon DEF Begins

LEMMA ReportsCompiled ==
  ASSUME Base, Compiled, NEW p \in Packages, Reports(p)
  PROVE  Compiled'
<1>0. process \in [Packages -> Stages] /\ package \in [Packages -> PackageRecord]
  BY DEF Base, ToolchainTypes, PackagesSilent
<1>1. PICK action, binary, ev :
        /\ action \in {"pass", "fail", "skip"} /\ ReportPackage(p, action)
        /\ binary = (IF process[p] = "broken" THEN Binary[p] ELSE NoBinary)
        /\ ev = [PackageEv(p, action) EXCEPT !.failedBuild = binary] /\ Add(ev)
  BY DEF Reports
<1>2. /\ ev.package = p /\ ev.test = NoTest /\ ev.output = <<>> /\ ev.importPath = NoBinary
      /\ ev.action = action /\ ev.failedBuild = binary /\ action \in Terminal
  BY <1>1 DEF PackageEv, Blank, Terminal
<1>3. AddPackage(ev)
  <2>1. ~AddBuild(ev) /\ ~AddNothing(ev) /\ ~AddOutput(ev) /\ ~Registers(ev)
    BY <1>2, NamesAssumption DEF AddBuild, AddNothing, AddOutput, Registers
  <2>2. AddRun(ev) \/ AddTerminal(ev) \/ AddOther(ev) => Registers(ev)
    BY Zenon DEF AddRun, AddTerminal, AddOther
  <2> QED
    BY <1>1, <2>1, <2>2, Zenon DEF Add
<1>4. /\ package' = [package EXCEPT ![p].status = action, ![p].failedBuild = binary]
      /\ UNCHANGED buildOutput
  BY <1>2, <1>3 DEF AddPackage
<1>5. \A q \in Packages : process'[q] = "broken" => process[q] = "broken"
  <2>1. process' = [process EXCEPT ![p] = "reported"]
    BY <1>1, Zenon DEF ReportPackage
  <2> QED
    BY <1>0, <2>1
<1>6. ASSUME NEW q \in Packages, package'[q].failedBuild # NoBinary
      PROVE  process[q] = "broken" \/ package[q].failedBuild # NoBinary
  <2>1. package[q] \in PackageRecord
    BY <1>0
  <2>2. CASE q = p
    <3>1. package'[q].failedBuild = binary
      BY <1>0, <1>4, <2>1, <2>2 DEF PackageRecord
    <3> QED
      BY <1>1, <1>6, <2>2, <3>1
  <2>3. CASE q # p
    BY <1>0, <1>4, <1>6, <2>3
  <2> QED
    BY <2>2, <2>3
<1> QED
  BY <1>4, <1>5, <1>6 DEF Compiled

LEMMA CompiledGoesOn ==
  ASSUME Ongoing, Compiled, Next
  PROVE  Compiled'
<1>0. Base /\ process \in [Packages -> Stages] /\ package \in [Packages -> PackageRecord]
  BY DEF Ongoing, Base, ToolchainTypes, PackagesSilent
<1>1. ASSUME NEW p \in Packages, Begins(p) \/ Reports(p) PROVE Compiled'
  BY <1>0, <1>1, BeginsCompiled, ReportsCompiled
<1>2. ASSUME (\E p \in Packages : Quietly(p)) \/ Exits PROVE Compiled'
  <2>1. UNCHANGED <<buildOutput, package>>
    BY <1>2 DEF Quietly, Exits, builderVars
  <2>2. ASSUME NEW p \in Packages, Quietly(p)
        PROVE  \A q \in Packages : process'[q] = "broken" => process[q] = "broken"
    BY <1>0, <2>2 DEF Quietly, NextIteration, EndProcess
  <2>3. Exits => \A q \in Packages : process'[q] = "broken" => process[q] = "broken"
    BY DEF Exits, NextFile, Exit
  <2> QED
    BY <1>2, <2>1, <2>2, <2>3, CompiledSame
<1>3. ASSUME NEW ev, Add(ev), ev.importPath = NoBinary, ev.test # NoTest, NEW p \in Packages,
             UNCHANGED process \/ process' = [process EXCEPT ![p] = "failing"]
      PROVE  Compiled'
  <2>1. UNCHANGED <<buildOutput, package>>
    BY <1>3, TestSaysNoBuild
  <2>2. \A q \in Packages : process'[q] = "broken" => process[q] = "broken"
    BY <1>0, <1>3
  <2> QED
    BY <2>1, <2>2, CompiledSame
<1>4. ASSUME NEW p \in Packages, NEW t \in Tests,
             UNCHANGED builderVars, UNCHANGED process \/ process' = [process EXCEPT ![p] = "failing"]
      PROVE  Compiled'
  <2>1. UNCHANGED <<buildOutput, package>>
    BY <1>4 DEF builderVars
  <2>2. \A q \in Packages : process'[q] = "broken" => process[q] = "broken"
    BY <1>0, <1>4
  <2> QED
    BY <2>1, <2>2, CompiledSame
<1>5. ASSUME NEW p \in Packages, NEW t \in Tests, NEW action, NEW text
      PROVE  /\ TestEv(p, t, action).importPath = NoBinary /\ TestEv(p, t, action).test # NoTest
             /\ OutputEv(p, t, text).importPath = NoBinary /\ OutputEv(p, t, text).test # NoTest
  BY NamesAssumption DEF TestEv, OutputEv, PackageEv, Blank
<1>6. ASSUME NEW p \in Packages, NEW t \in Tests, Starts(p, t) \/ Logs(p, t) \/ Fails(p, t) \/ Ends(p, t)
      PROVE  Compiled'
  <2>1. CASE Starts(p, t)
    BY <1>3, <1>5, <2>1, Zenon DEF Starts, StartTest
  <2>2. CASE Logs(p, t)
    BY <1>3, <1>5, <2>2, Zenon DEF Logs, Log
  <2>3. CASE Fails(p, t)
    BY <1>4, <2>3, Zenon DEF Fails, FailTest
  <2>4. CASE Ends(p, t)
    BY <1>3, <1>5, <2>4, Zenon DEF Ends, EndTest
  <2> QED
    BY <1>6, <2>1, <2>2, <2>3, <2>4
<1>7. ASSUME NEW p \in Packages, NEW t \in Tests, Dies(p, t) PROVE Compiled'
  <2>1. PICK why : /\ Die(p, t, why)
                   /\ IF LastWords(why) = <<>> THEN UNCHANGED builderVars
                      ELSE Add(OutputEv(p, t, LastWords(why)))
    BY <1>7, Zenon DEF Dies
  <2>2. process' = [process EXCEPT ![p] = "failing"]
    BY <2>1 DEF Die
  <2> QED
    BY <1>3, <1>4, <1>5, <2>1, <2>2, Zenon
<1>8. CASE Finishes
  <2>1. UNCHANGED <<buildOutput, process>> /\ package' = [p \in Packages |-> [package[p] EXCEPT !.lines = FlushedLines(p)]]
    BY <1>8 DEF Finishes, Finish, toolchain
  <2>2. \A q \in Packages : package'[q].failedBuild = package[q].failedBuild
    BY <1>0, <2>1 DEF PackageRecord
  <2> QED
    BY <2>1, <2>2, CompiledSame
<1> QED
  BY <1>1, <1>2, <1>6, <1>7, <1>8 DEF Next

LEMMA CompiledInvariance == Spec => []Compiled
<1>1. Init => Compiled
  <2> SUFFICES ASSUME Init PROVE Compiled
    OBVIOUS
  <2>1. /\ package = [p \in Packages |-> NewPackage] /\ buildOutput = [b \in ImportPaths |-> <<>>]
        /\ process = [p \in Packages |-> IF p \in command.packages THEN "waiting" ELSE "absent"]
    BY DEF Init, GoTestInit, BuilderInit
  <2> QED
    BY <2>1 DEF Compiled, NewPackage
<1>2. PipelineInv /\ Compiled /\ [Next]_vars => Compiled'
  <2> SUFFICES ASSUME PipelineInv, Compiled, [Next]_vars PROVE Compiled'
    OBVIOUS
  <2>1. CASE UNCHANGED vars
    <3>1. UNCHANGED <<buildOutput, package, process>>
      BY <2>1 DEF vars, builderVars, toolchain
    <3> QED
      BY <3>1, CompiledSame
  <2>2. CASE finished /\ Next
    BY <2>2, ClosedStays DEF PipelineInv
  <2>3. CASE ~finished /\ Next
    BY <2>3, CompiledGoesOn DEF PipelineInv
  <2> QED
    BY <2>1, <2>2, <2>3
<1> QED
  BY <1>1, <1>2, PipelineInvariance, PTL DEF Spec

\* All that the report of a finished run is made from.
LEMMA FinishedIsComplete ==
  ASSUME TextInv, ReportInv, finished
  PROVE  Complete /\ OutputAttributed /\ \A k \in Keys : partial[k] = <<>>
BY DEF TextInv, PipelineInv, ReportInv, Books, Settled, Complete

LEMMA AllInvariance == Spec => [](TextInv /\ ReportInv)
BY TextInvariance, ReportInvariance, PTL

\* No red execution of a test goes missing from the report, in the attempt that had
\* it or in the flakiness of its case: only a report that is full leaves it out.
THEOREM FailuresAreReported == Spec => []FailuresReported
<1>1. TextInv /\ ReportInv => FailuresReported
  <2>1. ~finished => FailuresReported
    BY Zenon DEF FailuresReported
  <2> QED
    BY <2>1, FinishedIsComplete, FailuresReportedThen
<1> QED
  BY <1>1, AllInvariance, PTL

\* A package that failed has a red case in its suite, and a red exit one somewhere:
\* the report is never greener than the run, whatever did not fit.
THEOREM ReportIsNeverGreener == Spec => []NeverGreener
<1>1. TextInv /\ ReportInv => NeverGreener
  <2>1. ~finished => NeverGreener
    BY Zenon DEF NeverGreener
  <2> QED
    BY <2>1, FinishedIsComplete, NeverGreenerThen
<1> QED
  BY <1>1, AllInvariance, PTL

\* Nothing red is made up: a failing case stands for a failing execution, and a
\* synthetic one for a failure the report owes to no test it has room for.
THEOREM NothingIsInvented == Spec => []NothingInvented
<1>1. TextInv /\ ReportInv => NothingInvented
  <2>1. ~finished => NothingInvented
    BY Zenon DEF NothingInvented
  <2> QED
    BY <2>1, FinishedIsComplete, NothingInventedThen
<1> QED
  BY <1>1, AllInvariance, PTL

\* A collapsed case mirrors the last execution, lists them as its attempts and is
\* flaky exactly when the test ended well after a red one.
THEOREM CasesDoMirror == Spec => []CasesMirrorExecutions
<1>1. TextInv /\ ReportInv => CasesMirrorExecutions
  <2>1. ~finished => CasesMirrorExecutions
    BY Zenon DEF CasesMirrorExecutions
  <2> QED
    BY <2>1, FinishedIsComplete, CasesMirrorThen
<1> QED
  BY <1>1, AllInvariance, PTL

\* The error of a failing case is the head of what the execution that failed printed,
\* without its metadata and the runner's lines, and that of a build failure the head of
\* what the compiler said: all of it, unless it is longer than the cap.
THEOREM EvidenceIsCarried == Spec => []FailuresCarryEvidence
<1>1. TextInv /\ ReportInv /\ Compiled => FailuresCarryEvidence
  <2>1. ~finished => FailuresCarryEvidence
    BY Zenon DEF FailuresCarryEvidence
  <2> QED
    BY <2>1, FinishedIsComplete, EvidenceThen
<1> QED
  BY <1>1, AllInvariance, CompiledInvariance, PTL
=============================================================================
