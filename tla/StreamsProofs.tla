---------------------------- MODULE StreamsProofs ----------------------------
(***************************************************************************)
(* Proofs about the decoder: whatever the streams, the buffer and the caps,   *)
(* each line of a stream becomes an event, a blank or a count.               *)
(***************************************************************************)
EXTENDS Streams, SequenceLemmas

(***************************************************************************)
(* Parts of a text.                                                         *)
(***************************************************************************)
\* The first n elements of s, or all of it.
CutTo(S, s, n, c) ==
  /\ c \in Seq(S) /\ Len(c) = (IF Len(s) < n THEN Len(s) ELSE n)
  /\ \A i \in 1..Len(c) : c[i] = s[i]

LEMMA CutProperties ==
  ASSUME NEW S, NEW s \in Seq(S), NEW n \in Nat
  PROVE  CutTo(S, s, n, Cut(s, n)) /\ (Len(s) <= n => Cut(s, n) = s)
<1> DEFINE m == IF Len(s) < n THEN Len(s) ELSE n
<1>1. m \in Nat /\ m <= Len(s) /\ Len(s) \in Nat
  OBVIOUS
<1>2. PICK c : c = SubSeq(s, 1, m)
  OBVIOUS
<1>3. c \in Seq(S) /\ Len(c) = m /\ \A i \in 1..m : c[i] = s[i]
  BY <1>1, <1>2
<1>4. Len(s) <= n => c = s
  <2>1. Len(s) <= n => Len(c) = Len(s) /\ \A i \in 1..Len(s) : c[i] = s[i]
    BY <1>1, <1>3
  <2> QED
    BY <1>3, <2>1, SeqEqual
<1> QED
  BY <1>2, <1>3, <1>4 DEF Cut, CutTo

\* Cutting what was cut already, with more behind it, is cutting once.
LEMMA CutAgain ==
  ASSUME NEW S, NEW s \in Seq(S), NEW t \in Seq(S), NEW n \in Nat
  PROVE  /\ Cut(Cut(s, n) \o t, n) = Cut(s \o t, n)
         /\ Len(s) >= n => Cut(s \o t, n) = Cut(s, n)
<1>1. PICK c, m, l : c = Cut(s, n) /\ m = Len(c) /\ l = Len(s)
  OBVIOUS
<1>2. c \in Seq(S) /\ m = (IF l < n THEN l ELSE n) /\ \A i \in 1..m : c[i] = s[i]
  BY <1>1, CutProperties DEF CutTo
<1>3. PICK u, v : u = c \o t /\ v = s \o t
  OBVIOUS
<1>4. /\ u \in Seq(S) /\ Len(u) = m + Len(t) /\ l \in Nat /\ m \in Nat /\ Len(t) \in Nat
      /\ \A i \in 1..m : u[i] = c[i]
      /\ \A i \in 1..Len(u) : i > m => u[i] = t[i - m]
  <2>1. l \in Nat
    BY <1>1
  <2>2. c \in Seq(S) /\ m = Len(c)
    BY <1>1, <1>2
  <2> QED
    BY ONLY <1>3, <2>1, <2>2, t \in Seq(S), ConcatAt
<1>5. /\ v \in Seq(S) /\ Len(v) = l + Len(t)
      /\ \A i \in 1..l : v[i] = s[i]
      /\ \A i \in 1..Len(v) : i > l => v[i] = t[i - l]
  BY <1>1, <1>3, ConcatAt
<1>6. PICK a, b : a = Cut(u, n) /\ b = Cut(v, n)
  OBVIOUS
<1>7. CutTo(S, u, n, a) /\ CutTo(S, v, n, b)
  BY <1>4, <1>5, <1>6, CutProperties
<1>8. Len(a) = Len(b) /\ Len(b) \in Nat
  BY <1>2, <1>4, <1>5, <1>7 DEF CutTo
<1>9. \A i \in 1..Len(a) : a[i] = b[i]
  <2> TAKE i \in 1..Len(a)
  <2>1. a[i] = u[i] /\ b[i] = v[i] /\ i \in 1..Len(u) /\ i \in 1..Len(v) /\ i <= n
    BY <1>4, <1>5, <1>7, <1>8 DEF CutTo
  <2>2. CASE i <= m
    <3>1. i \in 1..m /\ i \in 1..l
      BY <1>2, <1>4, <2>1, <2>2
    <3> QED
      BY <1>2, <1>4, <1>5, <2>1, <3>1
  <2>3. CASE i > m
    <3>1. m = l
      BY <1>2, <1>4, <2>1, <2>3
    <3> QED
      BY <1>4, <1>5, <2>1, <2>3, <3>1
  <2> QED
    BY <1>4, <2>1, <2>2, <2>3
<1>10. a = b
  BY <1>7, <1>8, <1>9, SeqEqual DEF CutTo
<1>11. ASSUME l >= n PROVE b = c
  <2>1. Len(b) = Len(c)
    BY <1>1, <1>2, <1>4, <1>5, <1>7, <1>11 DEF CutTo
  <2>2. \A i \in 1..Len(b) : b[i] = c[i]
    BY <1>1, <1>2, <1>4, <1>5, <1>7, <1>11, <2>1 DEF CutTo
  <2> QED
    BY <1>2, <1>7, <2>1, <2>2, SeqEqual DEF CutTo
<1> QED
  BY <1>1, <1>3, <1>6, <1>10, <1>11

\* What trimming leaves is a part of the text.
LEMMA TrimmedTyped ==
  ASSUME NEW S, NEW s \in Seq(S), NEW cutset
  PROVE  TrimRight(s, cutset) \in Seq(S) /\ TrimLeft(s, cutset) \in Seq(S)
<1> DEFINE I == {i \in 1..Len(s) : s[i] \notin cutset}
           last == SelectLastInSeq(s, LAMBDA b : b \notin cutset)
           first == SelectInSeq(s, LAMBDA b : b \notin cutset)
<1>1. last \in 0..Len(s) /\ first \in 0..Len(s)
  <2>1. CASE I = {}
    BY <2>1 DEF SelectLastInSeq, SelectInSeq
  <2>2. CASE I # {}
    <3>1. Max(I) \in I /\ Min(I) \in I
      <4>1. Len(s) \in Nat /\ I \in SUBSET (1..Len(s))
        OBVIOUS
      <4> HIDE DEF I
      <4> QED
        BY <2>2, <4>1, MaxOfPositions, MinOfPositions
    <3>2. last = Max(I) /\ first = Min(I)
      BY <2>2 DEF SelectLastInSeq, SelectInSeq
    <3> QED
      BY <3>1, <3>2
  <2> QED
    BY <2>1, <2>2
<1> HIDE DEF last, first
<1>2. SubSeq(s, 1, last) \in Seq(S) /\ (first # 0 => SubSeq(s, first, Len(s)) \in Seq(S))
  BY <1>1
<1>3. <<>> \in Seq(S)
  OBVIOUS
<1> QED
  BY <1>2, <1>3 DEF TrimRight, TrimLeft, last, first
-----------------------------------------------------------------------------
(***************************************************************************)
(* What ReadSlice takes off the input.                                      *)
(***************************************************************************)
Plain == Tokens \ {NL}

\* The slice is the beginning of the input and has a newline at its end at most;
\* the line it ends has one, or is the last of the stream.
SlicesOff(slice, rest) ==
  /\ slice \in Seq(Tokens) /\ rest \in Seq(Tokens) /\ input = slice \o rest
  /\ EndsLine(slice) => \/ \E p \in Seq(Plain) : slice = Append(p, NL)
                        \/ slice \in Seq(Plain) /\ rest = <<>>
  /\ ~ EndsLine(slice) => slice \in Seq(Plain) /\ slice # <<>>

LEMMA PlainUpTo ==
  ASSUME NEW s \in Seq(Tokens), \A i \in 1..Len(s) : s[i] # NL
  PROVE  s \in Seq(Plain)
<1>1. \A i \in 1..Len(s) : s[i] \in Tokens
  OBVIOUS
<1>2. \A i \in 1..Len(s) : s[i] \in Plain
  BY <1>1 DEF Plain
<1> QED
  BY <1>2

LEMMA SliceTaken ==
  ASSUME input \in Seq(Tokens), input # <<>> \/ buf # <<>>
  PROVE  SlicesOff(Slice, SubSeq(input, Len(Slice) + 1, Len(input)))
<1> DEFINE I == {i \in 1..Len(input) : input[i] = NL}
           nl == SelectInSeq(input, LAMBDA b : b = NL)
<1>0. BufferSize \in Nat /\ BufferSize > 0
  BY SizesAssumption
<1>1. /\ Len(input) \in Nat /\ nl \in 0..Len(input) /\ (nl # 0 => input[nl] = NL)
      /\ \A i \in 1..Len(input) : nl = 0 \/ i < nl => input[i] # NL
  <2>1. CASE I = {}
    BY <2>1 DEF SelectInSeq
  <2>2. CASE I # {}
    <3>1. PICK m : m = Min(I)
      OBVIOUS
    <3>2. m \in I /\ \A i \in I : m <= i
      <4>1. Len(input) \in Nat /\ I \in SUBSET (1..Len(input))
        OBVIOUS
      <4> HIDE DEF I
      <4> QED
        BY <2>2, <3>1, <4>1, MinOfPositions
    <3>3. nl = m
      BY <2>2, <3>1 DEF SelectInSeq
    <3>4. m \in 1..Len(input) /\ input[m] = NL /\ \A i \in 1..Len(input) : input[i] = NL => m <= i
      BY <3>2
    <3>5. \A i \in 1..Len(input) : i < m => input[i] # NL
      BY <3>4
    <3> HIDE DEF nl, I
    <3> QED
      BY <3>3, <3>4, <3>5
  <2> QED
    BY <2>1, <2>2
<1>2. Slice = IF nl = 0 THEN Cut(input, BufferSize) ELSE Cut(Cut(input, nl), BufferSize)
  BY DEF Slice
<1> HIDE DEF nl, I
<1>3. PICK k \in 0..Len(input) :
        /\ k <= BufferSize /\ (nl # 0 => k <= nl) /\ Len(Slice) = k
        /\ k = Len(input) \/ k = BufferSize \/ (nl # 0 /\ k = nl)
        /\ Slice \in Seq(Tokens) /\ \A i \in 1..k : Slice[i] = input[i]
  <2>1. CASE nl = 0
    <3>1. CutTo(Tokens, input, BufferSize, Slice)
      BY <1>0, <1>2, <2>1, CutProperties
    <3> QED
      BY <1>0, <1>1, <2>1, <3>1 DEF CutTo
  <2>2. CASE nl # 0
    <3>1. PICK c : c = Cut(input, nl)
      OBVIOUS
    <3>2. CutTo(Tokens, input, nl, c)
      BY <1>1, <3>1, CutProperties
    <3>3. c \in Seq(Tokens) /\ Len(c) = nl /\ \A i \in 1..nl : c[i] = input[i]
      BY <1>1, <3>2 DEF CutTo
    <3>4. CutTo(Tokens, c, BufferSize, Slice)
      BY <1>0, <1>2, <2>2, <3>1, <3>3, CutProperties
    <3>5. Slice \in Seq(Tokens) /\ Len(Slice) = (IF nl < BufferSize THEN nl ELSE BufferSize)
          /\ \A i \in 1..Len(Slice) : Slice[i] = c[i]
      BY <3>3, <3>4 DEF CutTo
    <3>6. PICK k : k = Len(Slice)
      OBVIOUS
    <3>7. k \in 0..Len(input) /\ k <= BufferSize /\ k <= nl /\ (k = BufferSize \/ k = nl)
      BY <1>0, <1>1, <2>2, <3>5, <3>6
    <3>8. \A i \in 1..k : i \in 1..nl
      BY <1>1, <3>7
    <3>9. \A i \in 1..k : Slice[i] = input[i]
      BY <3>3, <3>5, <3>6, <3>8
    <3> QED
      BY <2>2, <3>5, <3>6, <3>7, <3>9
  <2> QED
    BY <2>1, <2>2
<1>4. PICK slice, rest : slice = Slice /\ rest = SubSeq(input, k + 1, Len(input))
  OBVIOUS
<1>5. rest \in Seq(Tokens) /\ input = slice \o rest /\ (k = Len(input) => rest = <<>>)
  <2>1. k \in Nat /\ k <= Len(input) /\ Len(input) \in Nat
    BY <1>1
  <2>2. rest \in Seq(Tokens) /\ Len(rest) = Len(input) - k
        /\ \A i \in 1..Len(input) - k : rest[i] = input[i + k]
    BY <1>4, <2>1
  <2>3. PICK s : s = slice \o rest
    OBVIOUS
  <2>4. s \in Seq(Tokens) /\ Len(s) = Len(slice) + Len(rest)
        /\ (\A i \in 1..Len(slice) : s[i] = slice[i])
        /\ \A i \in 1..Len(s) : i > Len(slice) => s[i] = rest[i - Len(slice)]
    BY <1>3, <1>4, <2>2, <2>3, ConcatAt
  <2>5. Len(s) = Len(input) /\ Len(slice) = k
    BY <1>3, <1>4, <2>1, <2>2, <2>4
  <2>6. \A i \in 1..Len(s) : s[i] = input[i]
    <3> TAKE i \in 1..Len(s)
    <3>1. CASE i <= k
      <4>1. i \in 1..k /\ i \in 1..Len(slice)
        BY <2>1, <2>5, <3>1
      <4> QED
        BY <1>3, <1>4, <2>4, <4>1
    <3>2. CASE i > k
      <4>1. i - k \in 1..Len(input) - k /\ (i - k) + k = i
        BY <2>1, <2>5, <3>2
      <4> QED
        BY <2>2, <2>4, <2>5, <3>2, <4>1
    <3> QED
      BY <2>1, <3>1, <3>2
  <2>7. s = input
    BY <2>4, <2>5, <2>6, SeqEqual
  <2>8. k = Len(input) => rest = <<>>
    BY <2>1, <2>2
  <2> QED
    BY <2>2, <2>3, <2>7, <2>8
<1>6. /\ slice \in Seq(Tokens) /\ Len(slice) = k /\ k \in Nat
      /\ \A i \in 1..k : i # nl => slice[i] # NL
  <2>1. \A i \in 1..k : i \in 1..Len(input) /\ (i # nl => nl = 0 \/ i < nl)
    BY <1>1, <1>3
  <2> QED
    BY <1>1, <1>3, <1>4, <2>1
<1>7. ASSUME nl # 0, k = nl
      PROVE  EndsLine(slice) /\ \E p \in Seq(Plain) : slice = Append(p, NL)
  <2>1. slice # <<>> /\ slice[k] = NL /\ k \in 1..k
    BY <1>1, <1>3, <1>4, <1>6, <1>7
  <2>2. Last(slice) = NL
    BY <1>6, <2>1 DEF Last
  <2>3. Front(slice) \in Seq(Tokens) /\ Len(Front(slice)) = k - 1
        /\ \A i \in 1..k - 1 : Front(slice)[i] = slice[i]
    BY <1>6, <2>1, FrontProperties
  <2>4. \A i \in 1..Len(Front(slice)) : Front(slice)[i] # NL
    BY <1>6, <1>7, <2>3
  <2>5. Front(slice) \in Seq(Plain)
    BY <2>3, <2>4, PlainUpTo
  <2>6. slice = Append(Front(slice), NL)
    BY <1>6, <2>1, <2>2, FrontAndLast
  <2> QED
    BY <2>2, <2>5, <2>6 DEF EndsLine
<1>8. ASSUME nl = 0 \/ k # nl
      PROVE  /\ slice \in Seq(Plain)
             /\ EndsLine(slice) => rest = <<>>
             /\ ~ EndsLine(slice) => slice # <<>>
  <2>1. \A i \in 1..Len(slice) : slice[i] # NL
    BY <1>1, <1>3, <1>6, <1>8
  <2>2. slice \in Seq(Plain)
    BY <1>6, <2>1, PlainUpTo
  <2>3. k = BufferSize => slice # <<>> /\ Last(slice) # NL
    <3> SUFFICES ASSUME k = BufferSize PROVE slice # <<>> /\ Last(slice) # NL
      OBVIOUS
    <3>1. k \in 1..Len(slice)
      BY <1>0, <1>6
    <3>2. slice # <<>> /\ Last(slice) = slice[k]
      BY <1>6, <3>1 DEF Last
    <3> QED
      BY <2>1, <3>1, <3>2
  <2>4. EndsLine(slice) <=> k # BufferSize
    BY <1>6, <2>3 DEF EndsLine
  <2>5. k # BufferSize => k = Len(input)
    BY <1>1, <1>3, <1>8
  <2> QED
    BY <1>5, <2>2, <2>3, <2>4, <2>5
<1>9. SlicesOff(slice, rest)
  BY <1>5, <1>6, <1>7, <1>8 DEF SlicesOff
<1> QED
  BY <1>3, <1>4, <1>9
-----------------------------------------------------------------------------
(***************************************************************************)
(* What one more line adds to what is said of a stream.                     *)
(***************************************************************************)
Ending == [piece \in Seq(Plain) |-> Append(piece, NL)]

\* Nothing is left of the last line.
StartsLine(s) == s \in Seq(Tokens) /\ Last(Split(s, NL)) = <<>>

\* One line, terminated or the last of its stream.
IsLine(s) == s # <<>> /\ (s \in Seq(Plain) \/ \E p \in Seq(Plain) : s = Append(p, NL))

LEMMA TokensArePlainOrNewlines ==
  /\ NL \notin Plain /\ Tokens = Plain \cup {NL} /\ Seq(Tokens) = Texts(Plain, NL)
  /\ Seq(Plain) \subseteq Seq(Tokens) /\ \A p \in Seq(Plain) : Append(p, NL) \in Seq(Tokens)
<1>1. NL \notin Plain /\ Tokens = Plain \cup {NL}
  BY DEF Plain, Tokens
<1>2. Seq(Plain) \subseteq Seq(Tokens)
  BY <1>1, SeqMonotonic
<1>3. \A p \in Seq(Tokens) : Append(p, NL) \in Seq(Tokens)
  BY <1>1
<1> QED
  BY <1>1, <1>2, <1>3 DEF Texts

LEMMA EndingTyped == Ending \in [Seq(Plain) -> Seq(Tokens)]
BY TokensArePlainOrNewlines DEF Ending

\* The lines of a text are its pieces, all but the last with a newline.
LEMMA LinesOfPieces ==
  ASSUME NEW t, NEW f \in Seq(Seq(Plain)), NEW p \in Seq(Plain), Split(t, NL) = Append(f, p)
  PROVE  Lines(t) = IF p = <<>> THEN Mapped(Ending, f) ELSE Append(Mapped(Ending, f), p)
<1>1. PICK A, pieces : A = Seq(Plain) /\ pieces = Split(t, NL)
  OBVIOUS
<1>2. pieces \in Seq(A) /\ Len(pieces) = Len(f) + 1 /\ Len(f) \in Nat /\ \A i \in 1..Len(f) : pieces[i] = f[i]
  BY <1>1, AppendProperties
<1>3. Last(pieces) = p
  BY <1>1, FrontAndLastOfAppend
<1>4. Len(pieces) - 1 = Len(f)
  BY <1>2
<1>5. PICK ended : ended = [i \in 1..Len(pieces) - 1 |-> Append(pieces[i], NL)]
  OBVIOUS
<1>6. ended = Mapped(Ending, f)
  <2>1. ended = [i \in 1..Len(f) |-> Append(pieces[i], NL)]
    BY <1>4, <1>5
  <2>2. \A i \in 1..Len(f) : Append(pieces[i], NL) = Ending[f[i]]
    BY <1>2 DEF Ending
  <2>3. DOMAIN f = 1..Len(f)
    OBVIOUS
  <2> QED
    BY <2>1, <2>2, <2>3 DEF Mapped
<1>7. Lines(t) = IF p = <<>> THEN ended ELSE Append(ended, p)
  BY <1>1, <1>3, <1>5 DEF Lines
<1> QED
  BY <1>6, <1>7

LEMMA LinesTyped ==
  ASSUME NEW s \in Seq(Tokens)
  PROVE  Lines(s) \in Seq(Seq(Tokens))
<1>1. PICK A, V : A = Seq(Plain) /\ V = Seq(Tokens)
  OBVIOUS
<1>2. PICK f, p : f = Front(Split(s, NL)) /\ p = Last(Split(s, NL))
  OBVIOUS
<1>3. f \in Seq(A) /\ p \in A /\ Split(s, NL) = Append(f, p)
  BY <1>1, <1>2, TokensArePlainOrNewlines, SplitTyped
<1>4. Mapped(Ending, f) \in Seq(V)
  BY <1>1, <1>3, EndingTyped, MappedAppend DEF MapsOn
<1>5. p \in V
  BY <1>1, <1>3, TokensArePlainOrNewlines
<1>6. Lines(s) = IF p = <<>> THEN Mapped(Ending, f) ELSE Append(Mapped(Ending, f), p)
  BY <1>1, <1>3, LinesOfPieces
<1> QED
  BY <1>1, <1>4, <1>5, <1>6

LEMMA OneMoreLine ==
  ASSUME NEW done, StartsLine(done), NEW line, IsLine(line)
  PROVE  /\ Lines(done \o line) = Append(Lines(done), line)
         /\ \A p \in Seq(Plain) : line = Append(p, NL) => StartsLine(done \o line)
<1>1. PICK A, f : A = Seq(Plain) /\ f = Front(Split(done, NL))
  OBVIOUS
<1>2. /\ NL \notin Plain /\ Tokens = Plain \cup {NL} /\ Seq(Tokens) = Texts(Plain, NL)
      /\ done \in Seq(Tokens) /\ A \subseteq Seq(Tokens)
  BY <1>1, TokensArePlainOrNewlines DEF StartsLine
<1>3. f \in Seq(A) /\ <<>> \in A /\ Split(done, NL) = Append(f, <<>>) /\ Last(Split(done, NL)) = <<>>
  BY <1>1, <1>2, SplitTyped DEF StartsLine
<1>4. Lines(done) = Mapped(Ending, f)
  BY <1>1, <1>3, LinesOfPieces
<1>5. ASSUME NEW p \in Seq(Plain)
      PROVE  done \o p \in Seq(Tokens) /\ Split(done \o p, NL) = Append(f, p)
  <2>1. p \in Seq(Tokens) /\ p \in A
    BY <1>1, <1>2
  <2>2. Split(done \o p, NL) = f \o Split(<<>> \o p, NL)
    <3>1. done \in Texts(Plain, NL) /\ p \in Texts(Plain, NL) /\ NL \notin Plain
      BY <1>2, <2>1
    <3>2. Split(done \o p, NL) = Front(Split(done, NL)) \o Split(Last(Split(done, NL)) \o p, NL)
      BY ONLY <3>1, SplitConcat
    <3> QED
      BY <1>1, <1>3, <3>2
  <2>3. <<>> \o p = p
    BY ConcatEmptySeq
  <2>4. Split(p, NL) = <<p>>
    BY <1>2, SplitWhole
  <2>5. f \o <<p>> = Append(f, p)
    BY <1>3, <2>1, AppendIsConcat
  <2>6. done \o p \in Seq(Tokens)
    BY <1>2, <2>1
  <2> QED
    BY <2>2, <2>3, <2>4, <2>5, <2>6
<1>6. ASSUME NEW p \in Seq(Plain), line = Append(p, NL)
      PROVE  Lines(done \o line) = Append(Lines(done), line) /\ StartsLine(done \o line)
  <2>1. NL \in Tokens /\ p \in Seq(Tokens) /\ p \in A
    BY <1>1, <1>2
  <2>2. done \o line = Append(done \o p, NL)
    BY <1>2, <1>6, <2>1, ConcatAppend
  <2>3. done \o p \in Seq(Tokens) /\ Split(done \o p, NL) = Append(f, p)
    BY <1>5
  <2>4. PICK g : g = Append(f, p)
    OBVIOUS
  <2>5. g \in Seq(A)
    BY <1>3, <2>1, <2>4
  <2>6. Split(done \o line, NL) = Append(g, <<>>)
    <3>1. done \o p \in Texts(Plain, NL)
      BY <1>2, <2>3
    <3>2. Split(Append(done \o p, NL), NL) = Append(Split(done \o p, NL), <<>>)
      BY ONLY <3>1, SplitProperties
    <3> QED
      BY <2>2, <2>3, <2>4, <3>2
  <2>7. Lines(done \o line) = Mapped(Ending, g)
    BY <1>1, <1>3, <2>5, <2>6, LinesOfPieces
  <2>8. Mapped(Ending, g) = Append(Mapped(Ending, f), Ending[p])
    <3>1. PICK V : V = Seq(Tokens)
      OBVIOUS
    <3>2. Ending \in [A -> V]
      BY <1>1, <3>1, EndingTyped
    <3>3. MapsOn(Ending, f, p, V)
      BY ONLY <1>3, <2>1, <3>2, MappedAppend
    <3> QED
      BY <2>4, <3>3 DEF MapsOn
  <2>9. Ending[p] = line
    BY <1>6 DEF Ending
  <2>10. Last(Append(g, <<>>)) = <<>>
    BY <1>3, <2>5, FrontAndLastOfAppend
  <2>11. done \o line \in Seq(Tokens)
    BY <2>1, <2>2, <2>3
  <2> QED
    BY <1>4, <2>6, <2>7, <2>8, <2>9, <2>10, <2>11 DEF StartsLine
<1>7. CASE line \in Seq(Plain)
  <2>1. Split(done \o line, NL) = Append(f, line)
    BY <1>5, <1>7
  <2>2. line # <<>>
    BY DEF IsLine
  <2>3. Lines(done \o line) = Append(Mapped(Ending, f), line)
    BY <1>1, <1>3, <1>7, <2>1, <2>2, LinesOfPieces
  <2> QED
    BY <1>4, <1>6, <2>3
<1> QED
  BY <1>6, <1>7 DEF IsLine

KeptLine == [line \in Seq(Tokens) |-> Kept(line)]

TrimmedLine == [line \in Seq(Tokens) |-> TrimLeft(line, {Blank})]

LEMMA KeptTyped ==
  /\ \A line \in Seq(Tokens) : Kept(line) \in Seq(Tokens) /\ TrimLeft(line, {Blank}) \in Seq(Tokens)
  /\ KeptLine \in [Seq(Tokens) -> Seq(Tokens)] /\ TrimmedLine \in [Seq(Tokens) -> Seq(Tokens)]
<1>1. MaxLineBytes \in Nat
  BY SizesAssumption
<1>2. \A line \in Seq(Tokens) : Kept(line) \in Seq(Tokens)
  <2> TAKE line \in Seq(Tokens)
  <2>1. Cut(line, MaxLineBytes) \in Seq(Tokens)
    BY <1>1, CutProperties DEF CutTo
  <2> QED
    BY <2>1, TrimmedTyped DEF Kept
<1>3. \A line \in Seq(Tokens) : TrimLeft(line, {Blank}) \in Seq(Tokens)
  BY TrimmedTyped
<1> QED
  BY <1>2, <1>3 DEF KeptLine, TrimmedLine

\* What is said of a stream goes through the list of its lines.
OfLines(ls, kind) ==
  Filtered(Mapped(KeptLine, ls), {line \in Seq(Tokens) : Kind(line) = kind})

LEMMA ThroughLines ==
  ASSUME NEW s \in Seq(Tokens), NEW kind
  PROVE  OfKind(s, kind) = OfLines(Lines(s), kind)
<1>1. PICK V, ls : V = Seq(Tokens) /\ ls = Lines(s)
  OBVIOUS
<1>2. ls \in Seq(V)
  BY <1>1, LinesTyped
<1>3. \A i \in DOMAIN ls : Kept(ls[i]) = KeptLine[ls[i]]
  BY <1>1, <1>2 DEF KeptLine
<1>4. [i \in DOMAIN ls |-> Kept(ls[i])] = Mapped(KeptLine, ls)
  BY <1>3 DEF Mapped
<1> QED
  BY <1>1, <1>4 DEF OfKind, OfLines

\* One line more: of its own kind one more, of the others none.
KindOn(s, line, kind) ==
  OfKind(s \o line, kind) =
    IF Kind(Kept(line)) = kind THEN Append(OfKind(s, kind), Kept(line)) ELSE OfKind(s, kind)

LEMMA KindsTyped ==
  ASSUME NEW s \in Seq(Tokens), NEW kind
  PROVE  OfKind(s, kind) \in Seq(Seq(Tokens))
<1>1. PICK V, ls : V = Seq(Tokens) /\ ls = Lines(s)
  OBVIOUS
<1>2. ls \in Seq(V) /\ KeptLine \in [V -> V]
  BY <1>1, LinesTyped, KeptTyped
<1>3. Mapped(KeptLine, ls) \in Seq(V)
  <2>1. <<>> \in V
    BY <1>1
  <2>2. MapsOn(KeptLine, ls, <<>>, V)
    BY ONLY <1>2, <2>1, MappedAppend
  <2> QED
    BY <2>2 DEF MapsOn
<1>4. OfLines(ls, kind) \in Seq(V)
  BY <1>3, FilteredProperties DEF OfLines
<1> QED
  BY <1>1, <1>4, ThroughLines

LEMMA KindsTaken ==
  ASSUME NEW s, StartsLine(s), NEW line, IsLine(line), NEW kind
  PROVE  KindOn(s, line, kind)
<1>1. PICK V, ls : V = Seq(Tokens) /\ ls = Lines(s)
  OBVIOUS
<1>2. PICK kept : kept = {l \in Seq(Tokens) : Kind(l) = kind}
  OBVIOUS
<1>3. s \in V /\ line \in V /\ s \o line \in V
  BY <1>1, TokensArePlainOrNewlines DEF StartsLine, IsLine
<1>4. ls \in Seq(V) /\ KeptLine \in [V -> V] /\ KeptLine[line] = Kept(line) /\ Kept(line) \in V
  BY <1>1, <1>3, LinesTyped, KeptTyped DEF KeptLine
<1>5. MapsOn(KeptLine, ls, line, V)
  BY ONLY <1>3, <1>4, MappedAppend
<1>6. PICK m : m = Mapped(KeptLine, ls)
  OBVIOUS
<1>7. m \in Seq(V) /\ Mapped(KeptLine, Append(ls, line)) = Append(m, Kept(line))
  BY <1>4, <1>5, <1>6 DEF MapsOn
<1>8. FiltersOn(m, Kept(line), kept)
  BY ONLY <1>4, <1>7, FilteredProperties
<1>9. Lines(s \o line) = Append(ls, line)
  BY <1>1, OneMoreLine
<1>10. OfKind(s, kind) = Filtered(m, kept) /\ OfKind(s \o line, kind) = Filtered(Append(m, Kept(line)), kept)
  <2>1. OfKind(s, kind) = OfLines(ls, kind) /\ OfKind(s \o line, kind) = OfLines(Append(ls, line), kind)
    BY <1>1, <1>3, <1>9, ThroughLines
  <2> QED
    BY <1>2, <1>6, <1>7, <2>1 DEF OfLines
<1>11. Kept(line) \in kept <=> Kind(Kept(line)) = kind
  BY <1>1, <1>2, <1>4
<1> QED
  BY <1>8, <1>10, <1>11 DEF KindOn, FiltersOn

LEMMA OversizedTaken ==
  ASSUME NEW s, StartsLine(s), NEW line, IsLine(line)
  PROVE  /\ Faulty(s, "oversized") \in Seq(Seq(Tokens))
         /\ Faulty(s \o line, "oversized") =
              IF Len(line) > MaxLineBytes THEN Append(Faulty(s, "oversized"), line)
              ELSE Faulty(s, "oversized")
<1>1. PICK V, ls : V = Seq(Tokens) /\ ls = Lines(s)
  OBVIOUS
<1>2. PICK long : long = {l \in Seq(Tokens) : Len(l) > MaxLineBytes}
  OBVIOUS
<1>3. s \in V /\ line \in V
  BY <1>1, TokensArePlainOrNewlines DEF StartsLine, IsLine
<1>4. ls \in Seq(V) /\ Lines(s \o line) = Append(ls, line)
  BY <1>1, <1>3, LinesTyped, OneMoreLine
<1>5. FiltersOn(ls, line, long) /\ Filtered(ls, long) \in Seq(V)
  BY ONLY <1>3, <1>4, FilteredProperties
<1>6. Faulty(s, "oversized") = Filtered(ls, long) /\ Faulty(s \o line, "oversized") = Filtered(Append(ls, line), long)
  BY <1>1, <1>2, <1>4 DEF Faulty
<1>7. line \in long <=> Len(line) > MaxLineBytes
  BY <1>1, <1>2, <1>3
<1> QED
  BY <1>1, <1>5, <1>6, <1>7 DEF FiltersOn

LEMMA EventsTyped ==
  ASSUME NEW s \in Seq(Tokens)
  PROVE  /\ EventsOf(s) = Mapped(TrimmedLine, OfKind(s, "event"))
         /\ EventsOf(s) \in Seq(Seq(Tokens))
<1>1. PICK V, ls : V = Seq(Tokens) /\ ls = OfKind(s, "event")
  OBVIOUS
<1>2. ls \in Seq(V) /\ TrimmedLine \in [V -> V]
  BY <1>1, KindsTyped, KeptTyped
<1>3. \A i \in DOMAIN ls : TrimLeft(ls[i], {Blank}) = TrimmedLine[ls[i]]
  BY <1>1, <1>2 DEF TrimmedLine
<1>4. [i \in DOMAIN ls |-> TrimLeft(ls[i], {Blank})] = Mapped(TrimmedLine, ls)
  BY <1>3 DEF Mapped
<1>5. Mapped(TrimmedLine, ls) \in Seq(V)
  <2>1. <<>> \in V
    BY <1>1
  <2>2. MapsOn(TrimmedLine, ls, <<>>, V)
    BY ONLY <1>2, <2>1, MappedAppend
  <2> QED
    BY <2>2 DEF MapsOn
<1> QED
  BY <1>1, <1>4, <1>5 DEF EventsOf

LEMMA EventsTaken ==
  ASSUME NEW s, StartsLine(s), NEW line, IsLine(line)
  PROVE  EventsOf(s \o line) =
           IF Kind(Kept(line)) = "event" THEN Append(EventsOf(s), TrimLeft(Kept(line), {Blank}))
           ELSE EventsOf(s)
<1>1. PICK V, ls : V = Seq(Tokens) /\ ls = OfKind(s, "event")
  OBVIOUS
<1>2. s \in V /\ s \o line \in V /\ Kept(line) \in V
  <2>1. s \in V /\ line \in V
    BY <1>1, TokensArePlainOrNewlines DEF StartsLine, IsLine
  <2> QED
    BY <1>1, <2>1, KeptTyped
<1>3. ls \in Seq(V) /\ TrimmedLine \in [V -> V]
  BY <1>1, <1>2, KindsTyped, KeptTyped
<1>4. MapsOn(TrimmedLine, ls, Kept(line), V)
  BY ONLY <1>2, <1>3, MappedAppend
<1>5. OfKind(s \o line, "event") = IF Kind(Kept(line)) = "event" THEN Append(ls, Kept(line)) ELSE ls
  BY <1>1, KindsTaken DEF KindOn
<1>6. TrimmedLine[Kept(line)] = TrimLeft(Kept(line), {Blank})
  BY <1>1, <1>2 DEF TrimmedLine
<1> QED
  BY <1>1, <1>2, <1>4, <1>5, <1>6, EventsTyped DEF MapsOn
-----------------------------------------------------------------------------
(***************************************************************************)
(* The text kept of what is not JSON.                                       *)
(***************************************************************************)
LEMMA CutBehind ==
  ASSUME NEW S, NEW s \in Seq(S), NEW t \in Seq(S), NEW n \in Nat, Len(s) <= n
  PROVE  Cut(s \o t, n) = s \o Cut(t, n - Len(s))
<1>1. PICK l, m : l = Len(s) /\ m = n - l
  OBVIOUS
<1>2. l \in Nat /\ m \in Nat /\ n = l + m
  BY <1>1
<1>3. PICK c, a, u : c = Cut(t, m) /\ a = s \o c /\ u = s \o t
  OBVIOUS
<1>4. CutTo(S, t, m, c)
  BY <1>2, <1>3, CutProperties
<1>5. /\ u \in Seq(S) /\ Len(u) = l + Len(t) /\ Len(t) \in Nat
      /\ \A i \in 1..l : u[i] = s[i]
      /\ \A i \in 1..Len(u) : i > l => u[i] = t[i - l]
  BY <1>1, <1>3, ConcatAt
<1>6. /\ a \in Seq(S) /\ Len(a) = l + Len(c) /\ Len(c) \in Nat
      /\ \A i \in 1..l : a[i] = s[i]
      /\ \A i \in 1..Len(a) : i > l => a[i] = c[i - l]
  <2>1. c \in Seq(S)
    BY <1>4 DEF CutTo
  <2> QED
    BY ONLY <1>1, <1>3, <2>1, s \in Seq(S), ConcatAt
<1>7. PICK b : b = Cut(u, n)
  OBVIOUS
<1>8. CutTo(S, u, n, b)
  BY <1>5, <1>7, CutProperties
<1>9. Len(b) = Len(a)
  BY <1>2, <1>4, <1>5, <1>6, <1>8 DEF CutTo
<1>10. \A i \in 1..Len(b) : b[i] = a[i]
  <2> TAKE i \in 1..Len(b)
  <2>1. b[i] = u[i] /\ i \in 1..Len(u) /\ i \in 1..Len(a) /\ i \in Nat
    BY <1>2, <1>5, <1>6, <1>8, <1>9 DEF CutTo
  <2>2. CASE i <= l
    BY <1>2, <1>5, <1>6, <2>1, <2>2
  <2>3. CASE i > l
    <3>1. i - l \in 1..Len(c)
      BY <1>2, <1>6, <2>1, <2>3
    <3>2. c[i - l] = t[i - l]
      BY <1>4, <3>1 DEF CutTo
    <3> QED
      BY <1>5, <1>6, <2>1, <2>3, <3>2
  <2> QED
    BY <1>2, <2>1, <2>2, <2>3
<1>11. b = a
  BY <1>6, <1>8, <1>9, <1>10, SeqEqual DEF CutTo
<1> QED
  BY <1>1, <1>3, <1>7, <1>11

\* What is kept of the lines of a list, up to the cap.
Evidence(p, ls) ==
  /\ p \in Seq(Tokens) /\ Len(p) <= MaxPreambleBytes + 1
  /\ Cut(p, MaxPreambleBytes) = Cut(Joined(ls, NL), MaxPreambleBytes)
  /\ ls # <<>> => p # <<>>

\* recordUnparsed keeps what there is room for, and the cut text says the same
\* as all of it.
LEMMA EvidenceGrows ==
  ASSUME NEW p, NEW ls \in Seq(Seq(Tokens)), Evidence(p, ls), NEW line \in Seq(Tokens)
  PROVE  Evidence(Recorded(p, line), Append(ls, line))
<1>1. PICK M, n : M = MaxPreambleBytes /\ n = Len(p)
  OBVIOUS
<1>2. M \in Nat /\ M > 0 /\ n \in Nat /\ p \in Seq(Tokens) /\ n <= M + 1 /\ NL \in Tokens
  BY <1>1, SizesAssumption DEF Evidence, Tokens
<1>3. PICK all, more : all = Joined(ls, NL) /\ more = Joined(Append(ls, line), NL)
  OBVIOUS
<1>4. all \in Seq(Tokens) /\ Cut(p, M) = Cut(all, M)
  <2>1. Tokens \cup {NL} = Tokens
    BY <1>2
  <2> QED
    BY <1>1, <1>3, <2>1, JoinedTyped DEF Evidence, Texts
<1>5. more = all \o line \o <<NL>>
  BY <1>3, JoinedAppend
<1>6. all \o line \in Seq(Tokens) /\ <<NL>> \in Seq(Tokens) /\ more = Append(all \o line, NL)
      /\ more = all \o (line \o <<NL>>) /\ line \o <<NL>> \in Seq(Tokens) /\ more \in Seq(Tokens)
  <2>1. all \o line \in Seq(Tokens) /\ <<NL>> \in Seq(Tokens) /\ line \o <<NL>> \in Seq(Tokens)
    BY <1>2, <1>4
  <2>2. (all \o line) \o <<NL>> = all \o (line \o <<NL>>)
    BY <1>4, <2>1, ConcatAssociative
  <2>3. (all \o line) \o <<NL>> = Append(all \o line, NL)
    BY <1>2, <2>1, AppendIsConcat
  <2>4. Append(all \o line, NL) \in Seq(Tokens)
    BY <1>2, <2>1
  <2> QED
    BY <1>5, <2>1, <2>2, <2>3, <2>4
<1>7. /\ Len(Cut(p, M)) = (IF n < M THEN n ELSE M)
      /\ Len(Cut(all, M)) = (IF Len(all) < M THEN Len(all) ELSE M)
      /\ Len(all) \in Nat
  BY <1>1, <1>2, <1>4, CutProperties DEF CutTo
<1>8. CASE n >= M
  <2>1. Recorded(p, line) = p
    BY <1>1, <1>2, <1>8 DEF Recorded
  <2>2. Len(all) >= M
    BY <1>2, <1>4, <1>7, <1>8
  <2>3. Cut(more, M) = Cut(all, M)
    <3>1. M \in Nat /\ all \in Seq(Tokens) /\ line \o <<NL>> \in Seq(Tokens)
      BY <1>2, <1>4, <1>6
    <3>2. Cut(all \o (line \o <<NL>>), M) = Cut(all, M)
      BY ONLY <2>2, <3>1, CutAgain
    <3> QED
      BY <1>6, <3>2
  <2>4. p # <<>>
    BY <1>1, <1>2, <1>8
  <2> QED
    BY <1>1, <1>2, <1>3, <1>4, <2>1, <2>3, <2>4 DEF Evidence
<1>9. CASE n < M
  <2>1. all = p
    <3>1. Cut(p, M) = p
      BY <1>1, <1>2, <1>9, CutProperties
    <3>2. Len(all) <= M
      BY <1>2, <1>4, <1>7, <1>9
    <3>3. Cut(all, M) = all
      BY <1>2, <1>4, <3>2, CutProperties
    <3> QED
      BY <1>4, <3>1, <3>3
  <2>2. PICK r, c : r = M - n /\ c = Cut(line, r)
    OBVIOUS
  <2>3. r \in Nat /\ r > 0
    BY <1>2, <1>9, <2>2
  <2>4. Recorded(p, line) = Append(p \o c, NL)
    BY <1>1, <1>2, <1>9, <2>2, <2>3 DEF Recorded
  <2>5. CutTo(Tokens, line, r, c) /\ (Len(line) <= r => c = line) /\ Len(line) \in Nat
    BY <2>2, <2>3, CutProperties
  <2>6. PICK q : q = p \o c
    OBVIOUS
  <2>7. q \in Seq(Tokens) /\ Len(q) = n + Len(c) /\ Len(c) \in Nat /\ Len(c) <= r
    <3>1. c \in Seq(Tokens) /\ Len(c) = (IF Len(line) < r THEN Len(line) ELSE r) /\ Len(line) \in Nat
      BY <2>5 DEF CutTo
    <3>2. p \in Seq(Tokens)
      BY <1>2
    <3>3. q \in Seq(Tokens) /\ Len(q) = Len(p) + Len(c)
      BY ONLY <2>6, <3>1, <3>2, ConcatAt
    <3> QED
      BY <1>1, <2>3, <3>1, <3>3
  <2>8. PICK k : k = Append(q, NL)
    OBVIOUS
  <2>9. k \in Seq(Tokens) /\ Len(k) = n + Len(c) + 1 /\ Len(k) <= M + 1 /\ k # <<>>
    <3>1. k \in Seq(Tokens) /\ Len(k) = Len(q) + 1
      BY ONLY <1>2, <2>7, <2>8, AppendProperties
    <3>2. Len(k) # 0 /\ Len(k) <= M + 1
      BY <1>2, <2>2, <2>3, <2>7, <3>1
    <3> QED
      BY <2>7, <3>1, <3>2
  <2>10. CASE Len(line) <= r
    <3>1. k = more
      BY <1>6, <2>1, <2>5, <2>6, <2>8, <2>10
    <3> QED
      BY <1>1, <1>3, <2>4, <2>6, <2>8, <2>9, <3>1 DEF Evidence
  <2>11. CASE Len(line) > r
    <3>1. Len(q) = M
      BY <1>2, <2>2, <2>3, <2>5, <2>7, <2>11 DEF CutTo
    <3>2. Cut(q \o <<NL>>, M) = Cut(q, M) /\ q \o <<NL>> = k
      <4>1. M \in Nat /\ q \in Seq(Tokens) /\ <<NL>> \in Seq(Tokens) /\ NL \in Tokens /\ Len(q) >= M
        BY <1>2, <1>6, <2>7, <3>1
      <4>2. Cut(q \o <<NL>>, M) = Cut(q, M)
        BY ONLY <4>1, CutAgain
      <4>3. q \o <<NL>> = k
        BY ONLY <2>8, <4>1, AppendIsConcat
      <4> QED
        BY <4>2, <4>3
    <3>3. Cut(q, M) = q
      BY <1>2, <2>7, <3>1, CutProperties
    <3>4. Cut(p \o line, M) = q
      <4>1. p \in Seq(Tokens) /\ line \in Seq(Tokens) /\ M \in Nat /\ Len(p) <= M
        BY <1>1, <1>2, <1>9
      <4>2. Cut(p \o line, M) = p \o Cut(line, M - Len(p))
        BY ONLY <4>1, CutBehind
      <4> QED
        BY <1>1, <2>2, <2>6, <4>2
    <3>5. Len(all \o line) >= M
      BY <1>1, <1>2, <2>1, <2>2, <2>5, <2>11
    <3>6. Cut(more, M) = Cut(all \o line, M)
      <4>1. M \in Nat /\ all \o line \in Seq(Tokens) /\ <<NL>> \in Seq(Tokens)
        BY <1>2, <1>6
      <4>2. Cut((all \o line) \o <<NL>>, M) = Cut(all \o line, M)
        BY ONLY <3>5, <4>1, CutAgain
      <4> QED
        BY <1>5, <4>2
    <3>7. Cut(k, M) = Cut(more, M)
      BY <2>1, <3>2, <3>3, <3>4, <3>6
    <3> QED
      BY <1>1, <1>3, <2>4, <2>6, <2>8, <2>9, <3>7 DEF Evidence
  <2> QED
    BY <2>3, <2>5, <2>10, <2>11
<1> QED
  BY <1>2, <1>8, <1>9
-----------------------------------------------------------------------------
\* What is said of the lines read so far is the beginning of what is said of all.
LEMMA LinesGoOn ==
  ASSUME NEW done, StartsLine(done), NEW rest \in Seq(Tokens)
  PROVE  Lines(done \o rest) = Lines(done) \o Lines(rest)
<1>1. PICK A, V, f, g, q : /\ A = Seq(Plain) /\ V = Seq(Tokens) /\ f = Front(Split(done, NL))
                          /\ g = Front(Split(rest, NL)) /\ q = Last(Split(rest, NL))
  OBVIOUS
<1>2. /\ NL \notin Plain /\ done \in Texts(Plain, NL) /\ rest \in Texts(Plain, NL)
      /\ A \subseteq V /\ done \in Seq(Tokens)
  BY <1>1, TokensArePlainOrNewlines DEF StartsLine
<1>3. f \in Seq(A) /\ <<>> \in A /\ Split(done, NL) = Append(f, <<>>) /\ Last(Split(done, NL)) = <<>>
  BY <1>1, <1>2, SplitTyped DEF StartsLine
<1>4. g \in Seq(A) /\ q \in A /\ Split(rest, NL) = Append(g, q)
  BY <1>1, <1>2, SplitTyped
<1>5. Split(done \o rest, NL) = f \o Append(g, q)
  <2>1. Split(done \o rest, NL) = Front(Split(done, NL)) \o Split(Last(Split(done, NL)) \o rest, NL)
    BY ONLY <1>2, SplitConcat
  <2>2. <<>> \o rest = rest
    BY ConcatEmptySeq
  <2> QED
    BY <1>1, <1>3, <1>4, <2>1, <2>2
<1>6. f \o Append(g, q) = Append(f \o g, q) /\ f \o g \in Seq(A)
  BY <1>3, <1>4, ConcatAppend
<1>7. PICK a, b : a = Mapped(Ending, f) /\ b = Mapped(Ending, g)
  OBVIOUS
<1>8. Ending \in [A -> V]
  BY <1>1, EndingTyped
<1>9. a \in Seq(V) /\ b \in Seq(V) /\ Mapped(Ending, f \o g) = a \o b
  <2>1. MapsConcat(Ending, f, g, V)
    BY ONLY <1>3, <1>4, <1>8, MappedConcat
  <2> QED
    BY <1>7, <2>1 DEF MapsConcat
<1>10. Lines(done) = a
  BY <1>1, <1>3, <1>7, LinesOfPieces
<1>11. Lines(rest) = IF q = <<>> THEN b ELSE Append(b, q)
  BY <1>1, <1>4, <1>7, LinesOfPieces
<1>12. Lines(done \o rest) = IF q = <<>> THEN a \o b ELSE Append(a \o b, q)
  BY <1>1, <1>4, <1>5, <1>6, <1>9, LinesOfPieces
<1>13. a \o Append(b, q) = Append(a \o b, q)
  <2>1. q \in V
    BY <1>2, <1>4
  <2> QED
    BY ONLY <1>9, <2>1, ConcatAppend
<1> QED
  BY <1>10, <1>11, <1>12, <1>13

LEMMA EventsGoOn ==
  ASSUME NEW done, StartsLine(done), NEW rest \in Seq(Tokens)
  PROVE  EventsOf(done \o rest) = EventsOf(done) \o EventsOf(rest)
<1>1. PICK V, kept : V = Seq(Tokens) /\ kept = {l \in Seq(Tokens) : Kind(l) = "event"}
  OBVIOUS
<1>2. PICK u, v : u = Lines(done) /\ v = Lines(rest)
  OBVIOUS
<1>3. done \in Seq(Tokens) /\ done \o rest \in Seq(Tokens)
  BY DEF StartsLine
<1>4. u \in Seq(V) /\ v \in Seq(V) /\ Lines(done \o rest) = u \o v
  BY <1>1, <1>2, <1>3, LinesTyped, LinesGoOn
<1>5. KeptLine \in [V -> V] /\ TrimmedLine \in [V -> V]
  BY <1>1, KeptTyped
<1>6. PICK a, b : a = Mapped(KeptLine, u) /\ b = Mapped(KeptLine, v)
  OBVIOUS
<1>7. a \in Seq(V) /\ b \in Seq(V) /\ Mapped(KeptLine, u \o v) = a \o b
  <2>1. MapsConcat(KeptLine, u, v, V)
    BY ONLY <1>4, <1>5, MappedConcat
  <2> QED
    BY <1>6, <2>1 DEF MapsConcat
<1>8. PICK c, d : c = Filtered(a, kept) /\ d = Filtered(b, kept)
  OBVIOUS
<1>9. c \in Seq(V) /\ d \in Seq(V) /\ Filtered(a \o b, kept) = c \o d
  BY <1>7, <1>8, FilteredProperties, FilteredConcat
<1>10. OfKind(done, "event") = c /\ OfKind(rest, "event") = d /\ OfKind(done \o rest, "event") = c \o d
  <2>1. OfKind(done, "event") = OfLines(u, "event") /\ OfKind(rest, "event") = OfLines(v, "event")
        /\ OfKind(done \o rest, "event") = OfLines(u \o v, "event")
    BY <1>2, <1>3, <1>4, ThroughLines
  <2> QED
    BY <1>1, <1>6, <1>7, <1>8, <1>9, <2>1 DEF OfLines
<1>11. Mapped(TrimmedLine, c \o d) = Mapped(TrimmedLine, c) \o Mapped(TrimmedLine, d)
  <2>1. MapsConcat(TrimmedLine, c, d, V)
    BY ONLY <1>5, <1>9, MappedConcat
  <2> QED
    BY <2>1 DEF MapsConcat
<1> QED
  BY <1>3, <1>10, <1>11, EventsTyped

\* The events of the first n streams.
EventsOfFirst(n) == FlattenSeq([i \in 1..n |-> EventsOf(files[i])])

LEMMA EventsOfOneMore ==
  ASSUME NEW n \in Nat, \A i \in 1..n + 1 : files[i] \in Seq(Tokens)
  PROVE  /\ EventsOfFirst(n) \in Seq(Seq(Tokens))
         /\ EventsOfFirst(n + 1) = EventsOfFirst(n) \o EventsOf(files[n + 1])
<1>1. PICK V, A : V = Seq(Tokens) /\ A = Seq(V)
  OBVIOUS
<1>2. \A i \in 1..n + 1 : EventsOf(files[i]) \in A
  BY <1>1, EventsTyped
<1>3. PICK s, t, e : /\ s = [i \in 1..n |-> EventsOf(files[i])] /\ e = EventsOf(files[n + 1])
                    /\ t = [i \in 1..n + 1 |-> EventsOf(files[i])]
  OBVIOUS
<1>4. s \in Seq(A) /\ Len(s) = n /\ t \in Seq(A) /\ Len(t) = n + 1 /\ e \in A
  <2>1. n + 1 \in Nat /\ n + 1 \in 1..n + 1 /\ \A i \in 1..n : i \in 1..n + 1
    OBVIOUS
  <2>2. s \in [1..n -> A] /\ t \in [1..n + 1 -> A]
    BY <1>2, <1>3, <2>1
  <2> QED
    BY <1>2, <1>3, <2>1, <2>2
<1>5. PICK a : a = Append(s, e)
  OBVIOUS
<1>6. a \in Seq(A) /\ Len(a) = n + 1 /\ a[n + 1] = e /\ \A i \in 1..n : a[i] = s[i]
  BY <1>4, <1>5, AppendProperties
<1>7. \A i \in 1..n + 1 : t[i] = a[i]
  <2> TAKE i \in 1..n + 1
  <2>1. i \in 1..n \/ i = n + 1
    OBVIOUS
  <2> QED
    BY <1>3, <1>6, <2>1
<1>8. t = a
  BY <1>4, <1>6, <1>7, SeqEqual
<1>9. FlattenSeq(s) \in Seq(V) /\ FlattenSeq(Append(s, e)) = FlattenSeq(s) \o e
  BY <1>1, <1>4, FlattenProperties
<1> QED
  BY <1>1, <1>3, <1>5, <1>8, <1>9 DEF EventsOfFirst

LEMMA EventsOfNone == EventsOfFirst(0) = <<>>
<1>1. [i \in 1..0 |-> EventsOf(files[i])] = <<>>
  OBVIOUS
<1> QED
  BY <1>1, FlattenProperties DEF EventsOfFirst
-----------------------------------------------------------------------------
(***************************************************************************)
(* The inductive invariant: what has been read of the stream is so many whole *)
(* lines and the beginning of one.                                          *)
(***************************************************************************)
\* The statistics after whole lines, and after the beginning of one that is too long.
StatsOf(done, long) ==
  [field \in Fields |-> Len(Faulty(done, field)) + IF field = "oversized" /\ long THEN 1 ELSE 0]

\* Between two slices: `done' lines are accounted for, `open' is in the buffer.
At(done, open) ==
  /\ done \in Seq(Tokens) /\ open \in Seq(Plain)
  /\ files[current] = done \o (open \o input)
  /\ StartsLine(done) \/ open \o input = <<>>
  /\ buf = Cut(open, MaxLineBytes)
  /\ truncated \in BOOLEAN /\ (truncated <=> Len(open) > MaxLineBytes)
  /\ stats = StatsOf(done, truncated)
  /\ Evidence(preamble, OfKind(done, "unparsed"))
  /\ events = EventsOfFirst(current - 1) \o EventsOf(done)

\* The streams that have been read to their end.
Exhausted == IF reading THEN current - 1 ELSE current

FilesOK ==
  /\ files \in Seq({Missing} \cup Seq(Tokens))
  /\ fromFiles \in BOOLEAN /\ reading \in BOOLEAN
  /\ ~fromFiles => Len(files) = 1
  /\ \A i \in 1..current : files[i] \in Seq(Tokens)

ReadingOK ==
  /\ reading => /\ current > 0 /\ outcome = "reading"
                /\ \E done, open : At(done, open)
  /\ ~reading => events = EventsOfFirst(current)
  /\ outcome = "reported" => ~reading /\ current = Len(files)

\* What a report would say is wrong is so of one of the streams read so far.
TotalsOK ==
  \A field \in Fields :
    totals[field] > 0 <=> /\ field = "unknown" => ~fromFiles
                          /\ \E i \in 1..Exhausted : Faulty(files[i], field) # <<>>

IInv == TypeOK /\ FilesOK /\ ReadingOK /\ TotalsOK

LEMMA FaultyTyped ==
  ASSUME NEW s \in Seq(Tokens), NEW field
  PROVE  Faulty(s, field) \in Seq(Seq(Tokens)) /\ Len(Faulty(s, field)) \in Nat
<1>1. PICK V, ls : V = Seq(Tokens) /\ ls = Lines(s)
  OBVIOUS
<1>2. PICK long : long = {l \in Seq(Tokens) : Len(l) > MaxLineBytes}
  OBVIOUS
<1>3. ls \in Seq(V)
  BY <1>1, LinesTyped
<1>4. Filtered(ls, long) \in Seq(V)
  BY <1>3, FilteredProperties
<1>5. OfKind(s, field) \in Seq(V)
  BY <1>1, KindsTyped
<1>6. Faulty(s, field) \in Seq(V)
  BY <1>1, <1>2, <1>4, <1>5 DEF Faulty
<1> QED
  BY <1>1, <1>6

\* A line more counts once, under what is wrong with it.
FaultsOn(s, line, field) ==
  Len(Faulty(s \o line, field)) =
    Len(Faulty(s, field)) +
      IF IF field = "oversized" THEN Len(line) > MaxLineBytes ELSE Kind(Kept(line)) = field
      THEN 1 ELSE 0

LEMMA FaultyTaken ==
  ASSUME NEW s, StartsLine(s), NEW line, IsLine(line), NEW field
  PROVE  FaultsOn(s, line, field)
<1>1. PICK V, a, b, e : V = Seq(Tokens) /\ a = Faulty(s, field) /\ b = Faulty(s \o line, field)
                         /\ e = IF field = "oversized" THEN line ELSE Kept(line)
  OBVIOUS
<1>2. s \in V /\ line \in V /\ Kept(line) \in V /\ e \in V
  <2>1. s \in V /\ line \in V
    BY <1>1, TokensArePlainOrNewlines DEF StartsLine, IsLine
  <2> QED
    BY <1>1, <2>1, KeptTyped
<1>3. a \in Seq(V) /\ Len(a) \in Nat
  BY <1>1, <1>2, FaultyTyped
<1>4. PICK more \in BOOLEAN :
        more <=> IF field = "oversized" THEN Len(line) > MaxLineBytes ELSE Kind(Kept(line)) = field
  OBVIOUS
<1>5. b = IF more THEN Append(a, e) ELSE a
  <2>1. CASE field = "oversized"
    BY <1>1, <1>4, <2>1, OversizedTaken
  <2>2. CASE field # "oversized"
    BY <1>1, <1>4, <2>2, KindsTaken DEF KindOn, Faulty
  <2> QED
    BY <2>1, <2>2
<1>6. Len(Append(a, e)) = Len(a) + 1
  BY <1>2, <1>3, AppendProperties
<1>7. Len(b) = Len(a) + IF more THEN 1 ELSE 0
  BY <1>3, <1>5, <1>6
<1> QED
  BY <1>1, <1>4, <1>7 DEF FaultsOn

\* The buffer holds the line up to the cap, and the cap is seen to be passed once.
LEMMA SliceAdded ==
  ASSUME NEW done \in Seq(Tokens), NEW open \in Seq(Plain), NEW slice \in Seq(Tokens),
         buf = Cut(open, MaxLineBytes), truncated \in BOOLEAN,
         truncated <=> Len(open) > MaxLineBytes, stats = StatsOf(done, truncated)
  PROVE  /\ Extended(slice) = Cut(open \o slice, MaxLineBytes)
         /\ truncated \/ Overflows(slice) <=> Len(open \o slice) > MaxLineBytes
         /\ Seen(slice) = StatsOf(done, truncated \/ Overflows(slice))
<1>1. PICK M, l, k, u : M = MaxLineBytes /\ l = Len(open) /\ k = Len(slice) /\ u = open \o slice
  OBVIOUS
<1>2. M \in Nat /\ open \in Seq(Tokens) /\ l \in Nat /\ k \in Nat
  BY <1>1, SizesAssumption, TokensArePlainOrNewlines
<1>3. Len(u) = l + k
  BY <1>1, <1>2, ConcatProperties
<1>4. Cut(open, M) = IF l <= M THEN open ELSE Cut(open, M)
  BY <1>1, <1>2, CutProperties
<1>5. CASE truncated
  <2>1. l > M
    BY <1>1, <1>5
  <2>2. Cut(u, M) = Cut(open, M)
    BY <1>1, <1>2, <2>1, CutAgain
  <2>3. Extended(slice) = Cut(u, M) /\ ~ Overflows(slice)
    BY <1>1, <1>5, <2>2 DEF Extended, Overflows
  <2>4. Len(u) > M
    BY <1>2, <1>3, <2>1
  <2>5. Seen(slice) = StatsOf(done, truncated \/ Overflows(slice))
    <3>1. (truncated \/ Overflows(slice)) = truncated
      BY <1>5, <2>3
    <3> QED
      BY <2>3, <3>1 DEF Seen
  <2> QED
    BY <1>1, <1>5, <2>3, <2>4, <2>5
<1>6. CASE ~ truncated
  <2>1. l <= M
    BY <1>1, <1>2, <1>6
  <2>2. buf = open
    BY <1>1, <1>4, <2>1
  <2>3. Extended(slice) = Cut(u, M)
    BY <1>1, <1>6, <2>2 DEF Extended
  <2>4. Overflows(slice) <=> Len(u) > M
    BY <1>1, <1>3, <1>6, <2>2 DEF Overflows
  <2>5. PICK n : n = Len(Faulty(done, "oversized"))
    OBVIOUS
  <2>6. n \in Nat
    BY <2>5, FaultyTyped
  <2>7. CASE Overflows(slice)
    <3>1. [stats EXCEPT !.oversized = @ + 1] = StatsOf(done, TRUE)
      <4> DEFINE after == [stats EXCEPT !.oversized = @ + 1]
                 wanted == StatsOf(done, TRUE)
      <4>1. stats = [field \in Fields |-> Len(Faulty(done, field)) + 0]
        BY <1>6 DEF StatsOf
      <4>2. DOMAIN after = Fields /\ wanted = [field \in Fields |-> wanted[field]]
            /\ after = [field \in Fields |-> after[field]]
        BY <4>1 DEF StatsOf
      <4>3. "oversized" \in Fields /\ stats.oversized = n
        BY <2>5, <2>6, <4>1 DEF Fields
      <4>4. after["oversized"] = n + 1 /\ wanted["oversized"] = n + 1
        BY <2>5, <4>1, <4>3 DEF StatsOf
      <4>5. \A field \in Fields : field # "oversized" => after[field] = wanted[field]
        BY <4>1 DEF StatsOf
      <4> HIDE DEF after, wanted
      <4>6. \A field \in Fields : after[field] = wanted[field]
        BY <4>4, <4>5
      <4> QED
        BY <4>2, <4>6 DEF after, wanted
    <3>2. (truncated \/ Overflows(slice)) = TRUE
      BY <2>7
    <3> QED
      BY <1>1, <2>3, <2>4, <2>7, <3>1, <3>2 DEF Seen
  <2>8. CASE ~ Overflows(slice)
    <3>1. (truncated \/ Overflows(slice)) = truncated
      BY <1>6, <2>8
    <3> QED
      BY <1>1, <1>6, <2>3, <2>4, <2>8, <3>1 DEF Seen
  <2> QED
    BY <2>7, <2>8
<1> QED
  BY <1>5, <1>6

\* A slice inside a line.
LEMMA ContinuesAt ==
  ASSUME NEW done, NEW open, At(done, open), NEW slice, SlicesOff(slice, input'), Continues(slice),
         DecoderTypeOK, UNCHANGED <<files, current>>
  PROVE  At(done, open \o slice)' /\ DecoderTypeOK'
<1>1. /\ done \in Seq(Tokens) /\ open \in Seq(Plain) /\ files[current] = done \o (open \o input)
      /\ StartsLine(done) \/ open \o input = <<>>
      /\ buf = Cut(open, MaxLineBytes)
      /\ truncated \in BOOLEAN /\ (truncated <=> Len(open) > MaxLineBytes)
      /\ stats = StatsOf(done, truncated)
      /\ Evidence(preamble, OfKind(done, "unparsed"))
      /\ events = EventsOfFirst(current - 1) \o EventsOf(done)
  BY DEF At
<1>2. /\ slice \in Seq(Tokens) /\ input' \in Seq(Tokens) /\ input = slice \o input'
      /\ slice \in Seq(Plain) /\ slice # <<>>
  BY DEF SlicesOff, Continues
<1>3. PICK more : more = open \o slice
  OBVIOUS
<1>4. more \in Seq(Plain) /\ open \in Seq(Tokens) /\ more \in Seq(Tokens)
  BY <1>1, <1>2, <1>3, TokensArePlainOrNewlines
<1>5. /\ buf' = Cut(more, MaxLineBytes)
      /\ truncated' \in BOOLEAN /\ (truncated' <=> Len(more) > MaxLineBytes)
      /\ stats' = StatsOf(done, truncated')
  <2>1. /\ Extended(slice) = Cut(more, MaxLineBytes)
        /\ truncated \/ Overflows(slice) <=> Len(more) > MaxLineBytes
        /\ Seen(slice) = StatsOf(done, truncated \/ Overflows(slice))
    BY <1>1, <1>2, <1>3, SliceAdded
  <2>2. truncated' = (truncated \/ Overflows(slice)) /\ buf' = Extended(slice) /\ stats' = Seen(slice)
    BY DEF Continues
  <2> QED
    BY <2>1, <2>2
<1>6. open \o input = more \o input'
  BY <1>2, <1>3, <1>4, ConcatAssociative
<1>7. files'[current'] = done \o (more \o input')
  BY <1>1, <1>6
<1>8. StartsLine(done) \/ more \o input' = <<>>
  BY <1>1, <1>6
<1>9. preamble' = preamble /\ events' = events /\ files' = files /\ current' = current
  BY DEF Continues
<1>10. EventsOfFirst(current - 1)' = EventsOfFirst(current - 1)
  BY <1>9 DEF EventsOfFirst
<1>11. At(done, more)'
  BY <1>1, <1>4, <1>5, <1>7, <1>8, <1>9, <1>10 DEF At
<1>12. DecoderTypeOK'
  <2>1. buf' \in Seq(Tokens) /\ Len(buf') <= MaxLineBytes
    BY <1>4, <1>5, CutProperties, SizesAssumption DEF CutTo
  <2>2. stats' \in [Fields -> Nat]
    BY <1>1, <1>5, FaultyTyped DEF StatsOf
  <2> QED
    BY <1>2, <1>5, <1>9, <2>1, <2>2 DEF DecoderTypeOK
<1> QED
  BY <1>3, <1>11, <1>12

\* The last slice of a line, and what is made of the line.
LEMMA CompletesAt ==
  ASSUME NEW done, NEW open, At(done, open), NEW slice, SlicesOff(slice, input'), Completes(slice),
         DecoderTypeOK, UNCHANGED <<files, current>>, input # <<>> \/ buf # <<>>,
         current \in Nat, current > 0, \A i \in 1..current : files[i] \in Seq(Tokens)
  PROVE  At(done \o (open \o slice), <<>>)' /\ DecoderTypeOK'
<1>1. /\ done \in Seq(Tokens) /\ open \in Seq(Plain) /\ files[current] = done \o (open \o input)
      /\ StartsLine(done) \/ open \o input = <<>>
      /\ buf = Cut(open, MaxLineBytes)
      /\ truncated \in BOOLEAN /\ (truncated <=> Len(open) > MaxLineBytes)
      /\ stats = StatsOf(done, truncated)
      /\ Evidence(preamble, OfKind(done, "unparsed"))
      /\ events = EventsOfFirst(current - 1) \o EventsOf(done)
  BY DEF At
<1>2. /\ slice \in Seq(Tokens) /\ input' \in Seq(Tokens) /\ input = slice \o input'
      /\ \/ \E p \in Seq(Plain) : slice = Append(p, NL)
         \/ slice \in Seq(Plain) /\ input' = <<>>
  BY DEF SlicesOff, Completes
<1>3. PICK line, kept, read, P, M : /\ line = open \o slice /\ kept = Kept(line) /\ read = done \o line
                                    /\ P = Seq(Plain) /\ M = MaxLineBytes
  OBVIOUS
<1>4. /\ P \subseteq Seq(Tokens) /\ open \in Seq(Tokens) /\ line \in Seq(Tokens) /\ read \in Seq(Tokens)
      /\ kept \in Seq(Tokens) /\ M \in Nat /\ M > 0 /\ NL \in Tokens
  <2>1. P \subseteq Seq(Tokens) /\ NL \in Tokens
    BY <1>3, TokensArePlainOrNewlines
  <2>2. open \in Seq(Tokens)
    BY <1>1, <1>3, <2>1
  <2>3. line \in Seq(Tokens) /\ read \in Seq(Tokens)
    BY <1>1, <1>2, <1>3, <2>2
  <2>4. M \in Nat /\ M > 0
    BY <1>3, SizesAssumption
  <2>5. kept \in Seq(Tokens)
    BY <1>3, <2>3, KeptTyped
  <2> QED
    BY <2>1, <2>2, <2>3, <2>4, <2>5
<1>5. open # <<>> \/ input # <<>>
  <2>1. Len(<<>>) <= M /\ <<>> \in Seq(Tokens)
    BY <1>4
  <2>2. Cut(<<>>, M) = <<>>
    BY <1>4, <2>1, CutProperties
  <2> QED
    BY <1>1, <1>3, <2>2
<1>6. StartsLine(done)
  <2>1. open \o input = <<>> => open = <<>> /\ input = <<>>
    BY <1>2, <1>4, ConcatEmptySeq DEF DecoderTypeOK
  <2> QED
    BY <1>1, <1>5, <2>1
<1>7. /\ \A p \in P : slice = Append(p, NL) => open \o p \in P /\ line = Append(open \o p, NL)
      /\ slice \in P => line \in P
  <2>1. open \in P
    BY <1>1, <1>3
  <2>2. \A p \in P : open \o p \in P
    BY <1>3, <2>1
  <2>3. \A p \in P : p \in Seq(Tokens)
    BY <1>4
  <2>4. \A p \in P : open \o Append(p, NL) = Append(open \o p, NL)
    BY ONLY <1>4, <2>3, ConcatAppend
  <2> QED
    BY <1>3, <2>2, <2>4
<1>8. IsLine(line)
  <2>1. CASE slice \in P /\ input' = <<>>
    <3>1. slice = input
      BY <1>2, <2>1, ConcatEmptySeq
    <3>2. line # <<>>
      BY <1>3, <1>4, <1>5, <3>1, ConcatEmptySeq
    <3> QED
      BY <1>3, <1>7, <2>1, <3>2 DEF IsLine
  <2>2. ASSUME NEW p \in P, slice = Append(p, NL) PROVE IsLine(line)
    <3>1. open \o p \in P /\ line = Append(open \o p, NL)
      BY <1>7, <2>2
    <3>2. line # <<>>
      BY <1>3, <3>1
    <3> QED
      BY <1>3, <3>1, <3>2 DEF IsLine
  <2> QED
    BY <1>2, <1>3, <2>1, <2>2
<1>9. StartsLine(read) \/ <<>> \o input' = <<>>
  <2>1. ASSUME NEW p \in P, slice = Append(p, NL) PROVE StartsLine(read)
    BY <1>3, <1>6, <1>7, <1>8, <2>1, OneMoreLine
  <2>2. <<>> \o input' = input'
    BY <1>2, ConcatEmptySeq
  <2> QED
    BY <1>2, <1>3, <2>1, <2>2
<1>10. files'[current'] = read \o (<<>> \o input')
  <2>0. PICK rest : rest = input'
    OBVIOUS
  <2>1. open \o input = line \o input'
    <3>1. open \o (slice \o rest) = (open \o slice) \o rest
      <4>1. rest \in Seq(Tokens) /\ slice \in Seq(Tokens) /\ open \in Seq(Tokens)
        BY <1>2, <1>4, <2>0
      <4> QED
        BY ONLY <4>1, ConcatAssociative
    <3> QED
      BY <1>2, <1>3, <2>0, <3>1
  <2>2. done \o (line \o input') = read \o input'
    <3>1. done \o (line \o rest) = (done \o line) \o rest
      <4>1. rest \in Seq(Tokens) /\ line \in Seq(Tokens) /\ done \in Seq(Tokens)
        BY <1>1, <1>2, <1>4, <2>0
      <4> QED
        BY ONLY <4>1, ConcatAssociative
    <3> QED
      BY <1>3, <2>0, <3>1
  <2>3. <<>> \o input' = input'
    BY <1>2, ConcatEmptySeq
  <2> QED
    BY <1>1, <2>1, <2>2, <2>3
<1>11. TrimRight(Extended(slice), {CR, NL}) = kept /\ Seen(slice) = StatsOf(done, Len(line) > M)
  <2>1. /\ Extended(slice) = Cut(line, M)
        /\ truncated \/ Overflows(slice) <=> Len(line) > M
        /\ Seen(slice) = StatsOf(done, truncated \/ Overflows(slice))
    BY <1>1, <1>2, <1>3, SliceAdded
  <2> QED
    BY <1>3, <2>1 DEF Kept, StatsOf
<1>12. /\ buf' = <<>> /\ truncated' = FALSE
       /\ stats' = IF Kind(kept) \in {"unparsed", "unknown"}
                   THEN [Seen(slice) EXCEPT ![Kind(kept)] = @ + 1] ELSE Seen(slice)
       /\ preamble' = IF Kind(kept) = "unparsed" THEN Recorded(preamble, kept) ELSE preamble
       /\ events' = IF Kind(kept) = "event" THEN Append(events, TrimLeft(kept, {Blank})) ELSE events
  BY <1>11 DEF Completes
<1>13. buf' = Cut(<<>>, M) /\ ~ (Len(<<>>) > M)
  <2>1. Len(<<>>) = 0 /\ Len(<<>>) <= M /\ <<>> \in Seq(Tokens)
    BY <1>4
  <2>2. Cut(<<>>, M) = <<>>
    BY ONLY <1>4, <2>1, CutProperties
  <2> QED
    BY <1>4, <1>12, <2>1, <2>2
<1>14. stats' = StatsOf(read, FALSE)
  <2>1. \A field \in Fields : FaultsOn(done, line, field) /\ Len(Faulty(done, field)) \in Nat
    BY <1>1, <1>6, <1>8, FaultyTaken, FaultyTyped
  <2>2. \A field \in Fields :
           Len(Faulty(read, field)) =
             Len(Faulty(done, field)) +
               IF IF field = "oversized" THEN Len(line) > M ELSE Kind(kept) = field THEN 1 ELSE 0
    BY <1>3, <2>1 DEF FaultsOn
  <2>3. PICK before : before = Seen(slice)
    OBVIOUS
  <2>4. /\ before = [field \in Fields |-> before[field]]
        /\ \A field \in Fields :
             before[field] = Len(Faulty(done, field)) + IF field = "oversized" /\ Len(line) > M THEN 1 ELSE 0
    BY <1>11, <2>3 DEF StatsOf
  <2>5. \A field \in Fields : before[field] \in Nat
    BY <2>1, <2>4
  <2>6. Kind(kept) # "oversized"
    BY DEF Kind
  <2>7. PICK k : k = Kind(kept)
    OBVIOUS
  <2>8. /\ stats' = [field \in Fields |-> stats'[field]]
        /\ \A field \in Fields :
             stats'[field] = before[field] + IF field # "oversized" /\ k = field THEN 1 ELSE 0
    <3>1. CASE k \in {"unparsed", "unknown"}
      <4>1. stats' = [before EXCEPT ![k] = @ + 1] /\ k \in Fields
        BY <1>12, <2>3, <2>7, <3>1 DEF Fields
      <4>2. stats' = [field \in Fields |-> IF field = k THEN before[field] + 1 ELSE before[field]]
        BY <2>4, <4>1
      <4> QED
        BY <2>4, <2>5, <2>6, <2>7, <4>2
    <3>2. CASE k \notin {"unparsed", "unknown"}
      <4>1. stats' = before
        BY <1>12, <2>3, <2>7, <3>2
      <4>2. \A field \in Fields : ~ (field # "oversized" /\ k = field)
        BY <3>2 DEF Fields
      <4> QED
        BY <2>4, <2>5, <4>1, <4>2
    <3> QED
      BY <3>1, <3>2
  <2>9. \A field \in Fields : stats'[field] = Len(Faulty(read, field)) + 0
    BY <2>1, <2>2, <2>4, <2>7, <2>8
  <2> QED
    BY <2>8, <2>9 DEF StatsOf
<1>15. Evidence(preamble', OfKind(read, "unparsed"))
  <2>1. KindOn(done, line, "unparsed") /\ OfKind(done, "unparsed") \in Seq(Seq(Tokens))
    BY <1>1, <1>6, <1>8, KindsTaken, KindsTyped
  <2>2. OfKind(read, "unparsed") =
          IF Kind(kept) = "unparsed" THEN Append(OfKind(done, "unparsed"), kept) ELSE OfKind(done, "unparsed")
    BY <1>3, <2>1 DEF KindOn
  <2>3. Evidence(Recorded(preamble, kept), Append(OfKind(done, "unparsed"), kept))
    BY <1>1, <1>4, <2>1, EvidenceGrows
  <2> QED
    BY <1>1, <1>12, <2>2, <2>3
<1>16. events' = EventsOfFirst(current - 1) \o EventsOf(read) /\ events' \in Seq(Seq(Tokens))
  <2>1. PICK a, b, V : a = EventsOfFirst(current - 1) /\ b = EventsOf(done) /\ V = Seq(Tokens)
    OBVIOUS
  <2>2. a \in Seq(V)
    <3>1. current - 1 \in Nat /\ (current - 1) + 1 = current
      OBVIOUS
    <3> QED
      BY <2>1, <3>1, EventsOfOneMore
  <2>3. b \in Seq(V)
    BY <1>1, <2>1, EventsTyped
  <2>4. TrimLeft(kept, {Blank}) \in V
    BY <1>4, <2>1, KeptTyped
  <2>5. PICK e : e = TrimLeft(kept, {Blank})
    OBVIOUS
  <2>6. a \o Append(b, e) = Append(a \o b, e) /\ a \o b \in Seq(V)
    BY ONLY <2>2, <2>3, <2>4, <2>5, ConcatAppend
  <2>7. Append(a \o b, e) \in Seq(V)
    BY <2>4, <2>5, <2>6
  <2>8. EventsOf(read) = IF Kind(kept) = "event" THEN Append(b, e) ELSE b
    BY <1>3, <1>6, <1>8, <2>1, <2>5, EventsTaken
  <2>9. events' = IF Kind(kept) = "event" THEN Append(a \o b, e) ELSE a \o b
    BY <1>1, <1>12, <2>1, <2>5
  <2> QED
    BY <2>1, <2>6, <2>7, <2>8, <2>9
<1>17. EventsOfFirst(current - 1)' = EventsOfFirst(current - 1)
  BY DEF EventsOfFirst
<1>18. At(read, <<>>)'
  <2>1. <<>> \in Seq(Plain) /\ stats' = StatsOf(read, truncated')
    BY <1>12, <1>14, TokensArePlainOrNewlines DEF StatsOf
  <2> QED
    BY <1>3, <1>4, <1>9, <1>10, <1>12, <1>13, <1>15, <1>16, <1>17, <2>1 DEF At
<1>19. DecoderTypeOK'
  <2>1. buf' \in Seq(Tokens) /\ Len(buf') <= MaxLineBytes
    BY <1>3, <1>4, <1>12
  <2>2. stats' \in [Fields -> Nat]
    BY <1>4, <1>14, FaultyTyped DEF StatsOf
  <2>3. preamble' \in Seq(Tokens)
    BY <1>15 DEF Evidence
  <2> QED
    BY <1>2, <1>12, <1>16, <2>1, <2>2, <2>3 DEF DecoderTypeOK
<1> QED
  BY <1>3, <1>18, <1>19
-----------------------------------------------------------------------------
(***************************************************************************)
(* The invariant is inductive.                                              *)
(***************************************************************************)
\* What is said of no text at all.
LEMMA NothingRead ==
  /\ StartsLine(<<>>) /\ Cut(<<>>, MaxLineBytes) = <<>> /\ StatsOf(<<>>, FALSE) = NoStats
  /\ Evidence(<<>>, OfKind(<<>>, "unparsed")) /\ EventsOf(<<>>) = <<>>
<1>1. PICK V, A : V = Seq(Tokens) /\ A = Seq(Plain)
  OBVIOUS
<1>2. <<>> \in V /\ <<>> \in A /\ <<>> \in Seq(V) /\ <<>> \in Seq(A)
  BY <1>1
<1>3. Split(<<>>, NL) = << <<>> >>
  BY <1>1, <1>2, TokensArePlainOrNewlines, SplitWhole
<1>4. StartsLine(<<>>)
  <2>1. Last(<< <<>> >>) = <<>>
    BY DEF Last
  <2> QED
    BY <1>1, <1>2, <1>3, <2>1 DEF StartsLine
<1>5. Lines(<<>>) = <<>>
  <2>1. << <<>> >> = Append(<<>>, <<>>)
    OBVIOUS
  <2>2. Lines(<<>>) = Mapped(Ending, <<>>)
    BY <1>1, <1>2, <1>3, <2>1, LinesOfPieces
  <2> QED
    BY <2>2 DEF Mapped
<1>6. \A kept : Filtered(<<>>, kept) = <<>>
  BY FilteredProperties
<1>7. \A kind : OfKind(<<>>, kind) = <<>>
  <2> TAKE kind
  <2>1. Mapped(KeptLine, <<>>) = <<>>
    BY DEF Mapped
  <2>2. OfLines(<<>>, kind) = <<>>
    BY <1>6, <2>1 DEF OfLines
  <2> QED
    BY <1>1, <1>2, <1>5, <2>2, ThroughLines
<1>8. EventsOf(<<>>) = <<>>
  <2>1. Mapped(TrimmedLine, <<>>) = <<>>
    BY DEF Mapped
  <2> QED
    BY <1>1, <1>2, <1>7, <2>1, EventsTyped
<1>9. \A field : Faulty(<<>>, field) = <<>>
  BY <1>5, <1>6, <1>7 DEF Faulty
<1>10. StatsOf(<<>>, FALSE) = NoStats
  <2>1. \A field \in Fields : Len(Faulty(<<>>, field)) + 0 = 0
    BY <1>9
  <2> QED
    BY <2>1 DEF StatsOf, NoStats
<1>11. MaxLineBytes \in Nat /\ MaxPreambleBytes \in Nat /\ Len(<<>>) = 0
  BY SizesAssumption
<1>12. Cut(<<>>, MaxLineBytes) = <<>>
  <2>1. Len(<<>>) <= MaxLineBytes /\ <<>> \in Seq(Tokens)
    BY <1>11
  <2> QED
    BY ONLY <1>11, <2>1, CutProperties
<1>13. Evidence(<<>>, OfKind(<<>>, "unparsed"))
  <2>1. Joined(<<>>, NL) = <<>>
    BY JoinedProperties
  <2> QED
    BY <1>1, <1>2, <1>7, <1>11, <2>1 DEF Evidence
<1> QED
  BY <1>4, <1>8, <1>10, <1>12, <1>13

\* At the end of a stream nothing is left in the buffer.
LEMMA AtTheEnd ==
  ASSUME TypeOK, FilesOK, ReadingOK, reading, AtEOF
  PROVE  /\ current \in Nat /\ current > 0 /\ files[current] \in Seq(Tokens)
         /\ stats = [field \in Fields |-> Len(Faulty(files[current], field))]
         /\ Evidence(preamble, OfKind(files[current], "unparsed"))
         /\ events = EventsOfFirst(current)
<1>1. /\ current \in Nat /\ current > 0 /\ (current - 1) + 1 = current /\ current - 1 \in Nat
      /\ \A i \in 1..current : files[i] \in Seq(Tokens)
  BY DEF TypeOK, FilesOK, ReadingOK
<1>2. files[current] \in Seq(Tokens)
  BY <1>1
<1>3. PICK done, open : At(done, open)
  BY DEF ReadingOK
<1>4. open = <<>>
  <2>1. Cut(open, MaxLineBytes) = <<>> /\ open \in Seq(Plain)
    BY <1>3 DEF At, AtEOF
  <2>2. MaxLineBytes \in Nat /\ MaxLineBytes > 0 /\ Len(<<>>) = 0
    BY SizesAssumption
  <2>3. Len(Cut(open, MaxLineBytes)) = IF Len(open) < MaxLineBytes THEN Len(open) ELSE MaxLineBytes
    BY <2>1, <2>2, CutProperties DEF CutTo
  <2> QED
    BY <2>1, <2>2, <2>3
<1>5. files[current] = done
  <2>1. files[current] = done \o (<<>> \o <<>>) /\ done \in Seq(Tokens)
    BY <1>3, <1>4 DEF At, AtEOF
  <2> QED
    BY <2>1, ConcatEmptySeq
<1>6. stats = [field \in Fields |-> Len(Faulty(done, field))]
  <2>1. stats = StatsOf(done, truncated) /\ ~ truncated /\ done \in Seq(Tokens)
    BY <1>3, <1>4, SizesAssumption DEF At
  <2>2. \A field \in Fields : Len(Faulty(done, field)) + 0 = Len(Faulty(done, field))
    BY <2>1, FaultyTyped
  <2> QED
    BY <2>1, <2>2 DEF StatsOf
<1>7. Evidence(preamble, OfKind(done, "unparsed")) /\ events = EventsOfFirst(current - 1) \o EventsOf(done)
  BY <1>3 DEF At
<1>8. EventsOfFirst(current) = EventsOfFirst(current - 1) \o EventsOf(files[current])
  <2>1. PICK n : n = current - 1
    OBVIOUS
  <2>2. n \in Nat /\ n + 1 = current
    BY <1>1, <2>1
  <2>3. \A i \in 1..n + 1 : files[i] \in Seq(Tokens)
    BY <1>1, <2>2
  <2>4. EventsOfFirst(n + 1) = EventsOfFirst(n) \o EventsOf(files[n + 1])
    BY <2>2, <2>3, EventsOfOneMore
  <2> QED
    BY <2>1, <2>2, <2>4
<1> QED
  BY <1>1, <1>2, <1>5, <1>6, <1>7, <1>8

LEMMA InitInv == Init => IInv
<1> SUFFICES ASSUME Init PROVE IInv
  OBVIOUS
<1>1. /\ fromFiles \in BOOLEAN /\ input = <<>> /\ buf = <<>> /\ truncated = FALSE /\ stats = NoStats
      /\ preamble = <<>> /\ events = <<>> /\ current = 0 /\ reading = FALSE
      /\ totals = NoStats /\ outcome = "reading"
  BY DEF Init, DecoderInit
<1>2. files \in Seq({Missing} \cup Seq(Tokens)) /\ (~ fromFiles => Len(files) = 1)
  <2>1. CASE fromFiles
    BY <2>1, StreamsAssumption DEF Init
  <2>2. CASE ~ fromFiles
    <3>1. PICK s \in Pipes : files = <<s>>
      BY <2>2 DEF Init
    <3>2. s \in Seq(Tokens)
      BY StreamsAssumption
    <3>3. PICK F : F = {Missing} \cup Seq(Tokens)
      OBVIOUS
    <3>4. s \in F
      BY <3>2, <3>3
    <3>5. files \in Seq(F) /\ Len(files) = 1
      BY <3>1, <3>4
    <3> QED
      BY <3>3, <3>5
  <2> QED
    BY <1>1, <2>1, <2>2
<1>3. NoStats \in [Fields -> Nat] /\ \A field \in Fields : ~ (NoStats[field] > 0)
  BY DEF NoStats
<1>4. TypeOK
  <2>1. MaxLineBytes \in Nat /\ Len(<<>>) = 0 /\ <<>> \in Seq(Tokens) /\ <<>> \in Seq(Seq(Tokens))
    BY SizesAssumption
  <2>2. Len(files) \in Nat
    BY <1>2
  <2>3. DecoderTypeOK
    <3>1. input \in Seq(Tokens) /\ buf \in Seq(Tokens) /\ preamble \in Seq(Tokens)
          /\ events \in Seq(Seq(Tokens))
      BY <1>1
    <3>2. Len(buf) <= MaxLineBytes
      BY <1>1, <2>1
    <3>3. truncated \in BOOLEAN /\ stats \in [Fields -> Nat]
      BY <1>1, <1>3
    <3> QED
      BY <3>1, <3>2, <3>3 DEF DecoderTypeOK
  <2>4. current \in 0..Len(files)
    BY <1>1, <2>2
  <2> QED
    BY <1>1, <1>3, <2>3, <2>4 DEF TypeOK
<1>5. FilesOK
  <2>1. \A i \in 1..current : files[i] \in Seq(Tokens)
    BY <1>1
  <2>2. reading \in BOOLEAN
    BY <1>1
  <2> QED
    BY <1>1, <1>2, <2>1, <2>2 DEF FilesOK
<1>6. ReadingOK
  BY <1>1, EventsOfNone DEF ReadingOK
<1>7. TotalsOK
  BY <1>1, <1>3 DEF TotalsOK, Exhausted
<1> QED
  BY <1>4, <1>5, <1>6, <1>7 DEF IInv

LEMMA ReadsInv == IInv /\ Reads => IInv'
<1> SUFFICES ASSUME IInv, Reads PROVE IInv'
  OBVIOUS
<1>1. /\ TypeOK /\ FilesOK /\ ReadingOK /\ TotalsOK
      /\ fromFiles' = fromFiles /\ files' = files /\ current' = current /\ reading' = reading
      /\ totals' = totals /\ outcome' = outcome /\ reading
  BY DEF IInv, Reads
<1>2. /\ current \in Nat /\ current > 0 /\ outcome = "reading"
      /\ \A i \in 1..current : files[i] \in Seq(Tokens)
      /\ input \in Seq(Tokens) /\ DecoderTypeOK
  BY <1>1 DEF TypeOK, DecoderTypeOK, FilesOK, ReadingOK
<1>3. PICK done, open : At(done, open)
  BY <1>1 DEF ReadingOK
<1>4. /\ input # <<>> \/ buf # <<>>
      /\ input' = SubSeq(input, Len(Slice) + 1, Len(input))
      /\ Continues(Slice) \/ Completes(Slice)
  BY DEF Reads, ReadSlice
<1>5. SlicesOff(Slice, input')
  BY <1>2, <1>4, SliceTaken
<1>6. PICK slice : slice = Slice
  OBVIOUS
<1>7. DecoderTypeOK' /\ \E read, begun : At(read, begun)'
  <2>1. CASE Continues(Slice)
    <3>1. SlicesOff(slice, input') /\ Continues(slice)
      BY <1>5, <1>6, <2>1
    <3>2. At(done, open \o slice)' /\ DecoderTypeOK'
      BY <1>1, <1>2, <1>3, <3>1, ContinuesAt
    <3> QED
      BY <3>2
  <2>2. CASE Completes(Slice)
    <3>1. SlicesOff(slice, input') /\ Completes(slice)
      BY <1>5, <1>6, <2>2
    <3>2. At(done \o (open \o slice), <<>>)' /\ DecoderTypeOK'
      BY <1>1, <1>2, <1>3, <1>4, <3>1, CompletesAt
    <3> QED
      BY <3>2
  <2> QED
    BY <1>4, <2>1, <2>2
<1>8. TypeOK'
  BY <1>1, <1>7 DEF TypeOK
<1>9. FilesOK'
  BY <1>1 DEF FilesOK
<1>10. ReadingOK'
  BY <1>1, <1>2, <1>7 DEF ReadingOK
<1>11. TotalsOK'
  BY <1>1 DEF TotalsOK, Exhausted
<1> QED
  BY <1>8, <1>9, <1>10, <1>11 DEF IInv

LEMMA OpenFileInv == IInv /\ OpenFile => IInv'
<1> SUFFICES ASSUME IInv, OpenFile PROVE IInv'
  OBVIOUS
<1>1. /\ TypeOK /\ FilesOK /\ ReadingOK /\ TotalsOK /\ DecoderTypeOK /\ ~ reading
      /\ outcome = "reading" /\ current < Len(files) /\ current \in Nat /\ Len(files) \in Nat
      /\ fromFiles' = fromFiles /\ files' = files /\ totals' = totals /\ text' = text
  <2>1. PICK F : F = {Missing} \cup Seq(Tokens)
    OBVIOUS
  <2>2. files \in Seq(F)
    BY <2>1 DEF IInv, FilesOK
  <2>3. Len(files) \in Nat
    BY <2>2
  <2>4. PICK n : n = Len(files)
    OBVIOUS
  <2>5. current \in 0..n
    BY <2>4 DEF IInv, TypeOK
  <2>6. current \in Nat
    BY <2>3, <2>4, <2>5
  <2> QED
    BY <2>3, <2>6 DEF IInv, OpenFile, TypeOK
<1>2. events = EventsOfFirst(current) /\ \A i \in 1..current : files[i] \in Seq(Tokens)
  BY <1>1 DEF ReadingOK, FilesOK
<1>3. CASE files[current + 1] = Missing
  <2>1. UNCHANGED <<decoderVars, current, reading>> /\ outcome' = "no report"
    BY <1>3 DEF OpenFile
  <2>2. TypeOK'
    BY <1>1, <2>1 DEF TypeOK, DecoderTypeOK, decoderVars
  <2>3. FilesOK'
    BY <1>1, <2>1 DEF FilesOK
  <2>4. ReadingOK'
    BY <1>1, <1>2, <2>1 DEF ReadingOK, EventsOfFirst, decoderVars
  <2>5. TotalsOK'
    BY <1>1, <2>1 DEF TotalsOK, Exhausted
  <2> QED
    BY <2>2, <2>3, <2>4, <2>5 DEF IInv
<1>4. CASE files[current + 1] # Missing
  <2>1. /\ input' = files[current + 1] /\ buf' = <<>> /\ truncated' = FALSE /\ stats' = NoStats
        /\ preamble' = <<>> /\ events' = events /\ current' = current + 1 /\ reading' = TRUE
        /\ outcome' = outcome
    BY <1>4 DEF OpenFile, NewDecoder
  <2>2. files[current + 1] \in Seq(Tokens)
    <3>1. PICK F, n : F = {Missing} \cup Seq(Tokens) /\ n = current + 1
      OBVIOUS
    <3>2. files \in Seq(F) /\ n \in 1..Len(files)
      BY <1>1, <3>1 DEF FilesOK
    <3>3. files[n] \in F
      BY <3>2
    <3> QED
      BY <1>4, <3>1, <3>3
  <2>3. \A i \in 1..current + 1 : files[i] \in Seq(Tokens)
    <3>1. \A i \in 1..current + 1 : i \in 1..current \/ i = current + 1
      BY <1>1
    <3> QED
      BY <1>2, <2>2, <3>1
  <2>4. DecoderTypeOK'
    <3>1. input' \in Seq(Tokens) /\ buf' \in Seq(Tokens) /\ preamble' \in Seq(Tokens)
      BY <2>1, <2>2
    <3>2. Len(buf') <= MaxLineBytes
      BY <2>1, SizesAssumption
    <3>3. truncated' \in BOOLEAN /\ stats' \in [Fields -> Nat]
      BY <2>1 DEF NoStats
    <3>4. events' \in Seq(Seq(Tokens))
      BY <1>1, <2>1 DEF DecoderTypeOK
    <3> QED
      BY <3>1, <3>2, <3>3, <3>4 DEF DecoderTypeOK
  <2>5. TypeOK'
    <3>1. current + 1 \in 0..Len(files)
      BY <1>1
    <3> QED
      BY <1>1, <2>1, <2>4, <3>1 DEF TypeOK
  <2>6. FilesOK'
    BY <1>1, <2>1, <2>3 DEF FilesOK
  <2>7. At(<<>>, <<>>)'
    <3>1. /\ StartsLine(<<>>) /\ Cut(<<>>, MaxLineBytes) = <<>> /\ StatsOf(<<>>, FALSE) = NoStats
          /\ Evidence(<<>>, OfKind(<<>>, "unparsed")) /\ EventsOf(<<>>) = <<>>
      BY NothingRead
    <3>2. files'[current'] = <<>> \o (<<>> \o input')
      BY <1>1, <2>1, <2>2, ConcatEmptySeq
    <3>3. ~ (Len(<<>>) > MaxLineBytes)
      BY SizesAssumption
    <3>4. EventsOfFirst(current - 1)' = EventsOfFirst(current)
      <4>1. current' - 1 = current
        BY <1>1, <2>1
      <4> QED
        BY <1>1, <4>1 DEF EventsOfFirst
    <3>5. events' = EventsOfFirst(current - 1)' \o EventsOf(<<>>)
      <4>1. EventsOfFirst(current) \in Seq(Seq(Tokens))
        BY <1>1, <2>3, EventsOfOneMore
      <4> QED
        BY <1>2, <2>1, <3>1, <3>4, <4>1, ConcatEmptySeq
    <3>6. <<>> \in Seq(Tokens) /\ <<>> \in Seq(Plain)
      OBVIOUS
    <3> QED
      BY <2>1, <3>1, <3>2, <3>3, <3>5, <3>6 DEF At
  <2>8. ReadingOK'
    BY <1>1, <2>1, <2>7 DEF ReadingOK
  <2>9. TotalsOK'
    <3>1. Exhausted' = Exhausted
      BY <1>1, <2>1 DEF Exhausted
    <3> QED
      BY <1>1, <3>1 DEF TotalsOK
  <2> QED
    BY <2>5, <2>6, <2>8, <2>9 DEF IInv
<1> QED
  BY <1>3, <1>4

LEMMA EndFileInv == IInv /\ EndFile => IInv'
<1> SUFFICES ASSUME IInv, EndFile PROVE IInv'
  OBVIOUS
<1>1. /\ TypeOK /\ FilesOK /\ ReadingOK /\ TotalsOK /\ DecoderTypeOK /\ reading /\ AtEOF
      /\ fromFiles' = fromFiles /\ files' = files /\ current' = current /\ reading' = FALSE
      /\ totals' = Added(totals, stats) /\ outcome' = outcome /\ UNCHANGED decoderVars
  BY DEF IInv, EndFile, TypeOK
<1>2. /\ current \in Nat /\ current > 0 /\ files[current] \in Seq(Tokens)
      /\ stats = [field \in Fields |-> Len(Faulty(files[current], field))]
      /\ events = EventsOfFirst(current)
  BY <1>1, AtTheEnd
<1>3. outcome = "reading" /\ fromFiles \in BOOLEAN /\ totals \in [Fields -> Nat] /\ stats \in [Fields -> Nat]
  BY <1>1 DEF ReadingOK, FilesOK, TypeOK, DecoderTypeOK
<1>4. \A field \in Fields : stats[field] > 0 <=> Faulty(files[current], field) # <<>>
  <2> TAKE field \in Fields
  <2>1. PICK f, V : f = Faulty(files[current], field) /\ V = Seq(Tokens)
    OBVIOUS
  <2>2. f \in Seq(V) /\ stats[field] = Len(f)
    BY <1>2, <2>1, FaultyTyped
  <2>3. Len(f) > 0 <=> f # <<>>
    BY <2>2
  <2> QED
    BY <2>1, <2>2, <2>3
<1>5. totals' \in [Fields -> Nat]
      /\ \A field \in Fields :
           totals'[field] = IF fromFiles
                            THEN totals[field] + IF field = "unknown" THEN 0 ELSE stats[field]
                            ELSE stats[field]
  <2>1. CASE fromFiles
    <3>1. totals' = [totals EXCEPT !.unparsed = @ + stats.unparsed, !.oversized = @ + stats.oversized]
      BY <1>1, <2>1 DEF Added
    <3>2. totals' = [field \in Fields |-> IF field = "oversized" THEN totals[field] + stats[field]
                                          ELSE IF field = "unparsed" THEN totals[field] + stats[field]
                                          ELSE totals[field]]
      BY <1>3, <3>1, Zenon DEF Fields
    <3>3. \A field \in Fields :
            totals'[field] = totals[field] + IF field = "unknown" THEN 0 ELSE stats[field]
      BY <1>3, <3>2 DEF Fields
    <3>4. \A field \in Fields : totals'[field] \in Nat
      BY <1>3, <3>3
    <3> QED
      BY <2>1, <3>2, <3>3, <3>4
  <2>2. CASE ~ fromFiles
    BY <1>1, <1>3, <2>2 DEF Added
  <2> QED
    BY <2>1, <2>2
<1>6. TypeOK'
  BY <1>1, <1>5 DEF TypeOK, DecoderTypeOK, decoderVars
<1>7. FilesOK'
  BY <1>1 DEF FilesOK
<1>8. ReadingOK'
  BY <1>1, <1>2, <1>3 DEF ReadingOK, EventsOfFirst, decoderVars
<1>9. TotalsOK'
  <2>1. Exhausted = current - 1 /\ Exhausted' = current
    BY <1>1 DEF Exhausted
  <2>2. \A i : i \in 1..current <=> i \in 1..current - 1 \/ i = current
    BY <1>2
  <2>3. ~ fromFiles => current = 1
    <3>1. PICK n : n = Len(files)
      OBVIOUS
    <3>2. fromFiles \/ n = 1
      BY <1>1, <3>1 DEF FilesOK
    <3>3. current \in 0..n
      BY <1>1, <3>1 DEF TypeOK
    <3> QED
      BY <1>2, <3>2, <3>3
  <2>4. ASSUME NEW field \in Fields
        PROVE  totals'[field] > 0 <=> /\ field = "unknown" => ~ fromFiles
                                      /\ \E i \in 1..current : Faulty(files[i], field) # <<>>
    <3>1. PICK n, m, k : n = totals'[field] /\ m = totals[field] /\ k = stats[field]
      OBVIOUS
    <3>2. m \in Nat /\ k \in Nat /\ n = IF fromFiles THEN m + IF field = "unknown" THEN 0 ELSE k ELSE k
      BY <1>3, <1>5, <3>1
    <3>3. m > 0 <=> /\ field = "unknown" => ~ fromFiles
                    /\ \E i \in 1..current - 1 : Faulty(files[i], field) # <<>>
      BY <1>1, <2>1, <3>1 DEF TotalsOK
    <3>4. k > 0 <=> Faulty(files[current], field) # <<>>
      BY <1>4, <3>1
    <3>5. (\E i \in 1..current : Faulty(files[i], field) # <<>>)
            <=> (\E i \in 1..current - 1 : Faulty(files[i], field) # <<>>) \/ Faulty(files[current], field) # <<>>
      BY <2>2
    <3>6. CASE fromFiles
      <4>1. n > 0 <=> m > 0 \/ (field # "unknown" /\ k > 0)
        BY <3>2, <3>6
      <4> QED
        BY <3>1, <3>3, <3>4, <3>5, <3>6, <4>1
    <3>7. CASE ~ fromFiles
      <4>1. ~ \E i \in 1..current - 1 : Faulty(files[i], field) # <<>>
        BY <2>3, <3>7
      <4>2. n > 0 <=> k > 0
        BY <3>2, <3>7
      <4> QED
        BY <3>1, <3>4, <3>5, <3>7, <4>1, <4>2
    <3> QED
      BY <1>3, <3>6, <3>7
  <2> QED
    BY <1>1, <2>1, <2>4 DEF TotalsOK
<1> QED
  BY <1>6, <1>7, <1>8, <1>9 DEF IInv

LEMMA NextInv == IInv /\ [Next]_vars => IInv'
<1> SUFFICES ASSUME IInv, [Next]_vars PROVE IInv'
  OBVIOUS
<1>1. CASE OpenFile
  BY <1>1, OpenFileInv
<1>2. CASE Reads
  BY <1>2, ReadsInv
<1>3. CASE EndFile
  BY <1>3, EndFileInv
<1>4. CASE Report
  <2>1. /\ UNCHANGED <<decoderVars, fromFiles, files, current, reading, totals, text>>
        /\ outcome' = "reported" /\ ~ reading /\ current = Len(files)
    BY <1>4 DEF Report
  <2>2. TypeOK' /\ FilesOK' /\ TotalsOK'
    BY <2>1 DEF IInv, TypeOK, DecoderTypeOK, decoderVars, FilesOK, TotalsOK, Exhausted
  <2>3. ReadingOK'
    BY <2>1 DEF IInv, ReadingOK, EventsOfFirst, decoderVars
  <2> QED
    BY <2>2, <2>3 DEF IInv
<1>5. CASE UNCHANGED vars
  <2>1. UNCHANGED <<input, buf, truncated, stats, preamble, events, fromFiles, files, current, reading,
                    totals, outcome>>
    BY <1>5 DEF vars, decoderVars
  <2>2. TypeOK' /\ FilesOK' /\ TotalsOK'
    BY <2>1 DEF IInv, TypeOK, DecoderTypeOK, FilesOK, TotalsOK, Exhausted
  <2>3. ReadingOK'
    BY <2>1 DEF IInv, ReadingOK, EventsOfFirst, At
  <2> QED
    BY <2>2, <2>3 DEF IInv
<1> QED
  BY <1>1, <1>2, <1>3, <1>4, <1>5 DEF Next

LEMMA Inductive == Spec => []IInv
BY InitInv, NextInv, PTL DEF Spec
-----------------------------------------------------------------------------
\* The variables have their types, and the statistics are counts.
THEOREM TypeCorrect == Spec => []TypeOK
<1>1. IInv => TypeOK
  BY DEF IInv
<1> QED
  BY <1>1, Inductive, PTL

\* Every event whose line fits under the cap is delivered once and in order,
\* whatever the buffer, and wherever the reader stands.
THEOREM DeliversEvents == Spec => []EventsDelivered
<1>1. IInv => EventsDelivered
  <2> SUFFICES ASSUME IInv PROVE EventsDelivered
    OBVIOUS
  <2>1. ~ reading => events = EventsOfFirst(current)
    BY DEF IInv, ReadingOK
  <2>2. ASSUME reading PROVE IsPrefix(events, EventsOfFirst(current))
    <3>1. /\ current \in Nat /\ current > 0 /\ (current - 1) + 1 = current /\ current - 1 \in Nat
          /\ \A i \in 1..current : files[i] \in Seq(Tokens)
          /\ input \in Seq(Tokens)
      BY <2>2 DEF IInv, TypeOK, DecoderTypeOK, FilesOK, ReadingOK
    <3>2. PICK done, open : At(done, open)
      BY <2>2 DEF IInv, ReadingOK
    <3>3. PICK n, rest, V : n = current - 1 /\ rest = open \o input /\ V = Seq(Tokens)
      OBVIOUS
    <3>4. /\ done \in Seq(Tokens) /\ rest \in Seq(Tokens) /\ files[current] = done \o rest
          /\ StartsLine(done) \/ rest = <<>>
          /\ events = EventsOfFirst(n) \o EventsOf(done)
      BY <3>1, <3>2, <3>3, TokensArePlainOrNewlines DEF At
    <3>5. EventsOf(done \o rest) = EventsOf(done) \o EventsOf(rest)
      <4>1. CASE StartsLine(done)
        BY <3>4, <4>1, EventsGoOn
      <4>2. CASE rest = <<>>
        <5>1. EventsOf(done) \in Seq(V)
          BY <3>3, <3>4, EventsTyped
        <5> QED
          BY <3>4, <4>2, <5>1, NothingRead, ConcatEmptySeq
      <4> QED
        BY <3>4, <4>1, <4>2
    <3>6. PICK a, b, c : a = EventsOfFirst(n) /\ b = EventsOf(done) /\ c = EventsOf(rest)
      OBVIOUS
    <3>7. EventsOfFirst(current) = a \o (b \o c) /\ a \in Seq(V)
      <4>1. n \in Nat /\ n + 1 = current
        BY <3>1, <3>3
      <4>2. \A i \in 1..n + 1 : files[i] \in Seq(Tokens)
        BY <3>1, <4>1
      <4>3. EventsOfFirst(n) \in Seq(Seq(Tokens)) /\ EventsOfFirst(n + 1) = EventsOfFirst(n) \o EventsOf(files[n + 1])
        BY <4>1, <4>2, EventsOfOneMore
      <4> QED
        BY <3>3, <3>4, <3>5, <3>6, <4>1, <4>3
    <3>8. b \in Seq(V) /\ c \in Seq(V)
      BY <3>3, <3>4, <3>6, EventsTyped
    <3>9. EventsOfFirst(current) = events \o c /\ events \in Seq(V)
      <4>1. (a \o b) \o c = a \o (b \o c)
        BY ONLY <3>7, <3>8, ConcatAssociative
      <4> QED
        BY <3>4, <3>6, <3>7, <3>8, <4>1
    <3>10. PICK t, m, u : t = events \o c /\ m = Len(events) /\ u = events
      OBVIOUS
    <3>11. /\ t \in Seq(V) /\ Len(t) = m + Len(c) /\ m \in Nat /\ Len(c) \in Nat
           /\ \A i \in 1..m : t[i] = u[i]
      BY <3>8, <3>9, <3>10, ConcatAt
    <3>12. m <= Len(t) /\ SubSeq(u, 1, m) = SubSeq(t, 1, m)
      <4>1. m <= Len(t)
        BY <3>11
      <4>2. PICK x, y : x = SubSeq(u, 1, m) /\ y = SubSeq(t, 1, m)
        OBVIOUS
      <4>3. /\ x \in Seq(V) /\ Len(x) = m /\ \A i \in 1..m : x[i] = u[i]
            /\ y \in Seq(V) /\ Len(y) = m /\ \A i \in 1..m : y[i] = t[i]
        BY <3>9, <3>10, <3>11, <4>1, <4>2
      <4>4. x = y
        BY <3>11, <4>3, SeqEqual
      <4> QED
        BY <4>1, <4>2, <4>4
    <3> QED
      BY <3>9, <3>10, <3>12 DEF IsPrefix
  <2> QED
    BY <2>1, <2>2 DEF EventsDelivered, EventsOfFirst
<1> QED
  BY <1>1, Inductive, PTL

\* No line vanishes: the statistics at the end of a stream count its faulty lines, and
\* the report's diagnostics say of which kinds there were any.
THEOREM AccountsForLines == Spec => []LinesAccounted
<1>1. IInv => LinesAccounted
  <2> SUFFICES ASSUME IInv PROVE LinesAccounted
    OBVIOUS
  <2>1. reading /\ AtEOF => stats = [field \in Fields |-> Len(Faulty(files[current], field))]
    BY AtTheEnd DEF IInv
  <2>2. ASSUME outcome = "reported"
        PROVE  Diagnostics = {field \in Fields : (field = "unknown" => ~ fromFiles)
                                /\ \E i \in DOMAIN files : Faulty(files[i], field) # <<>>}
    <3>1. Exhausted = Len(files) /\ DOMAIN files = 1..Len(files) /\ DOMAIN totals = Fields
      BY <2>2 DEF IInv, ReadingOK, FilesOK, TypeOK, Exhausted
    <3> QED
      BY <3>1 DEF IInv, TotalsOK, Diagnostics
  <2> QED
    BY <2>1, <2>2 DEF LinesAccounted
<1> QED
  BY <1>1, Inductive, PTL

\* The text that is not JSON is kept from its beginning, up to the cap.
THEOREM RetainsEvidence == Spec => []EvidenceRetained
<1>1. IInv => EvidenceRetained
  BY AtTheEnd DEF IInv, EvidenceRetained, Evidence
<1> QED
  BY <1>1, Inductive, PTL
=============================================================================
