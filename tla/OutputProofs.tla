----------------------------- MODULE OutputProofs -----------------------------
(***************************************************************************)
(* Proofs about a test's output: for any keys, any chunks and any order of    *)
(* their writers, the joiner neither loses, repeats nor moves a byte, and     *)
(* what is read from its lines are the messages they carry and the text.     *)
(***************************************************************************)
EXTENDS Output, SequenceLemmas

\* A key with held text is one Flush visits.
HeldKeysOrdered == \A k \in Keys : partial[k] # <<>> => \E i \in DOMAIN order : order[i] = k

\* The joiner is where splitting all the text at once would be: the finished
\* pieces are handed out and the last is held until Flush.
SplitSoFar ==
  \A k \in Keys : /\ lines[k] = Written(k)
                  /\ partial[k] = IF flushed THEN <<>> ELSE Last(Split(fed[k], NL))

IInv == TypeOK /\ HeldKeysOrdered /\ SplitSoFar
-----------------------------------------------------------------------------
\* What Add does to the buffered text, and that is all: the pieces it hands out
\* and the one it keeps are the pieces of that text.
SplitsBuffered(k, chunk) ==
  /\ Completed(k, chunk) \in Seq(Seq(Symbols)) /\ Kept(k, chunk) \in Seq(Symbols)
  /\ Split(Buffered(k, chunk), NL) = Append(Completed(k, chunk), Kept(k, chunk))

LEMMA CompletedAndKept ==
  ASSUME NEW k \in Keys, NEW chunk \in Seq(Bytes), partial[k] \in Seq(Symbols)
  PROVE  SplitsBuffered(k, chunk)
<1> DEFINE buffered == Buffered(k, chunk)
<1>1. buffered \in Texts(Symbols, NL)
  BY SeqMonotonic DEF Buffered, Bytes, Texts
<1> HIDE DEF buffered
<1>2. PICK i : i = LastIndex(buffered, NL)
  OBVIOUS
<1>3. CutsOff(Symbols, NL, buffered, IF i = 0 THEN <<>> ELSE Split(Before(buffered, i), NL),
              After(buffered, i))
  BY <1>1, <1>2, NLAssumption, SplitAtLast
<1> QED
  BY <1>2, <1>3 DEF CutsOff, Completed, Kept, SplitsBuffered, buffered

\* Feeding a chunk on top of what was fed adds the lines Add returns to the
\* finished ones and puts what it keeps in the place of the last.
LEMMA FedOn ==
  ASSUME NEW k \in Keys, NEW chunk \in Seq(Bytes), NEW text \in Seq(Bytes),
         partial[k] = Last(Split(text, NL))
  PROVE  /\ SplitsBuffered(k, chunk)
         /\ Front(Split(text \o chunk, NL)) = Front(Split(text, NL)) \o Completed(k, chunk)
         /\ Last(Split(text \o chunk, NL)) = Kept(k, chunk)
<1>1. text \in Texts(Symbols, NL) /\ chunk \in Texts(Symbols, NL)
  BY DEF Texts, Bytes
<1>2. PICK A : A = Seq(Symbols)
  OBVIOUS
<1>3. PICK front, done, kept : /\ front = Front(Split(text, NL))
                              /\ done = Completed(k, chunk) /\ kept = Kept(k, chunk)
  OBVIOUS
<1>4. front \in Seq(A) /\ partial[k] \in Seq(Symbols)
  BY <1>1, <1>2, <1>3, SplitTyped
<1>5. SplitsBuffered(k, chunk)
  BY <1>4, CompletedAndKept
<1>6. done \in Seq(A) /\ kept \in A
  BY <1>2, <1>3, <1>5 DEF SplitsBuffered
<1>7. Split(text \o chunk, NL) = front \o Append(done, kept)
  <2>1. Split(text \o chunk, NL) = Front(Split(text, NL)) \o Split(Last(Split(text, NL)) \o chunk, NL)
    BY ONLY <1>1, NLAssumption, SplitConcat
  <2> QED
    BY <1>3, <1>5, <2>1 DEF SplitsBuffered, Buffered
<1>8. front \o Append(done, kept) = Append(front \o done, kept)
  BY ONLY <1>4, <1>6, ConcatAppend
<1>9. PICK r : r = front \o done
  OBVIOUS
<1>10. r \in Seq(A)
  BY <1>4, <1>6, <1>9
<1>11. Front(Append(r, kept)) = r /\ Last(Append(r, kept)) = kept
  BY ONLY <1>6, <1>10, FrontAndLastOfAppend
<1> QED
  BY <1>3, <1>5, <1>7, <1>8, <1>9, <1>11

\* NewJoiner starts with no text held and no text fed.
LEMMA InitIInv == ASSUME Init PROVE IInv
<1>1. \A S : <<>> \in Seq(S)
  OBVIOUS
<1>2. TypeOK
  BY <1>1 DEF Init, JoinerInit, TypeOK, JoinerTypeOK
<1>3. HeldKeysOrdered
  BY DEF Init, JoinerInit, HeldKeysOrdered
<1>4. SplitSoFar
  <2>1. Split(<<>>, NL) = << <<>> >>
    BY EmptyText
  <2>2. Front(<< <<>> >>) = <<>> /\ Last(<< <<>> >>) = <<>>
    BY DEF Front, Last
  <2> QED
    BY <2>1, <2>2 DEF Init, JoinerInit, SplitSoFar, Written
<1> QED
  BY <1>2, <1>3, <1>4 DEF IInv

\* Joiner.Add hands out whole lines and keeps the rest, and lists the key while
\* it holds something for it.
LEMMA FeedKeepsIInv ==
  ASSUME IInv, NEW k \in Keys, NEW chunk \in Chunks, Feed(k, chunk)
  PROVE  IInv'
<1> USE DEF IInv, TypeOK
<1>1. chunk \in Seq(Bytes)
  BY FeedAssumption
<1>2. /\ partial' = [partial EXCEPT ![k] = Kept(k, chunk)]
      /\ order' = IF Contains(order, k) THEN order ELSE Append(order, k)
      /\ fed' = [fed EXCEPT ![k] = @ \o chunk]
      /\ lines' = [lines EXCEPT ![k] = @ \o Completed(k, chunk)]
      /\ UNCHANGED flushed /\ ~ flushed
  BY DEF Feed, JoinerAdd
<1>3. fed[k] \in Seq(Bytes) /\ lines[k] \in Seq(Seq(Symbols))
      /\ lines[k] = Front(Split(fed[k], NL)) /\ partial[k] = Last(Split(fed[k], NL))
  BY <1>2 DEF SplitSoFar, Written
<1>4. /\ SplitsBuffered(k, chunk)
      /\ Front(Split(fed[k] \o chunk, NL)) = lines[k] \o Completed(k, chunk)
      /\ Last(Split(fed[k] \o chunk, NL)) = Kept(k, chunk)
  BY <1>1, <1>3, FedOn
<1>5. order' \in Seq(Keys) /\ Contains(order', k)
      /\ \A i \in DOMAIN order : i \in DOMAIN order' /\ order'[i] = order[i]
  <2>1. CASE Contains(order, k)
    BY <1>2, <2>1 DEF JoinerTypeOK
  <2>2. CASE ~ Contains(order, k)
    <3>1. order' = Append(order, k) /\ order \in Seq(Keys) /\ Len(order) \in Nat
      BY <1>2, <2>2 DEF JoinerTypeOK
    <3>2. /\ order' \in Seq(Keys) /\ Len(order') = Len(order) + 1
          /\ order'[Len(order) + 1] = k /\ \A i \in 1..Len(order) : order'[i] = order[i]
      BY <3>1, AppendProperties
    <3> QED
      BY <3>1, <3>2 DEF Contains
  <2> QED
    BY <2>1, <2>2
<1>6. TypeOK'
  <2>1. fed[k] \o chunk \in Seq(Bytes)
    BY <1>1, <1>3, ConcatProperties
  <2>2. lines[k] \o Completed(k, chunk) \in Seq(Seq(Symbols)) /\ Kept(k, chunk) \in Seq(Symbols)
    <3>1. PICK A : A = Seq(Symbols)
      OBVIOUS
    <3>2. lines[k] \in Seq(A) /\ Completed(k, chunk) \in Seq(A) /\ Kept(k, chunk) \in A
      BY <1>3, <1>4, <3>1 DEF SplitsBuffered
    <3> QED
      BY <3>1, <3>2, ConcatProperties
  <2> QED
    BY <1>2, <1>5, <2>1, <2>2 DEF JoinerTypeOK
<1>7. HeldKeysOrdered'
  <2> SUFFICES ASSUME NEW l \in Keys, partial'[l] # <<>>
               PROVE  \E i \in DOMAIN order' : order'[i] = l
    BY DEF HeldKeysOrdered
  <2>1. CASE l = k
    BY <1>5, <2>1 DEF Contains
  <2>2. CASE l # k
    BY <1>2, <1>5, <2>2 DEF HeldKeysOrdered, JoinerTypeOK
  <2> QED
    BY <2>1, <2>2
<1>8. SplitSoFar'
  <2> SUFFICES ASSUME NEW l \in Keys
               PROVE  lines'[l] = Front(Split(fed'[l], NL)) /\ partial'[l] = Last(Split(fed'[l], NL))
    BY <1>2 DEF SplitSoFar, Written
  <2>1. CASE l = k
    BY <1>2, <1>4, <2>1 DEF JoinerTypeOK
  <2>2. CASE l # k
    BY <1>2, <2>2 DEF SplitSoFar, Written, JoinerTypeOK
  <2> QED
    BY <2>1, <2>2
<1> QED
  BY <1>6, <1>7, <1>8

\* Joiner.Flush hands out what each listed key holds: no other key holds text.
LEMMA FlushKeepsIInv == ASSUME IInv, Flush PROVE IInv'
<1> USE DEF IInv, TypeOK
<1>1. /\ flushed' = TRUE /\ partial' = [k \in Keys |-> <<>>] /\ UNCHANGED <<order, fed>> /\ ~ flushed
      /\ lines' = [k \in Keys |-> IF k \in Remaining THEN Append(lines[k], partial[k]) ELSE lines[k]]
  BY DEF Flush, JoinerFlush
<1>2. \A k \in Keys : /\ fed[k] \in Texts(Symbols, NL) /\ lines[k] \in Seq(Seq(Symbols))
                     /\ partial[k] \in Seq(Symbols) /\ <<>> \in Seq(Symbols)
  BY DEF JoinerTypeOK, Texts, Bytes
<1>3. \A k \in Keys : k \in Remaining <=> partial[k] # <<>>
  BY DEF Remaining, HeldKeysOrdered, ToSet
<1>4. ASSUME NEW k \in Keys
      PROVE  /\ lines'[k] \in Seq(Seq(Symbols))
             /\ lines'[k] = IF Last(Split(fed[k], NL)) # <<>> THEN Split(fed[k], NL)
                            ELSE Front(Split(fed[k], NL))
  <2>1. lines[k] = Front(Split(fed[k], NL)) /\ partial[k] = Last(Split(fed[k], NL))
    BY <1>1 DEF SplitSoFar, Written
  <2>2. Split(fed[k], NL) = Append(lines[k], partial[k]) /\ Split(fed[k], NL) \in Seq(Seq(Symbols))
    BY <1>2, <2>1, SplitTyped
  <2>3. lines'[k] = IF partial[k] # <<>> THEN Append(lines[k], partial[k]) ELSE lines[k]
    BY <1>1, <1>3
  <2> QED
    BY <1>2, <2>1, <2>2, <2>3
<1>5. TypeOK'
  <2>1. lines' \in [Keys -> Seq(Seq(Symbols))]
    BY <1>1, <1>4
  <2> QED
    BY <1>1, <1>2, <2>1 DEF JoinerTypeOK
<1>6. HeldKeysOrdered'
  BY <1>1 DEF HeldKeysOrdered
<1>7. SplitSoFar'
  BY <1>1, <1>4 DEF SplitSoFar, Written
<1> QED
  BY <1>5, <1>6, <1>7

\* The inductive invariant of the joiner, over every sequence of Add and Flush.
THEOREM Invariance == Spec => []IInv
<1>1. Init => IInv
  BY InitIInv
<1>2. IInv /\ [Next]_vars => IInv'
  <2> SUFFICES ASSUME IInv, [Next]_vars PROVE IInv'
    OBVIOUS
  <2>1. CASE \E k \in Keys, chunk \in Chunks : Feed(k, chunk)
    BY <2>1, FeedKeepsIInv
  <2>2. CASE Flush
    BY <2>2, FlushKeepsIInv
  <2>3. CASE UNCHANGED vars
    BY <2>3 DEF IInv, TypeOK, JoinerTypeOK, HeldKeysOrdered, SplitSoFar, Written, vars
  <2> QED
    BY <2>1, <2>2, <2>3 DEF Next
<1> QED
  BY <1>1, <1>2, PTL DEF Spec

\* What is held for a key is part of a line, and no line contains a newline.
THEOREM TypesHold == Spec => []TypeOK
BY Invariance, PTL DEF IInv
-----------------------------------------------------------------------------
\* Every byte fed for a key is handed out for that key once, in order, and Flush
\* leaves none behind.
THEOREM ReassembledHolds == Spec => []Reassembled
<1>1. IInv => Reassembled
  <2> SUFFICES ASSUME IInv, NEW k \in Keys
               PROVE  IF flushed THEN partial[k] = <<>> /\ Joined(lines[k], NL) = Ended(fed[k])
                                 ELSE Joined(lines[k], NL) \o partial[k] = fed[k]
    BY DEF Reassembled
  <2> DEFINE pieces == Split(fed[k], NL)
             front == Front(pieces)
             last == Last(pieces)
  <2>1. fed[k] \in Texts(Symbols, NL) /\ fed[k] \in Seq(Bytes)
    BY DEF IInv, TypeOK, Texts, Bytes
  <2>2. pieces = Append(front, last) /\ front \in Seq(Seq(Symbols)) /\ last \in Seq(Symbols)
    BY <2>1, SplitTyped
  <2>3. Joined(front, NL) \o last = fed[k]
    BY <2>1, SplitKeepsText
  <2>4. Joined(front, NL) \in Seq(Bytes)
    BY <2>2, JoinedTyped DEF Texts, Bytes
  <2>5. lines[k] = IF flushed /\ last # <<>> THEN pieces ELSE front
    BY DEF IInv, SplitSoFar, Written
  <2>6. partial[k] = IF flushed THEN <<>> ELSE last
    BY DEF IInv, SplitSoFar
  <2> HIDE DEF pieces, front, last
  <2>7. CASE ~ flushed
    BY <2>3, <2>5, <2>6, <2>7
  <2>8. CASE flushed /\ last = <<>>
    <3>1. Joined(front, NL) = fed[k]
      BY <2>3, <2>4, <2>8, ConcatEmptySeq
    <3>2. fed[k] = <<>> \/ Last(fed[k]) = NL
      BY <2>2, <3>1, JoinedEnds
    <3> QED
      BY <2>5, <2>6, <2>8, <3>1, <3>2 DEF Ended
  <2>9. CASE flushed /\ last # <<>>
    <3>1. fed[k] # <<>> /\ Last(fed[k]) # NL
      BY <2>2, <2>3, <2>4, <2>9, NLAssumption, HeldEnds DEF Texts, Bytes
    <3>2. Joined(pieces, NL) = Joined(front, NL) \o last \o <<NL>>
      BY <2>2, JoinedAppend
    <3>3. fed[k] \o <<NL>> = Append(fed[k], NL)
      BY <2>1
    <3> QED
      BY <2>3, <2>5, <2>6, <2>9, <3>1, <3>2, <3>3 DEF Ended
  <2> QED
    BY <2>7, <2>8, <2>9
<1> QED
  BY <1>1, Invariance, PTL
-----------------------------------------------------------------------------
(***************************************************************************)
(* What Decode makes of one line.                                           *)
(***************************************************************************)
LEMMA HasTwo ==
  ASSUME NEW S, NEW line \in Seq(S), NEW a, NEW b, NEW i \in DOMAIN line
  PROVE  HasAt(<<a, b>>, line, i) <=> i + 1 <= Len(line) /\ line[i] = a /\ line[i + 1] = b
<1>1. i \in Nat /\ Len(line) \in Nat /\ i + 1 - 1 = i /\ i + 2 - 1 = i + 1
  OBVIOUS
<1>2. DOMAIN <<a, b>> = {1, 2} /\ Len(<<a, b>>) = 2
  OBVIOUS
<1>3. (\A j \in DOMAIN <<a, b>> : line[i + j - 1] = <<a, b>>[j]) <=> line[i] = a /\ line[i + 1] = b
  BY <1>1, <1>2
<1>4. i + 2 <= Len(line) + 1 <=> i + 1 <= Len(line)
  BY <1>1
<1> QED
  BY <1>2, <1>3, <1>4 DEF HasAt

LEMMA HasFour ==
  ASSUME NEW S, NEW line \in Seq(S), NEW a, NEW b, NEW c, NEW d, NEW i \in DOMAIN line
  PROVE  HasAt(<<a, b, c, d>>, line, i) <=> /\ i + 3 <= Len(line)
                                           /\ line[i] = a /\ line[i + 1] = b
                                           /\ line[i + 2] = c /\ line[i + 3] = d
<1>1. /\ i \in Nat /\ Len(line) \in Nat /\ i + 1 - 1 = i /\ i + 2 - 1 = i + 1
      /\ i + 3 - 1 = i + 2 /\ i + 4 - 1 = i + 3
  OBVIOUS
<1>2. DOMAIN <<a, b, c, d>> = {1, 2, 3, 4} /\ Len(<<a, b, c, d>>) = 4
  OBVIOUS
<1>3. (\A j \in DOMAIN <<a, b, c, d>> : line[i + j - 1] = <<a, b, c, d>>[j])
        <=> line[i] = a /\ line[i + 1] = b /\ line[i + 2] = c /\ line[i + 3] = d
  BY <1>1, <1>2
<1>4. i + 4 <= Len(line) + 1 <=> i + 3 <= Len(line)
  BY <1>1
<1> QED
  BY <1>2, <1>3, <1>4 DEF HasAt

\* A message with its last delimiter left out: the decoder does not look for that.
LEMMA Encoded ==
  ASSUME NEW m \in DOMAIN Body
  PROVE  Front(Encode(m)) = <<Mark, Magic, Version, Mark, Body[m][1], Body[m][2], Mark, Sum[m]>>
<1>1. PICK a, b, c : a = Body[m][1] /\ b = Body[m][2] /\ c = Sum[m]
  OBVIOUS
<1>2. Body[m] = <<a, b>>
  BY <1>1, SentinelAssumption
<1>3. PICK T, v, x, y, z : /\ T = {Mark, Magic, Version, a, b, c} /\ v = Version
                          /\ x = <<Mark, Magic, v, Mark>> /\ y = <<a, b>> /\ z = <<Mark, c, Mark>>
  OBVIOUS
<1>4. x \in Seq(T) /\ y \in Seq(T) /\ z \in Seq(T) /\ Len(x) = 4 /\ Len(y) = 2 /\ Len(z) = 3
  BY <1>3
<1>5. PICK xy : xy = x \o y
  OBVIOUS
<1>6. /\ xy \in Seq(T) /\ Len(xy) = 6 /\ xy[1] = Mark /\ xy[2] = Magic /\ xy[3] = v /\ xy[4] = Mark
      /\ xy[5] = a /\ xy[6] = b
  <2>1. /\ xy \in Seq(T) /\ Len(xy) = Len(x) + Len(y)
        /\ \A i \in 1..Len(x) : xy[i] = x[i]
        /\ \A i \in 1..Len(xy) : i > Len(x) => xy[i] = y[i - Len(x)]
    BY ONLY <1>4, <1>5, ConcatAt
  <2> QED
    BY <1>3, <1>4, <2>1
<1>7. PICK e : e = xy \o z
  OBVIOUS
<1>8. /\ e \in Seq(T) /\ Len(e) = 9 /\ e[1] = Mark /\ e[2] = Magic /\ e[3] = v /\ e[4] = Mark
      /\ e[5] = a /\ e[6] = b /\ e[7] = Mark /\ e[8] = c
  <2>1. /\ e \in Seq(T) /\ Len(e) = Len(xy) + Len(z)
        /\ \A i \in 1..Len(xy) : e[i] = xy[i]
        /\ \A i \in 1..Len(e) : i > Len(xy) => e[i] = z[i - Len(xy)]
    BY ONLY <1>4, <1>6, <1>7, ConcatAt
  <2> QED
    BY <1>3, <1>4, <1>6, <2>1
<1>9. Encode(m) = e
  BY <1>1, <1>2, <1>3, <1>5, <1>7 DEF Encode
<1>10. PICK f, g : f = Front(e) /\ g = <<Mark, Magic, v, Mark, a, b, Mark, c>>
  OBVIOUS
<1>11. f \in Seq(T) /\ Len(f) = 8 /\ \A i \in 1..8 : f[i] = e[i]
  <2>1. e # <<>> /\ e \in Seq(T) /\ Len(e) = 9 /\ 9 - 1 = 8
    <3>1. e \in Seq(T) /\ Len(e) = 9
      BY <1>8
    <3>2. e # <<>>
      <4>1. Len(<<>>) # 9
        OBVIOUS
      <4> QED
        BY ONLY <3>1, <4>1, Zenon
    <3>3. 9 - 1 = 8
      OBVIOUS
    <3> QED
      BY <3>1, <3>2, <3>3
  <2>2. /\ Front(e) \in Seq(T) /\ Len(Front(e)) = Len(e) - 1
        /\ \A i \in 1..Len(e) - 1 : Front(e)[i] = e[i]
    BY ONLY <2>1, FrontProperties
  <2> QED
    BY <1>10, <2>1, <2>2
<1>12. g \in Seq(T) /\ Len(g) = 8 /\ \A i \in 1..8 : g[i] = e[i]
  <2>1. g \in Seq(T) /\ Len(g) = 8
    BY <1>3, <1>10
  <2>2. /\ g[1] = e[1] /\ g[2] = e[2] /\ g[3] = e[3] /\ g[4] = e[4]
        /\ g[5] = e[5] /\ g[6] = e[6] /\ g[7] = e[7] /\ g[8] = e[8]
    BY <1>8, <1>10
  <2>3. \A i \in 1..8 : i \in {1, 2, 3, 4, 5, 6, 7, 8}
    OBVIOUS
  <2> QED
    BY <2>1, <2>2, <2>3
<1>13. f = g
  BY <1>11, <1>12, SeqEqual
<1> QED
  BY <1>1, <1>3, <1>9, <1>10, <1>13

MessageAt(m, line, i) ==
  /\ i + 7 <= Len(line)
  /\ line[i] = Mark /\ line[i + 1] = Magic /\ line[i + 2] = Version /\ line[i + 3] = Mark
  /\ line[i + 4] = Body[m][1] /\ line[i + 5] = Body[m][2] /\ line[i + 6] = Mark
  /\ line[i + 7] = Sum[m]

LEMMA HasMessage ==
  ASSUME NEW S, NEW line \in Seq(S), NEW m \in DOMAIN Body, NEW i \in DOMAIN line
  PROVE  HasAt(Front(Encode(m)), line, i) <=> MessageAt(m, line, i)
<1>1. PICK a, b, c, v, s : /\ a = Body[m][1] /\ b = Body[m][2] /\ c = Sum[m] /\ v = Version
                          /\ s = <<Mark, Magic, v, Mark, a, b, Mark, c>>
  OBVIOUS
<1>2. Front(Encode(m)) = s
  BY <1>1, Encoded
<1>3. /\ i \in Nat /\ Len(line) \in Nat /\ i + 1 - 1 = i /\ i + 2 - 1 = i + 1
      /\ i + 3 - 1 = i + 2 /\ i + 4 - 1 = i + 3 /\ i + 5 - 1 = i + 4 /\ i + 6 - 1 = i + 5
      /\ i + 7 - 1 = i + 6 /\ i + 8 - 1 = i + 7
  OBVIOUS
<1>4. /\ DOMAIN s = {1, 2, 3, 4, 5, 6, 7, 8} /\ Len(s) = 8
      /\ s[1] = Mark /\ s[2] = Magic /\ s[3] = v /\ s[4] = Mark
      /\ s[5] = a /\ s[6] = b /\ s[7] = Mark /\ s[8] = c
  BY <1>1
<1>5. (\A j \in DOMAIN s : line[i + j - 1] = s[j])
        <=> /\ line[i] = Mark /\ line[i + 1] = Magic /\ line[i + 2] = v /\ line[i + 3] = Mark
            /\ line[i + 4] = a /\ line[i + 5] = b /\ line[i + 6] = Mark /\ line[i + 7] = c
  BY <1>3, <1>4
<1>6. i + 8 <= Len(line) + 1 <=> i + 7 <= Len(line)
  BY <1>3
<1> QED
  BY <1>1, <1>2, <1>4, <1>5, <1>6 DEF HasAt, MessageAt

\* The next delimiter: what is up to it, and what is beyond it.
IsNext(p, s) ==
  /\ p \in 0..Len(s) /\ (Contains(s, Mark) <=> p # 0) /\ (p # 0 => s[p] = Mark)
  /\ \A j \in 1..Len(s) : p = 0 \/ j < p => s[j] # Mark
  /\ UpTo(s) = SubSeq(s, 1, p - 1) /\ Beyond(s) = SubSeq(s, p + 1, Len(s))

LEMMA NextMark ==
  ASSUME NEW S, NEW s \in Seq(S)
  PROVE  \E p : IsNext(p, s)
<1> DEFINE I == {i \in 1..Len(s) : s[i] = Mark}
           next == SelectInSeq(s, LAMBDA t : t = Mark)
<1>1. UpTo(s) = SubSeq(s, 1, next - 1) /\ Beyond(s) = SubSeq(s, next + 1, Len(s))
  BY DEF UpTo, Beyond
<1>2. CASE I = {}
  <2>1. next = 0
    BY <1>2 DEF SelectInSeq
  <2>2. ~ Contains(s, Mark) /\ \A j \in 1..Len(s) : s[j] # Mark
    BY <1>2 DEF Contains
  <2> HIDE DEF next, I
  <2> QED
    BY <1>1, <2>1, <2>2 DEF IsNext
<1>3. CASE I # {}
  <2>1. PICK p : p = Min(I)
    OBVIOUS
  <2>2. p \in I /\ \A i \in I : p <= i
    <3>1. Len(s) \in Nat /\ I \in SUBSET (1..Len(s))
      OBVIOUS
    <3> HIDE DEF I
    <3> QED
      BY <1>3, <2>1, <3>1, MinOfPositions
  <2>3. next = p
    BY <1>3, <2>1 DEF SelectInSeq
  <2>4. /\ p \in 1..Len(s) /\ s[p] = Mark /\ Contains(s, Mark)
        /\ \A j \in 1..Len(s) : s[j] = Mark => p <= j
    BY <2>2 DEF Contains
  <2>5. \A j \in 1..Len(s) : j < p => s[j] # Mark
    BY <2>4
  <2> HIDE DEF next, I
  <2>6. IsNext(p, s)
    <3>1. p # 0 /\ p \in 0..Len(s)
      BY <2>4
    <3> QED
      BY <1>1, <2>3, <2>4, <2>5, <3>1 DEF IsNext
  <2> QED
    BY <2>6
<1> QED
  BY <1>2, <1>3

\* strings.Cut leaves one token, or two, exactly if they are there, and no delimiter
\* among them.
LEMMA OneToken ==
  ASSUME NEW S, NEW s \in Seq(S), NEW v, v # Mark
  PROVE  /\ Contains(s, Mark) /\ UpTo(s) = <<v>> <=> Len(s) >= 2 /\ s[1] = v /\ s[2] = Mark
         /\ Contains(s, Mark) /\ UpTo(s) = <<v>> => Beyond(s) = SubSeq(s, 3, Len(s))
<1>1. PICK p, n : IsNext(p, s) /\ n = Len(s)
  BY NextMark
<1>2. /\ n \in Nat /\ p \in 0..n /\ (Contains(s, Mark) <=> p # 0) /\ (p # 0 => s[p] = Mark)
      /\ \A j \in 1..n : p = 0 \/ j < p => s[j] # Mark
      /\ UpTo(s) = SubSeq(s, 1, p - 1) /\ Beyond(s) = SubSeq(s, p + 1, n)
  BY <1>1 DEF IsNext
<1>3. PICK u : u = SubSeq(s, 1, p - 1)
  OBVIOUS
<1>4. p # 0 => Len(u) = p - 1 /\ \A j \in 1..p - 1 : u[j] = s[j]
  BY <1>2, <1>3
<1>5. ASSUME p # 0, u = <<v>> PROVE p = 2 /\ n >= 2 /\ s[1] = v
  <2>1. Len(u) = 1 /\ u[1] = v
    BY <1>5
  <2>2. p = 2
    BY <1>2, <1>4, <1>5, <2>1
  <2> QED
    BY <1>2, <1>4, <1>5, <2>1, <2>2
<1>6. ASSUME n >= 2, s[1] = v, s[2] = Mark PROVE p = 2 /\ u = <<v>>
  <2>1. 1 \in 1..n /\ 2 \in 1..n
    BY <1>2, <1>6
  <2>2. p # 0 /\ p <= 2
    BY <1>2, <1>6, <2>1
  <2>3. p # 1
    BY <1>2, <1>6
  <2>4. p = 2
    BY <1>2, <2>2, <2>3
  <2>5. u = SubSeq(s, 1, 1)
    BY <1>3, <2>4
  <2>6. u \in Seq(S) /\ Len(u) = 1 /\ u[1] = s[1] /\ s[1] \in S
    BY <1>1, <1>2, <1>6, <2>1, <2>5
  <2>7. PICK t : t = <<s[1]>>
    OBVIOUS
  <2>8. t \in Seq(S) /\ Len(t) = 1 /\ \A i \in 1..1 : t[i] = u[i]
    BY <2>6, <2>7
  <2>9. u = t
    BY <2>6, <2>8, SeqEqual
  <2> QED
    BY <1>6, <2>4, <2>7, <2>9
<1>7. p = 2 => p + 1 = 3
  OBVIOUS
<1> QED
  BY <1>1, <1>2, <1>3, <1>5, <1>6, <1>7

LEMMA TwoTokens ==
  ASSUME NEW S, NEW s \in Seq(S), NEW v, NEW w, v # Mark, w # Mark
  PROVE  /\ Contains(s, Mark) /\ UpTo(s) = <<v, w>> <=>
              Len(s) >= 3 /\ s[1] = v /\ s[2] = w /\ s[3] = Mark
         /\ Contains(s, Mark) /\ UpTo(s) = <<v, w>> => Beyond(s) = SubSeq(s, 4, Len(s))
<1>1. PICK p, n : IsNext(p, s) /\ n = Len(s)
  BY NextMark
<1>2. /\ n \in Nat /\ p \in 0..n /\ (Contains(s, Mark) <=> p # 0) /\ (p # 0 => s[p] = Mark)
      /\ \A j \in 1..n : p = 0 \/ j < p => s[j] # Mark
      /\ UpTo(s) = SubSeq(s, 1, p - 1) /\ Beyond(s) = SubSeq(s, p + 1, n)
  BY <1>1 DEF IsNext
<1>3. PICK u : u = SubSeq(s, 1, p - 1)
  OBVIOUS
<1>4. p # 0 => Len(u) = p - 1 /\ \A j \in 1..p - 1 : u[j] = s[j]
  BY <1>2, <1>3
<1>5. ASSUME p # 0, u = <<v, w>> PROVE p = 3 /\ n >= 3 /\ s[1] = v /\ s[2] = w
  <2>1. Len(u) = 2 /\ u[1] = v /\ u[2] = w
    BY <1>5
  <2>2. p = 3
    BY <1>2, <1>4, <1>5, <2>1
  <2> QED
    BY <1>2, <1>4, <1>5, <2>1, <2>2
<1>6. ASSUME n >= 3, s[1] = v, s[2] = w, s[3] = Mark PROVE p = 3 /\ u = <<v, w>>
  <2>1. 1 \in 1..n /\ 2 \in 1..n /\ 3 \in 1..n
    BY <1>2, <1>6
  <2>2. p # 0 /\ p <= 3
    BY <1>2, <1>6, <2>1
  <2>3. p # 1 /\ p # 2
    BY <1>2, <1>6
  <2>4. p = 3
    BY <1>2, <2>2, <2>3
  <2>5. u = SubSeq(s, 1, 2)
    BY <1>3, <2>4
  <2>6. /\ u \in Seq(S) /\ Len(u) = 2 /\ u[1] = s[1] /\ u[2] = s[2]
        /\ s[1] \in S /\ s[2] \in S
    BY <1>1, <1>2, <1>6, <2>1, <2>5
  <2>7. PICK t : t = <<s[1], s[2]>>
    OBVIOUS
  <2>8. t \in Seq(S) /\ Len(t) = 2 /\ \A i \in 1..2 : t[i] = u[i]
    BY <2>6, <2>7
  <2>9. u = t
    BY <2>6, <2>8, SeqEqual
  <2> QED
    BY <1>6, <2>4, <2>7, <2>9
<1>7. (Contains(s, Mark) <=> p # 0) /\ UpTo(s) = u /\ (p = 3 => Beyond(s) = SubSeq(s, 4, n))
  BY <1>2, <1>3
<1>8. p = 3 => s[3] = Mark /\ p # 0
  BY <1>2
<1>9. Contains(s, Mark) /\ UpTo(s) = <<v, w>> <=> n >= 3 /\ s[1] = v /\ s[2] = w /\ s[3] = Mark
  BY <1>5, <1>6, <1>7, <1>8
<1>10. Contains(s, Mark) /\ UpTo(s) = <<v, w>> => Beyond(s) = SubSeq(s, 4, n)
  BY <1>5, <1>7
<1> QED
  BY <1>1, <1>9, <1>10

\* ReadBody finds a message if its two tokens, a delimiter and its checksum come next.
BodyIs(t, m) ==
  Len(t) >= 4 /\ t[1] = Body[m][1] /\ t[2] = Body[m][2] /\ t[3] = Mark /\ t[4] = Sum[m]

LEMMA BodyRead ==
  ASSUME NEW S, NEW t \in Seq(S)
  PROVE  /\ \A m \in Messages : BodyIs(t, m) => ReadBody(t) = Found(m)
         /\ (\A m \in Messages : ~ BodyIs(t, m)) => ReadBody(t) = Unusable
<1>1. ASSUME NEW m \in Messages
      PROVE  /\ Contains(t, Mark) /\ UpTo(t) = Body[m] <=>
                  Len(t) >= 3 /\ t[1] = Body[m][1] /\ t[2] = Body[m][2] /\ t[3] = Mark
             /\ Contains(t, Mark) /\ UpTo(t) = Body[m] => Beyond(t) = SubSeq(t, 4, Len(t))
  <2>1. PICK a, b : a = Body[m][1] /\ b = Body[m][2]
    OBVIOUS
  <2>2. m \in DOMAIN Body
    BY SentinelAssumption
  <2>3. a # Mark /\ b # Mark /\ Body[m] = <<a, b>>
    BY <2>1, <2>2, SentinelAssumption
  <2>4. /\ Contains(t, Mark) /\ UpTo(t) = <<a, b>> <=> Len(t) >= 3 /\ t[1] = a /\ t[2] = b /\ t[3] = Mark
        /\ Contains(t, Mark) /\ UpTo(t) = <<a, b>> => Beyond(t) = SubSeq(t, 4, Len(t))
    BY <2>3, TwoTokens
  <2> QED
    BY <2>1, <2>3, <2>4
<1>2. ASSUME NEW c
      PROVE  LET u == SubSeq(t, 4, Len(t)) IN HasAt(<<c>>, u, 1) <=> Len(t) >= 4 /\ t[4] = c
  <2>1. PICK u, n : u = SubSeq(t, 4, Len(t)) /\ n = Len(t)
    OBVIOUS
  <2>2. n \in Nat /\ u \in Seq(S) /\ (n >= 4 => Len(u) = n - 3 /\ u[1] = t[4]) /\ (n < 4 => Len(u) = 0)
    BY <2>1
  <2>3. DOMAIN <<c>> = {1} /\ Len(<<c>>) = 1 /\ <<c>>[1] = c /\ 1 + 1 - 1 = 1
    OBVIOUS
  <2>4. HasAt(<<c>>, u, 1) <=> 2 <= Len(u) + 1 /\ u[1] = c
    BY <2>3 DEF HasAt
  <2> QED
    BY <2>1, <2>2, <2>4
<1>3. \A m \in Messages :
        Contains(t, Mark) /\ UpTo(t) = Body[m] /\ HasAt(<<Sum[m]>>, Beyond(t), 1) <=> BodyIs(t, m)
  <2> TAKE m \in Messages
  <2>1. HasAt(<<Sum[m]>>, SubSeq(t, 4, Len(t)), 1) <=> Len(t) >= 4 /\ t[4] = Sum[m]
    BY <1>2
  <2>2. PICK n, u, x, y, a, b, c :
           /\ n = Len(t) /\ u = UpTo(t) /\ x = Beyond(t) /\ y = SubSeq(t, 4, Len(t))
           /\ a = Body[m][1] /\ b = Body[m][2] /\ c = Sum[m]
    OBVIOUS
  <2>3. n \in Nat
    BY <2>2
  <2>4. /\ Contains(t, Mark) /\ u = Body[m] <=> n >= 3 /\ t[1] = a /\ t[2] = b /\ t[3] = Mark
        /\ Contains(t, Mark) /\ u = Body[m] => x = y
        /\ HasAt(<<c>>, y, 1) <=> n >= 4 /\ t[4] = c
    BY <1>1, <2>1, <2>2
  <2>5. BodyIs(t, m) <=> n >= 4 /\ t[1] = a /\ t[2] = b /\ t[3] = Mark /\ t[4] = c
    BY <2>2 DEF BodyIs
  <2>6. Contains(t, Mark) /\ u = Body[m] /\ HasAt(<<c>>, x, 1) <=> BodyIs(t, m)
    BY ONLY <2>3, <2>4, <2>5
  <2> QED
    BY <2>2, <2>6
<1>4. \A m \in Messages : BodyIs(t, m) => ReadBody(t) = Found(m)
  <2> SUFFICES ASSUME NEW m \in Messages, BodyIs(t, m) PROVE ReadBody(t) = Found(m)
    OBVIOUS
  <2>1. Contains(t, Mark) /\ UpTo(t) = Body[m] /\ HasAt(<<Sum[m]>>, Beyond(t), 1)
    BY <1>3
  <2>2. \A o \in Messages : UpTo(t) = Body[o] => o = m
    BY <2>1, SentinelAssumption
  <2>3. (CHOOSE o \in Messages : UpTo(t) = Body[o]) = m
    BY <2>1, <2>2
  <2> QED
    BY <2>1, <2>3 DEF ReadBody
<1>5. (\A m \in Messages : ~ BodyIs(t, m)) => ReadBody(t) = Unusable
  BY <1>3 DEF ReadBody
<1> QED
  BY <1>4, <1>5

\* Where Decode begins to read.
IsFirst(i, line) ==
  /\ i \in 0..Len(line) /\ PrefixAt(line) = i
  /\ i # 0 => i + 1 <= Len(line) /\ line[i] = Mark /\ line[i + 1] = Magic
  /\ i # 0 => \A j \in 1..i - 1 : ~ HasAt(<<Mark, Magic>>, line, j)
  /\ i = 0 => \A j \in DOMAIN line : ~ HasAt(<<Mark, Magic>>, line, j)

LEMMA FirstPrefix ==
  ASSUME NEW S, NEW line \in Seq(S)
  PROVE  \E i : IsFirst(i, line)
<1> DEFINE I == {i \in DOMAIN line : HasAt(<<Mark, Magic>>, line, i)}
<1>1. PrefixAt(line) = IF I = {} THEN 0 ELSE Min(I)
  BY DEF PrefixAt
<1>2. CASE I = {}
  <2>1. \A j \in DOMAIN line : ~ HasAt(<<Mark, Magic>>, line, j)
    BY <1>2
  <2>2. PrefixAt(line) = 0
    BY <1>1, <1>2
  <2>3. IsFirst(0, line)
    BY <2>1, <2>2 DEF IsFirst
  <2> QED
    BY <2>3
<1>3. CASE I # {}
  <2>1. PICK i : i = Min(I)
    OBVIOUS
  <2>2. i \in I /\ \A j \in I : i <= j
    <3>1. Len(line) \in Nat /\ I \in SUBSET (1..Len(line))
      OBVIOUS
    <3> HIDE DEF I
    <3> QED
      BY <1>3, <2>1, <3>1, MinOfPositions
  <2>3. PrefixAt(line) = i
    BY <1>1, <1>3, <2>1
  <2>4. i \in DOMAIN line /\ HasAt(<<Mark, Magic>>, line, i)
    BY <2>2
  <2>5. i + 1 <= Len(line) /\ line[i] = Mark /\ line[i + 1] = Magic
    BY <2>4, HasTwo
  <2>6. i \in 1..Len(line) /\ Len(line) \in Nat
    BY <2>4
  <2>7. \A j \in 1..i - 1 : ~ HasAt(<<Mark, Magic>>, line, j)
    <3> SUFFICES ASSUME NEW j \in 1..i - 1, HasAt(<<Mark, Magic>>, line, j) PROVE FALSE
      OBVIOUS
    <3>1. j \in DOMAIN line /\ j < i
      BY <2>6
    <3>2. i <= j
      BY <2>2, <3>1
    <3> QED
      BY <2>6, <3>1, <3>2
  <2>8. i # 0 /\ i \in 0..Len(line)
    BY <2>6
  <2>9. IsFirst(i, line)
    <3> HIDE DEF I
    <3> QED
      BY <2>3, <2>5, <2>7, <2>8 DEF IsFirst
  <2> QED
    BY <2>9
<1> QED
  BY <1>2, <1>3

\* What begins like a message begins there.
LEMMA BeginsThere ==
  ASSUME NEW S, NEW line \in Seq(S), NEW i, IsFirst(i, line), NEW l \in DOMAIN line, NEW s,
         HasAt(s, line, l) => HasAt(<<Mark, Magic>>, line, l)
  PROVE  Begins(s, line, l) <=> l = i /\ HasAt(s, line, l)
<1>1. l \in 1..Len(line) /\ Len(line) \in Nat /\ i \in 0..Len(line)
  BY DEF IsFirst
<1>2. ASSUME Begins(s, line, l) PROVE l = i /\ HasAt(s, line, l)
  <2>1. HasAt(<<Mark, Magic>>, line, l) /\ \A j \in 1..l - 1 : ~ HasAt(<<Mark, Magic>>, line, j)
    BY <1>2 DEF Begins
  <2>2. i # 0
    BY <2>1 DEF IsFirst
  <2>3. i \in 1..Len(line) /\ HasAt(<<Mark, Magic>>, line, i)
    <3>1. i \in 1..Len(line)
      BY <1>1, <2>2
    <3>2. i \in DOMAIN line /\ i + 1 <= Len(line) /\ line[i] = Mark /\ line[i + 1] = Magic
      BY <2>2, <3>1 DEF IsFirst
    <3> QED
      BY <3>1, <3>2, HasTwo
  <2>4. ~ (i < l)
    <3> SUFFICES ASSUME i < l PROVE FALSE
      OBVIOUS
    <3>1. i \in 1..l - 1
      BY <1>1, <2>3
    <3> QED
      BY <2>1, <2>3, <3>1
  <2>5. ~ (l < i)
    <3> SUFFICES ASSUME l < i PROVE FALSE
      OBVIOUS
    <3>1. l \in 1..i - 1
      BY <1>1
    <3> QED
      BY <2>1, <2>2, <3>1 DEF IsFirst
  <2> QED
    BY <1>1, <1>2, <2>4, <2>5 DEF Begins
<1>3. ASSUME l = i, HasAt(s, line, l) PROVE Begins(s, line, l)
  <2>1. i # 0
    BY <1>1, <1>3
  <2> QED
    BY <1>3, <2>1 DEF Begins, IsFirst
<1> QED
  BY <1>2, <1>3

\* What is read of a line: the message it carries, and otherwise whether it says
\* it is one.
Understood(line) ==
  /\ \A m \in Messages : Carries(line, m) => Decode(line) = Found(m)
  /\ IsMessage(line) => Claims(line)
  /\ ~ IsMessage(line) => Decode(line) = IF Claims(line) THEN Unusable ELSE Nothing

LEMMA LineRead ==
  ASSUME NEW S, NEW line \in Seq(S)
  PROVE  Understood(line)
<1>1. PICK i, n : IsFirst(i, line) /\ n = Len(line)
  BY FirstPrefix
<1>2. n \in Nat /\ i \in 0..n /\ PrefixAt(line) = i
  BY <1>1 DEF IsFirst
<1>3. \A m \in Messages : m \in DOMAIN Body
  BY SentinelAssumption
<1>4. ASSUME NEW m \in Messages, NEW l \in DOMAIN line
      PROVE  Begins(Front(Encode(m)), line, l) <=> l = i /\ HasAt(Front(Encode(m)), line, l)
  <2>1. m \in DOMAIN Body
    BY <1>3
  <2>2. HasAt(Front(Encode(m)), line, l) => HasAt(<<Mark, Magic>>, line, l)
    <3>1. l \in Nat /\ n \in Nat
      BY <1>2
    <3>2. l + 7 <= n => l + 1 <= n
      BY <3>1
    <3> QED
      BY <1>1, <2>1, <3>2, HasMessage, HasTwo DEF MessageAt
  <2> QED
    BY <1>1, <2>2, BeginsThere
<1>5. ASSUME NEW v, NEW l \in DOMAIN line
      PROVE  Begins(<<Mark, Magic, v, Mark>>, line, l) <=> l = i /\ HasAt(<<Mark, Magic, v, Mark>>, line, l)
  <2>1. HasAt(<<Mark, Magic, v, Mark>>, line, l) => HasAt(<<Mark, Magic>>, line, l)
    <3>1. l + 3 <= n => l + 1 <= n
      BY <1>2
    <3> QED
      BY <1>1, <3>1, HasFour, HasTwo
  <2> QED
    BY <1>1, <2>1, BeginsThere
<1>6. ASSUME NEW l \in DOMAIN line
      PROVE  Begins(<<Mark, Magic>>, line, l) <=> l = i /\ HasAt(<<Mark, Magic>>, line, l)
  BY <1>1, BeginsThere
<1>7. CASE i = 0
  <2>1. \A l \in DOMAIN line : l # i
    BY <1>2, <1>7
  <2>2. ~ IsMessage(line)
    BY <1>4, <2>1 DEF IsMessage, Carries
  <2>3. ~ Claims(line)
    BY <1>5, <1>6, <2>1 DEF Claims
  <2>4. Decode(line) = Nothing
    BY <1>2, <1>7 DEF Decode
  <2> QED
    BY <2>2, <2>3, <2>4 DEF Understood, IsMessage
<1>8. CASE i # 0
  <2>1. i \in DOMAIN line /\ i \in 1..n /\ i + 1 <= n /\ line[i] = Mark /\ line[i + 1] = Magic
    <3>1. i \in 1..n
      BY <1>2, <1>8
    <3>2. DOMAIN line = 1..n
      BY <1>1
    <3>3. i + 1 <= n /\ line[i] = Mark /\ line[i + 1] = Magic
      BY <1>1, <1>8 DEF IsFirst
    <3> QED
      BY <3>1, <3>2, <3>3
  <2>2. PICK r : r = SubSeq(line, i + 2, n)
    OBVIOUS
  <2>3. r \in Seq(S) /\ Len(r) = n - i - 1 /\ \A j \in 1..n - i - 1 : r[j] = line[i + 1 + j]
    <3>1. i + 2 \in Nat /\ i + 2 >= 1 /\ n + 1 >= i + 2
      BY <1>2, <2>1
    <3>2. r \in Seq(S) /\ Len(r) = n - (i + 2) + 1 /\ \A j \in 1..n - (i + 2) + 1 : r[j] = line[(i + 2) + j - 1]
      BY <1>1, <1>2, <2>2, <3>1
    <3>3. n - (i + 2) + 1 = n - i - 1 /\ \A j \in Nat : (i + 2) + j - 1 = i + 1 + j
      BY <1>2
    <3>4. \A j \in 1..n - i - 1 : j \in Nat
      OBVIOUS
    <3> QED
      BY <3>2, <3>3, <3>4
  <2>4. PICK k : k = Len(r)
    OBVIOUS
  <2>5. k \in Nat /\ k = n - i - 1 /\ (k >= 1 => r[1] = line[i + 2]) /\ (k >= 2 => r[2] = line[i + 3])
    BY <1>2, <2>1, <2>3, <2>4
  <2>6. Decode(line) = ReadVersion(r)
    <3>1. Decode(line) = ReadVersion(SubSeq(line, i + 2, n))
      BY <1>1, <1>2, <1>8 DEF Decode
    <3> QED
      BY <2>2, <3>1
  <2>7. ASSUME NEW v, v # Mark
        PROVE  HasAt(<<Mark, Magic, v, Mark>>, line, i) <=> Contains(r, Mark) /\ UpTo(r) = <<v>>
    <3>1. Contains(r, Mark) /\ UpTo(r) = <<v>> <=> k >= 2 /\ r[1] = v /\ r[2] = Mark
      BY <2>3, <2>4, <2>7, OneToken
    <3>2. HasAt(<<Mark, Magic, v, Mark>>, line, i) <=> i + 3 <= n /\ line[i + 2] = v /\ line[i + 3] = Mark
      BY <1>1, <2>1, HasFour
    <3>3. i + 3 <= n <=> k >= 2
      BY <1>2, <2>5
    <3> QED
      BY <2>5, <3>1, <3>2, <3>3
  <2>8. (\A j \in i + 1..n : line[j] # Mark) <=> ~ Contains(r, Mark)
    <3>1. ASSUME NEW j \in i + 1..n, line[j] = Mark PROVE Contains(r, Mark)
      <4>1. j # i + 1
        BY <2>1, <3>1, SentinelAssumption
      <4>2. j - i - 1 \in 1..k /\ i + 1 + (j - i - 1) = j
        BY <1>2, <2>5, <4>1
      <4>3. r[j - i - 1] = Mark
        BY <2>3, <2>5, <3>1, <4>2
      <4> QED
        BY <2>4, <4>2, <4>3 DEF Contains
    <3>2. ASSUME NEW j \in 1..k, r[j] = Mark PROVE \E l \in i + 1..n : line[l] = Mark
      <4>1. i + 1 + j \in i + 1..n /\ line[i + 1 + j] = Mark
        BY <1>2, <2>3, <2>5, <3>2
      <4> QED
        BY <4>1
    <3> QED
      BY <2>4, <3>1, <3>2 DEF Contains
  <2>9. Claims(line) <=> ~ Contains(r, Mark) \/ \E v \in Numerals : UpTo(r) = <<v>>
    <3>1. \A v \in Numerals : v # Mark
      BY SentinelAssumption
    <3>2. Claims(line) <=> \/ \E v \in Numerals : HasAt(<<Mark, Magic, v, Mark>>, line, i)
                           \/ HasAt(<<Mark, Magic>>, line, i) /\ \A j \in i + 1..n : line[j] # Mark
      BY <1>1, <1>5, <1>6, <2>1 DEF Claims
    <3>3. HasAt(<<Mark, Magic>>, line, i)
      BY <1>1, <2>1, HasTwo
    <3> QED
      BY <2>7, <2>8, <3>1, <3>2, <3>3
  <2>10. Version # Mark /\ Version \in Numerals
    BY SentinelAssumption
  <2>11. PICK t : t = SubSeq(r, 3, k)
    OBVIOUS
  <2>12. t \in Seq(S) /\ (k >= 2 => Len(t) = k - 2 /\ \A j \in 1..k - 2 : t[j] = r[j + 2])
    BY <2>3, <2>4, <2>5, <2>11
  <2>13. Contains(r, Mark) /\ UpTo(r) = <<Version>> => k >= 2 /\ Beyond(r) = t /\ r[1] = Version /\ r[2] = Mark
    BY <2>3, <2>4, <2>10, <2>11, OneToken
  <2>14. ASSUME NEW m \in Messages
         PROVE  Carries(line, m) <=> Contains(r, Mark) /\ UpTo(r) = <<Version>> /\ BodyIs(t, m)
    <3>1. PICK a, b, c : a = Body[m][1] /\ b = Body[m][2] /\ c = Sum[m]
      OBVIOUS
    <3>2. Carries(line, m) <=> HasAt(Front(Encode(m)), line, i)
      BY <1>4, <2>1 DEF Carries
    <3>3. HasAt(Front(Encode(m)), line, i) <=>
            /\ i + 7 <= n /\ line[i + 2] = Version /\ line[i + 3] = Mark
            /\ line[i + 4] = a /\ line[i + 5] = b /\ line[i + 6] = Mark /\ line[i + 7] = c
      <4>1. HasAt(Front(Encode(m)), line, i) <=> MessageAt(m, line, i)
        BY <1>3, <2>1, HasMessage
      <4> QED
        BY <1>1, <2>1, <3>1, <4>1 DEF MessageAt
    <3>4. HasAt(<<Mark, Magic, Version, Mark>>, line, i) <=> i + 3 <= n /\ line[i + 2] = Version /\ line[i + 3] = Mark
      BY <1>1, <2>1, HasFour
    <3>5. PICK h : h = Len(t)
      OBVIOUS
    <3>6. BodyIs(t, m) <=> h >= 4 /\ t[1] = a /\ t[2] = b /\ t[3] = Mark /\ t[4] = c
      BY <3>1, <3>5 DEF BodyIs
    <3>7. k >= 2 => h = n - i - 3 /\ (h >= 4 <=> i + 7 <= n)
      BY <1>2, <2>5, <2>12, <3>5
    <3>8. k >= 2 /\ h >= 4 => /\ t[1] = line[i + 4] /\ t[2] = line[i + 5]
                              /\ t[3] = line[i + 6] /\ t[4] = line[i + 7]
      <4> SUFFICES ASSUME k >= 2, h >= 4
                   PROVE  /\ t[1] = line[i + 4] /\ t[2] = line[i + 5]
                          /\ t[3] = line[i + 6] /\ t[4] = line[i + 7]
        OBVIOUS
      <4>1. h = k - 2 /\ k >= 6
        BY <2>5, <2>12, <3>5
      <4>2. t[1] = r[3] /\ t[2] = r[4] /\ t[3] = r[5] /\ t[4] = r[6]
        BY <2>5, <2>12, <4>1
      <4>3. r[3] = line[i + 4] /\ r[4] = line[i + 5] /\ r[5] = line[i + 6] /\ r[6] = line[i + 7]
        BY <1>2, <2>3, <2>5, <4>1
      <4> QED
        BY <4>2, <4>3
    <3>9. i + 3 <= n <=> k >= 2
      BY <1>2, <2>5
    <3>10. i + 7 <= n => i + 3 <= n
      BY <1>2
    <3>11. HasAt(<<Mark, Magic, Version, Mark>>, line, i) <=> Contains(r, Mark) /\ UpTo(r) = <<Version>>
      BY <2>7, <2>10
    <3>12. HasAt(Front(Encode(m)), line, i) <=> HasAt(<<Mark, Magic, Version, Mark>>, line, i) /\ BodyIs(t, m)
      BY ONLY <3>3, <3>4, <3>6, <3>7, <3>8, <3>9, <3>10
    <3> QED
      BY <3>2, <3>11, <3>12
  <2>15. CASE ~ Contains(r, Mark)
    <3>1. ReadVersion(r) = Unusable
      BY <2>15 DEF ReadVersion
    <3>2. ~ IsMessage(line)
      BY <2>14, <2>15 DEF IsMessage
    <3> QED
      BY <2>6, <2>9, <2>15, <3>1, <3>2 DEF Understood, IsMessage
  <2>16. CASE Contains(r, Mark) /\ UpTo(r) # <<Version>>
    <3>1. ~ IsMessage(line)
      BY <2>14, <2>16 DEF IsMessage
    <3>2. ReadVersion(r) = IF Claims(line) THEN Unusable ELSE Nothing
      BY <2>9, <2>16 DEF ReadVersion
    <3> QED
      BY <2>6, <3>1, <3>2 DEF Understood, IsMessage
  <2>17. CASE Contains(r, Mark) /\ UpTo(r) = <<Version>>
    <3>1. Claims(line)
      BY <2>9, <2>10, <2>17
    <3>2. ReadVersion(r) = ReadBody(t)
      BY <2>10, <2>13, <2>17 DEF ReadVersion
    <3>3. \A m \in Messages : Carries(line, m) <=> BodyIs(t, m)
      BY <2>14, <2>17
    <3>4. /\ \A m \in Messages : BodyIs(t, m) => ReadBody(t) = Found(m)
          /\ (\A m \in Messages : ~ BodyIs(t, m)) => ReadBody(t) = Unusable
      BY <2>12, BodyRead
    <3> QED
      BY <2>6, <3>1, <3>2, <3>3, <3>4 DEF Understood, IsMessage
  <2> QED
    BY <2>15, <2>16, <2>17
<1> QED
  BY <1>7, <1>8
-----------------------------------------------------------------------------
(***************************************************************************)
(* What is read of all the lines.                                           *)
(***************************************************************************)
\* The message a line carries.
ReadFrom(line) == CHOOSE m \in Messages : Carries(line, m)

LEMMA OneMessage ==
  ASSUME NEW line \in Line
  PROVE  Decode(line).messages = IF IsMessage(line) THEN <<ReadFrom(line)>> ELSE <<>>
<1>1. Understood(line)
  BY LineRead DEF Line
<1>2. CASE IsMessage(line)
  <2>1. ReadFrom(line) \in Messages /\ Carries(line, ReadFrom(line))
    BY <1>2 DEF IsMessage, ReadFrom
  <2>2. Decode(line) = Found(ReadFrom(line))
    BY <1>1, <2>1 DEF Understood
  <2> QED
    BY <1>2, <2>2 DEF Found
<1>3. CASE ~ IsMessage(line)
  <2>1. Decode(line) = IF Claims(line) THEN Unusable ELSE Nothing
    BY <1>1, <1>3 DEF Understood
  <2> QED
    BY <1>3, <2>1 DEF Unusable, Nothing
<1> QED
  BY <1>2, <1>3

LEMMA AllMessages ==
  ASSUME NEW ls \in Seq(Line)
  PROVE  LET carrying == Filtered(ls, {line \in Line : IsMessage(line)})
         IN  MessagesOf(ls) = [i \in DOMAIN carrying |-> ReadFrom(carrying[i])]
<1>1. PICK K, M, V : /\ K = Line /\ M = {line \in Line : IsMessage(line)}
                    /\ V = {ReadFrom(line) : line \in Line}
  OBVIOUS
<1>2. PICK F, G : F = [line \in K |-> ReadFrom(line)] /\ G = [line \in K |-> Decode(line).messages]
  OBVIOUS
<1>3. F \in [K -> V] /\ \A e \in K : F[e] = ReadFrom(e)
  BY <1>1, <1>2
<1>4. \A e \in K : G[e] = IF e \in M THEN <<F[e]>> ELSE <<>>
  BY <1>1, <1>2, <1>3, OneMessage
<1>5. PICK W : W = Seq(V)
  OBVIOUS
<1>6. G \in [K -> W]
  <2>1. \A e \in K : <<F[e]>> \in W /\ <<>> \in W
    BY <1>3, <1>5
  <2>2. \A e \in K : G[e] \in W
    BY <1>4, <2>1
  <2> QED
    BY <1>2, <2>2
<1>7. <<>> \in K
  BY <1>1 DEF Line
<1> DEFINE T == {u \in Seq(K) : FlattenSeq(Mapped(G, u)) = Mapped(F, Filtered(u, M))}
<1>8. <<>> \in T
  <2>1. Mapped(G, <<>>) = <<>> /\ Mapped(F, <<>>) = <<>>
    BY DEF Mapped
  <2>2. Filtered(<<>>, M) = <<>> /\ FlattenSeq(<<>>) = <<>> /\ <<>> \in Seq(K)
    BY FilteredProperties, FlattenProperties
  <2> QED
    BY <2>1, <2>2
<1>9. ASSUME NEW u \in Seq(K), NEW e \in K, FlattenSeq(Mapped(G, u)) = Mapped(F, Filtered(u, M))
      PROVE  FlattenSeq(Mapped(G, Append(u, e))) = Mapped(F, Filtered(Append(u, e), M))
  <2>1. PICK g, c, f : g = Mapped(G, u) /\ c = Filtered(u, M) /\ f = Mapped(F, c)
    OBVIOUS
  <2>2. MapsOn(G, u, e, W)
    BY ONLY <1>6, <1>9, MappedAppend
  <2>3. g \in Seq(W) /\ Mapped(G, Append(u, e)) = Append(g, G[e]) /\ G[e] \in W
    BY <1>6, <1>9, <2>1, <2>2 DEF MapsOn
  <2>4. FlattenSeq(Append(g, G[e])) = FlattenSeq(g) \o G[e]
    <3>1. g \in Seq(Seq(V)) /\ G[e] \in Seq(V)
      BY <1>5, <2>3
    <3> QED
      BY ONLY <3>1, FlattenProperties
  <2>5. FiltersOn(u, e, M) /\ c \in Seq(K)
    BY <1>9, <2>1, FilteredProperties
  <2>6. MapsOn(F, c, e, V)
    BY ONLY <1>3, <1>9, <2>5, MappedAppend
  <2>7. f \in Seq(V) /\ Mapped(F, Append(c, e)) = Append(f, F[e]) /\ F[e] \in V
    BY <1>3, <1>9, <2>1, <2>6 DEF MapsOn
  <2>8. FlattenSeq(Mapped(G, Append(u, e))) = f \o G[e]
    BY <1>9, <2>1, <2>3, <2>4
  <2>9. CASE e \in M
    <3>1. Filtered(Append(u, e), M) = Append(c, e)
      BY <2>1, <2>5, <2>9 DEF FiltersOn
    <3>2. f \o <<F[e]>> = Append(f, F[e])
      BY ONLY <2>7, AppendIsConcat
    <3>3. G[e] = <<F[e]>>
      BY <1>4, <1>9, <2>9
    <3> QED
      BY <2>7, <2>8, <3>1, <3>2, <3>3
  <2>10. CASE e \notin M
    <3>1. Filtered(Append(u, e), M) = c
      BY <2>1, <2>5, <2>10 DEF FiltersOn
    <3>2. f \o <<>> = f
      BY <2>7, ConcatEmptySeq
    <3>3. G[e] = <<>>
      BY <1>4, <1>9, <2>10
    <3> QED
      BY <2>1, <2>8, <3>1, <3>2, <3>3
  <2> QED
    BY <2>9, <2>10
<1>10. \A u \in Seq(K), e \in K : u \in T => Append(u, e) \in T
  <2> SUFFICES ASSUME NEW u \in Seq(K), NEW e \in K, u \in T PROVE Append(u, e) \in T
    OBVIOUS
  <2>1. Append(u, e) \in Seq(K)
    OBVIOUS
  <2> QED
    BY <1>9, <2>1
<1>11. Seq(K) \subseteq T
  <2> HIDE DEF T
  <2> QED
    BY ONLY <1>8, <1>10, SequenceInduction
<1>12. FlattenSeq(Mapped(G, ls)) = Mapped(F, Filtered(ls, M))
  BY <1>1, <1>11
<1>13. [i \in DOMAIN ls |-> Decode(ls[i]).messages] = Mapped(G, ls)
  <2>1. \A i \in DOMAIN ls : Decode(ls[i]).messages = G[ls[i]]
    BY <1>1, <1>2
  <2> QED
    BY <2>1 DEF Mapped
<1>14. PICK c : c = Filtered(ls, M)
  OBVIOUS
<1>15. [i \in DOMAIN c |-> ReadFrom(c[i])] = Mapped(F, c)
  <2>1. c \in Seq(K)
    BY <1>1, <1>14, FilteredProperties
  <2>2. \A i \in DOMAIN c : ReadFrom(c[i]) = F[c[i]]
    BY <1>3, <2>1
  <2> QED
    BY <2>2 DEF Mapped
<1> QED
  BY <1>1, <1>12, <1>13, <1>14, <1>15 DEF MessagesOf

\* The lines of the text are those that are neither a message nor the runner's.
LEMMA TextLines ==
  LET damaged == {line \in Line : Claims(line) /\ ~IsMessage(line)}
      runner == {line \in Line : IsFraming(line) /\ ~Claims(line)}
  IN  /\ {l \in Line : Decode(l) = Unusable \/ (~ Decode(l).found /\ ~IsFraming(l))}
           = {line \in Line : ~IsMessage(line)} \ runner
      /\ {l \in Line : Decode(l) = Unusable} = damaged
      /\ damaged \subseteq {line \in Line : ~IsMessage(line)} \ runner
<1>1. ASSUME NEW l \in Line
      PROVE  /\ Decode(l) = Unusable <=> Claims(l) /\ ~IsMessage(l)
             /\ Decode(l) = Unusable \/ (~ Decode(l).found /\ ~IsFraming(l))
                  <=> ~IsMessage(l) /\ ~ (IsFraming(l) /\ ~Claims(l))
  <2>1. Understood(l)
    BY LineRead DEF Line
  <2>2. CASE IsMessage(l)
    <3>1. Claims(l)
      BY <2>1, <2>2 DEF Understood
    <3>2. PICK m : Decode(l) = Found(m)
      BY <2>1, <2>2 DEF Understood, IsMessage
    <3>3. Decode(l) # Unusable /\ Decode(l).found
      <4>1. Found(m).messages = <<m>> /\ Unusable.messages = <<>> /\ <<m>> # <<>> /\ Found(m).found
        BY DEF Found, Unusable
      <4> QED
        BY <3>2, <4>1
    <3> QED
      BY <2>2, <3>1, <3>3
  <2>3. CASE ~IsMessage(l) /\ Claims(l)
    BY <2>1, <2>3 DEF Understood
  <2>4. CASE ~IsMessage(l) /\ ~Claims(l)
    <3>1. Decode(l) = Nothing
      BY <2>1, <2>4 DEF Understood
    <3>2. Nothing # Unusable /\ ~ Nothing.found
      <4>1. ~ Nothing.found /\ Unusable.found
        BY DEF Nothing, Unusable
      <4> QED
        BY <4>1
    <3> QED
      BY <2>4, <3>1, <3>2
  <2> QED
    BY <2>2, <2>3, <2>4
<1> QED
  BY <1>1

\* Keeping some of what was kept is keeping those at once.
LEMMA FilteredTwice ==
  ASSUME NEW S, NEW B, NEW D, D \subseteq B, NEW ls \in Seq(S)
  PROVE  Filtered(Filtered(ls, B), D) = Filtered(ls, D)
<1> DEFINE T == {u \in Seq(S) : Filtered(Filtered(u, B), D) = Filtered(u, D)}
<1>1. <<>> \in T
  BY FilteredProperties
<1>2. ASSUME NEW u \in Seq(S), NEW e \in S, Filtered(Filtered(u, B), D) = Filtered(u, D)
      PROVE  Filtered(Filtered(Append(u, e), B), D) = Filtered(Append(u, e), D)
  <2>1. PICK c : c = Filtered(u, B)
    OBVIOUS
  <2>2. c \in Seq(S)
    BY <2>1, FilteredProperties
  <2>3. FiltersOn(u, e, B) /\ FiltersOn(u, e, D) /\ FiltersOn(c, e, D)
    BY <2>2, FilteredProperties
  <2>4. CASE e \in B
    BY <1>2, <2>1, <2>3, <2>4 DEF FiltersOn
  <2>5. CASE e \notin B
    BY <1>2, <2>1, <2>3, <2>5 DEF FiltersOn
  <2> QED
    BY <2>4, <2>5
<1>3. \A u \in Seq(S), e \in S : u \in T => Append(u, e) \in T
  <2> SUFFICES ASSUME NEW u \in Seq(S), NEW e \in S, u \in T PROVE Append(u, e) \in T
    OBVIOUS
  <2>1. Append(u, e) \in Seq(S)
    OBVIOUS
  <2> QED
    BY <1>2, <2>1
<1>4. Seq(S) \subseteq T
  <2> HIDE DEF T
  <2> QED
    BY ONLY <1>1, <1>3, SequenceInduction
<1> QED
  BY <1>4

\* splitOutput reads exactly the messages that lie whole on a line the test wrote,
\* in order: cutting the output into chunks makes none and breaks none.
THEOREM ReadsMessages == Spec => []MessagesRead
<1>1. IInv => MessagesRead
  <2> SUFFICES ASSUME IInv, NEW k \in Keys
               PROVE  LET carrying == Filtered(Written(k), {line \in Line : IsMessage(line)})
                      IN  MessagesOf(lines[k]) =
                            [i \in DOMAIN carrying |-> CHOOSE m \in Messages : Carries(carrying[i], m)]
    BY DEF MessagesRead
  <2>1. lines[k] \in Seq(Line) /\ lines[k] = Written(k)
    BY DEF IInv, TypeOK, SplitSoFar, Line
  <2> QED
    BY <2>1, AllMessages DEF ReadFrom
<1> QED
  BY <1>1, Invariance, PTL

\* The text keeps every line the test wrote but the messages and the runner's
\* framing, and there is one warning for each damaged message, which stays in it.
THEOREM KeepsText == Spec => []TextKept
<1>1. IInv => TextKept
  <2> SUFFICES ASSUME IInv, NEW k \in Keys
               PROVE  LET damaged == {line \in Line : Claims(line) /\ ~IsMessage(line)}
                          runner == {line \in Line : IsFraming(line) /\ ~Claims(line)}
                          text == Filtered(Written(k), {line \in Line : ~IsMessage(line)} \ runner)
                      IN  /\ TextOf(lines[k]) = text
                          /\ WarningsOf(lines[k]) = Filtered(text, damaged)
    BY DEF TextKept
  <2>1. lines[k] \in Seq(Line) /\ lines[k] = Written(k)
    BY DEF IInv, TypeOK, SplitSoFar, Line
  <2>2. PICK damaged, runner, kept :
             /\ damaged = {line \in Line : Claims(line) /\ ~IsMessage(line)}
             /\ runner = {line \in Line : IsFraming(line) /\ ~Claims(line)}
             /\ kept = {line \in Line : ~IsMessage(line)} \ runner
    OBVIOUS
  <2>3. /\ TextOf(lines[k]) = Filtered(lines[k], kept)
        /\ WarningsOf(lines[k]) = Filtered(lines[k], damaged) /\ damaged \subseteq kept
    BY <2>2, TextLines DEF TextOf, WarningsOf
  <2>4. Filtered(Filtered(lines[k], kept), damaged) = Filtered(lines[k], damaged)
    BY ONLY <2>1, <2>3, FilteredTwice
  <2> QED
    BY <2>1, <2>2, <2>3, <2>4
<1> QED
  BY <1>1, Invariance, PTL
=============================================================================
