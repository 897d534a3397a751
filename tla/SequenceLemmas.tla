--------------------------- MODULE SequenceLemmas ---------------------------
(***************************************************************************)
(* Facts about the community operators the models are built from.           *)
(***************************************************************************)
EXTENDS Slices, WellFoundedInduction, SequenceTheorems, TLAPS

\* A non-empty set of positions has a largest one, and Max returns it: the last
\* newline of a buffer, the innermost open step of a stack.
LEMMA MaxOfPositions ==
  ASSUME NEW n \in Nat, NEW I \in SUBSET (1..n), I # {}
  PROVE  Max(I) \in I /\ \A i \in I : Max(I) >= i
<1> DEFINE J == {n - i : i \in I}
<1>1. J \subseteq Nat
  OBVIOUS
<1>2. J # {}
  <2>1. PICK i \in I : TRUE
    OBVIOUS
  <2>2. n - i \in J
    BY <2>1
  <2> QED
    BY <2>2
<1> DEFINE R == OpToRel(<, Nat)
<1>3. PICK m \in J : \A j \in J : ~ (<<j, m>> \in R)
  <2> HIDE DEF J
  <2> QED
    BY <1>1, <1>2, NatLessThanWellFounded, WFMin
<1>4. \A j \in J : m <= j
  <2> TAKE j \in J
  <2>1. j \in Nat /\ m \in Nat
    BY <1>1
  <2>2. ~ (j < m)
    BY <1>3, <2>1 DEF OpToRel
  <2> QED
    BY <2>1, <2>2
<1>5. PICK x \in I : m = n - x
  OBVIOUS
<1>6. \A i \in I : x >= i
  <2> TAKE i \in I
  <2>1. n - i \in J
    OBVIOUS
  <2>2. n - x <= n - i
    BY <1>4, <1>5, <2>1
  <2>3. i \in Int /\ x \in Int /\ n \in Int
    OBVIOUS
  <2> HIDE DEF J, R
  <2> QED
    BY ONLY <2>2, <2>3
<1> QED
  BY <1>6 DEF Max

\* And a smallest one, which Min returns: the argument that ends a list.
LEMMA MinOfPositions ==
  ASSUME NEW n \in Nat, NEW I \in SUBSET (1..n), I # {}
  PROVE  Min(I) \in I /\ \A i \in I : Min(I) <= i
<1> DEFINE J == {n + 1 - i : i \in I}
<1>1. J \in SUBSET (1..n) /\ J # {}
  <2>1. PICK i \in I : TRUE
    OBVIOUS
  <2>2. n + 1 - i \in J
    BY <2>1
  <2> QED
    BY <2>2
<1>2. PICK m \in J : \A j \in J : m >= j
  <2> HIDE DEF J
  <2> QED
    BY <1>1, MaxOfPositions
<1>3. PICK x \in I : m = n + 1 - x
  OBVIOUS
<1>4. \A i \in I : x <= i
  <2> TAKE i \in I
  <2>1. n + 1 - i \in J
    OBVIOUS
  <2>2. n + 1 - x >= n + 1 - i
    BY <1>2, <1>3, <2>1
  <2>3. i \in Int /\ x \in Int /\ n \in Int
    OBVIOUS
  <2> HIDE DEF J
  <2> QED
    BY ONLY <2>2, <2>3
<1> QED
  BY <1>4 DEF Min

\* The front of a sequence: one element shorter, the others in place.
LEMMA FrontProperties ==
  ASSUME NEW S, NEW s \in Seq(S), s # <<>>
  PROVE  /\ Front(s) \in Seq(S)
         /\ Len(Front(s)) = Len(s) - 1
         /\ \A i \in 1..Len(s) - 1 : Front(s)[i] = s[i]
<1>1. Len(s) - 1 \in Nat /\ 1 + (Len(s) - 1) = Len(s)
  OBVIOUS
<1>2. \A i \in 1..Len(s) - 1 : s[i] \in S
  OBVIOUS
<1> QED
  BY <1>1, <1>2, SubSeqProperties DEF Front

\* One element replaced: the same length, the others in place.
LEMMA ReplacedElement ==
  ASSUME NEW S, NEW s \in Seq(S), NEW k \in 1..Len(s), NEW e \in S
  PROVE  /\ [s EXCEPT ![k] = e] \in Seq(S)
         /\ Len([s EXCEPT ![k] = e]) = Len(s)
         /\ [s EXCEPT ![k] = e][k] = e
         /\ \A i \in 1..Len(s) : i # k => [s EXCEPT ![k] = e][i] = s[i]
BY ExceptSeq

LEMMA OneReplaced ==
  ASSUME NEW S, NEW s \in Seq(S), NEW k \in 1..Len(s), NEW e, NEW t, t = [s EXCEPT ![k] = e]
  PROVE  t[k] = e /\ \A i \in 1..Len(s) : i # k => t[i] = s[i]
<1>1. DOMAIN s = 1..Len(s)
  OBVIOUS
<1> QED
  BY ONLY <1>1, k \in 1..Len(s), t = [s EXCEPT ![k] = e], Zenon

\* Positions in a sequence are positions in a longer one.
LEMMA PositionsWiden ==
  ASSUME NEW n \in Nat, NEW s \in Seq(1..n)
  PROVE  s \in Seq(1..n + 1)
<1>1. \A i \in 1..Len(s) : s[i] \in 1..n + 1
  OBVIOUS
<1> QED
  BY <1>1
-----------------------------------------------------------------------------
(***************************************************************************)
(* Induction.  The library's induction theorems take an operator; here the   *)
(* property is the set of what has it, which the least element of a set of   *)
(* numbers is enough for.                                                   *)
(***************************************************************************)
LEMMA InductionUpTo ==
  ASSUME NEW n \in Nat, NEW T, 0 \in T, \A i \in 0..n - 1 : i \in T => i + 1 \in T
  PROVE  0..n \subseteq T
<1> SUFFICES ASSUME ~ (0..n \subseteq T) PROVE FALSE
  OBVIOUS
<1> DEFINE U == {i \in 0..n : i \notin T}
           R == OpToRel(<, Nat)
<1>1. U \subseteq Nat /\ U # {}
  OBVIOUS
<1>2. PICK m \in U : \A i \in U : ~ (<<i, m>> \in R)
  <2> HIDE DEF U
  <2> QED
    BY <1>1, NatLessThanWellFounded, WFMin
<1>3. m \in 0..n /\ m # 0 /\ m \notin T
  OBVIOUS
<1>4. m - 1 \in 0..n - 1 /\ m - 1 \in 0..n /\ m - 1 < m /\ m - 1 \in Nat /\ (m - 1) + 1 = m
  BY <1>3
<1>5. <<m - 1, m>> \in R
  BY <1>3, <1>4 DEF OpToRel
<1>6. m - 1 \notin U
  <2> HIDE DEF U, R
  <2> QED
    BY <1>2, <1>5
<1>7. m - 1 \in T
  BY <1>4, <1>6
<1> QED
  BY <1>3, <1>4, <1>7

\* Every sequence is built from the empty one by appending.
LEMMA SequenceInduction ==
  ASSUME NEW S, NEW T, <<>> \in T,
         \A s \in Seq(S), e \in S : s \in T => Append(s, e) \in T
  PROVE  Seq(S) \subseteq T
<1> SUFFICES ASSUME NEW s \in Seq(S) PROVE s \in T
  OBVIOUS
<1> DEFINE n == Len(s)
           prefix(i) == SubSeq(s, 1, i)
           I == {i \in 0..n : prefix(i) \in T}
<1>0. n \in Nat
  OBVIOUS
<1>1. 0 \in I
  <2>1. prefix(0) = <<>> /\ 0 \in 0..n
    BY <1>0
  <2> QED
    BY <2>1
<1>2. ASSUME NEW i \in 0..n - 1, i \in I PROVE i + 1 \in I
  <2>1. prefix(i) \in Seq(S) /\ s[i + 1] \in S /\ prefix(i + 1) = Append(prefix(i), s[i + 1])
    OBVIOUS
  <2>2. prefix(i) \in T /\ i + 1 \in 0..n
    BY <1>2
  <2> HIDE DEF prefix
  <2> QED
    BY <2>1, <2>2
<1>3. 0..n \subseteq I
  <2> HIDE DEF I, n
  <2> QED
    BY ONLY <1>0, <1>1, <1>2, InductionUpTo
<1>4. prefix(n) \in T
  BY <1>0, <1>3
<1>5. prefix(n) = s
  OBVIOUS
<1> QED
  BY <1>4, <1>5
-----------------------------------------------------------------------------
(***************************************************************************)
(* Recursion over a sequence: H folds F over the elements, from base.  An    *)
(* operator defined by a recursive function on 0..Len(s), or on 1..Len(s), is *)
(* shown to be such an H once; what it computes follows by induction.       *)
(***************************************************************************)
IsFold(H, S, A, base, F) ==
  /\ H \in [Seq(S) -> A]
  /\ H[<<>>] = base
  /\ \A s \in Seq(S), e \in S : H[Append(s, e)] = F[<<H[s], e>>]

\* The values of a fold over the prefixes of s.
IsTrace(f, s, A, base, F) ==
  /\ f \in [0..Len(s) -> A]
  /\ f[0] = base
  /\ \A i \in 1..Len(s) : f[i] = F[<<f[i - 1], s[i]>>]

IsStep(F, base, A, S) == base \in A /\ F \in [A \X S -> A]

\* g is computed as a fold is, at least as long as it stays within A.
Follows(g, n, s, A, base, F) ==
  /\ g[0] = base
  /\ \A i \in 1..n : g[i - 1] \in A => g[i] = F[<<g[i - 1], s[i]>>]

LEMMA TraceExists ==
  ASSUME NEW S, NEW A, NEW base \in A, NEW F \in [A \X S -> A], NEW s \in Seq(S)
  PROVE  \E f : IsTrace(f, s, A, base, F)
<1> DEFINE T == {r \in Seq(S) : \E f : IsTrace(f, r, A, base, F)}
<1>1. <<>> \in T
  <2> DEFINE f == [i \in 0..0 |-> base]
  <2>1. f \in [0..0 -> A] /\ f[0] = base /\ Len(<<>>) = 0
    OBVIOUS
  <2> HIDE DEF f
  <2>2. f \in [0..Len(<<>>) -> A]
    BY <2>1
  <2>3. \A i \in 1..Len(<<>>) : FALSE
    BY <2>1
  <2>4. IsTrace(f, <<>>, A, base, F)
    BY <2>1, <2>2, <2>3 DEF IsTrace
  <2> QED
    BY <2>4
<1>2. ASSUME NEW r \in Seq(S), NEW e \in S, r \in T PROVE Append(r, e) \in T
  <2>1. PICK f : IsTrace(f, r, A, base, F)
    BY <1>2
  <2> DEFINE n == Len(r)
             v == F[<<f[n], e>>]
             g == [i \in 0..n + 1 |-> IF i = n + 1 THEN v ELSE f[i]]
             a == Append(r, e)
  <2>2. n \in Nat /\ f[n] \in A /\ v \in A
    <3>1. n \in Nat /\ n \in 0..Len(r)
      OBVIOUS
    <3>2. f[n] \in A
      BY <2>1, <3>1 DEF IsTrace
    <3> QED
      BY <3>1, <3>2
  <2>3. a \in Seq(S) /\ Len(a) = n + 1 /\ a[n + 1] = e /\ \A i \in 1..n : a[i] = r[i]
    OBVIOUS
  <2>4. g \in [0..Len(a) -> A] /\ g[0] = base
    <3> HIDE DEF v, a, n
    <3> QED
      BY <2>1, <2>2, <2>3 DEF IsTrace, n
  <2>5. ASSUME NEW i \in 1..Len(a) PROVE g[i] = F[<<g[i - 1], a[i]>>]
    <3>1. CASE i = n + 1
      <4>1. i - 1 = n /\ g[i - 1] = f[n] /\ g[i] = v /\ a[i] = e
        BY <2>2, <2>3, <3>1
      <4> QED
        BY <4>1
    <3>2. CASE i # n + 1
      <4>1. i \in 1..n /\ i - 1 \in 0..n
        BY <2>2, <2>3, <3>2
      <4>2. g[i] = f[i] /\ g[i - 1] = f[i - 1] /\ a[i] = r[i]
        BY <2>2, <2>3, <4>1
      <4> QED
        BY <2>1, <4>1, <4>2 DEF IsTrace
    <3> QED
      BY <3>1, <3>2
  <2>6. IsTrace(g, a, A, base, F)
    BY <2>4, <2>5 DEF IsTrace
  <2> QED
    BY <2>3, <2>6
<1>3. Seq(S) \subseteq T
  <2> HIDE DEF T
  <2> QED
    BY ONLY <1>1, <1>2, SequenceInduction
<1> QED
  BY <1>3

Agree(f, g, n) == f[n] = g[n]

LEMMA TraceUnique ==
  ASSUME NEW S, NEW A, NEW base, NEW F, IsStep(F, base, A, S), NEW s, NEW f, NEW n, NEW g,
         s \in Seq(S), IsTrace(f, s, A, base, F), n \in 0..Len(s), Follows(g, n, s, A, base, F)
  PROVE  Agree(f, g, n)
<1> DEFINE I == {i \in 0..n : g[i] = f[i]}
<1>0. n \in Nat /\ base \in A /\ F \in [A \X S -> A]
  BY DEF IsStep
<1>1. 0 \in I
  BY DEF IsTrace, Follows
<1>2. ASSUME NEW i \in 0..n - 1, i \in I PROVE i + 1 \in I
  <2>1. i \in 0..Len(s) /\ i + 1 \in 1..n /\ i + 1 \in 1..Len(s) /\ (i + 1) - 1 = i
    OBVIOUS
  <2>2. g[i] = f[i] /\ f[i] \in A
    BY <1>2, <2>1 DEF IsTrace
  <2>3. g[i + 1] = F[<<g[i], s[i + 1]>>]
    BY <2>1, <2>2 DEF Follows
  <2>4. f[i + 1] = F[<<f[i], s[i + 1]>>]
    BY <2>1 DEF IsTrace
  <2> QED
    BY <2>1, <2>2, <2>3, <2>4
<1>3. 0..n \subseteq I
  <2> HIDE DEF I
  <2> QED
    BY ONLY <1>0, <1>1, <1>2, InductionUpTo
<1> QED
  BY <1>3 DEF Agree

LEMMA FoldExists ==
  ASSUME NEW S, NEW A, NEW base \in A, NEW F \in [A \X S -> A]
  PROVE  \E H : IsFold(H, S, A, base, F)
<1> DEFINE trace(s) == CHOOSE f : IsTrace(f, s, A, base, F)
           H == [s \in Seq(S) |-> trace(s)[Len(s)]]
<1>1. ASSUME NEW s \in Seq(S) PROVE IsTrace(trace(s), s, A, base, F)
  BY TraceExists
<1> HIDE DEF trace
<1>2. ASSUME NEW s \in Seq(S) PROVE H[s] = trace(s)[Len(s)] /\ H[s] \in A
  BY <1>1 DEF IsTrace
<1>3. H[<<>>] = base
  <2>1. <<>> \in Seq(S) /\ Len(<<>>) = 0
    OBVIOUS
  <2> HIDE DEF H
  <2> QED
    BY <1>1, <1>2, <2>1 DEF IsTrace
<1>4. ASSUME NEW s \in Seq(S), NEW e \in S PROVE H[Append(s, e)] = F[<<H[s], e>>]
  <2> DEFINE a == Append(s, e)
             n == Len(s)
  <2>1. a \in Seq(S) /\ Len(a) = n + 1 /\ a[n + 1] = e /\ n \in Nat /\ n \in 0..n
          /\ \A i \in 1..n : a[i] = s[i]
    OBVIOUS
  <2> HIDE DEF a
  <2>2. IsTrace(trace(a), a, A, base, F)
    BY <1>1, <2>1
  <2>3. trace(a)[0] = base /\ trace(a)[n + 1] = F[<<trace(a)[n], e>>]
    <3>1. n + 1 \in 1..Len(a) /\ (n + 1) - 1 = n
      BY <2>1
    <3> QED
      BY <2>1, <2>2, <3>1 DEF IsTrace
  <2>4. \A i \in 1..n : trace(a)[i] = F[<<trace(a)[i - 1], s[i]>>]
    <3> TAKE i \in 1..n
    <3>1. i \in 1..Len(a) /\ a[i] = s[i]
      BY <2>1
    <3> QED
      BY <2>2, <3>1 DEF IsTrace
  <2>5. IsTrace(trace(s), s, A, base, F)
    BY <1>1
  <2>6. trace(a)[n] = trace(s)[n]
    <3>1. n \in 0..Len(s) /\ s \in Seq(S)
      BY <2>1
    <3>2. Follows(trace(a), n, s, A, base, F) /\ IsStep(F, base, A, S)
      BY <2>3, <2>4 DEF Follows, IsStep
    <3>3. Agree(trace(s), trace(a), n)
      <4> HIDE DEF n
      <4> QED
        BY ONLY <2>5, <3>1, <3>2, TraceUnique
    <3> QED
      BY <3>3 DEF Agree
  <2>7. H[a] = trace(a)[n + 1] /\ H[s] = trace(s)[n]
    BY <1>2, <2>1
  <2> QED
    BY <2>1, <2>3, <2>6, <2>7 DEF a
<1> HIDE DEF H
<1>5. H \in [Seq(S) -> A]
  BY <1>2 DEF H
<1> QED
  BY <1>3, <1>4, <1>5 DEF IsFold

\* A fold over the prefixes of a sequence is its trace.
LEMMA FoldTrace ==
  ASSUME NEW S, NEW A, NEW base, NEW F, IsStep(F, base, A, S), NEW H, IsFold(H, S, A, base, F),
         NEW s, s \in Seq(S)
  PROVE  IsTrace([i \in 0..Len(s) |-> H[SubSeq(s, 1, i)]], s, A, base, F)
<1> DEFINE prefix(i) == SubSeq(s, 1, i)
           f == [i \in 0..Len(s) |-> H[prefix(i)]]
<1>1. \A i \in 0..Len(s) : prefix(i) \in Seq(S)
  OBVIOUS
<1>2. prefix(0) = <<>> /\ 0 \in 0..Len(s)
  OBVIOUS
<1>3. \A i \in 1..Len(s) : /\ i \in 0..Len(s) /\ i - 1 \in 0..Len(s) /\ s[i] \in S
                          /\ prefix(i) = Append(prefix(i - 1), s[i])
  OBVIOUS
<1> HIDE DEF prefix
<1>4. f \in [0..Len(s) -> A]
  BY <1>1 DEF IsFold
<1>5. f[0] = base
  BY <1>2 DEF IsFold
<1>6. ASSUME NEW i \in 1..Len(s) PROVE f[i] = F[<<f[i - 1], s[i]>>]
  <2>1. f[i] = H[Append(prefix(i - 1), s[i])] /\ f[i - 1] = H[prefix(i - 1)]
    BY <1>3
  <2>2. prefix(i - 1) \in Seq(S) /\ s[i] \in S
    BY <1>1, <1>3
  <2> QED
    BY <2>1, <2>2 DEF IsFold
<1>7. IsTrace(f, s, A, base, F)
  <2> HIDE DEF f
  <2> QED
    BY <1>4, <1>5, <1>6 DEF IsTrace
<1> QED
  BY <1>7 DEF prefix

\* What a recursive function returns at the end of s is the fold of s.
Returns(g, H, s) == g[Len(s)] = H[s]

LEMMA FoldReturned ==
  ASSUME NEW S, NEW A, NEW base, NEW F, IsStep(F, base, A, S), NEW H, IsFold(H, S, A, base, F),
         NEW s, s \in Seq(S), NEW g, Follows(g, Len(s), s, A, base, F)
  PROVE  Returns(g, H, s)
<1> DEFINE f == [i \in 0..Len(s) |-> H[SubSeq(s, 1, i)]]
<1>1. IsTrace(f, s, A, base, F)
  BY FoldTrace
<1>2. Len(s) \in 0..Len(s) /\ SubSeq(s, 1, Len(s)) = s
  OBVIOUS
<1>3. f[Len(s)] = H[s]
  BY <1>2
<1> HIDE DEF f
<1>4. Agree(f, g, Len(s))
  BY <1>1, <1>2, TraceUnique
<1> QED
  BY <1>3, <1>4 DEF Agree, Returns
-----------------------------------------------------------------------------
(***************************************************************************)
(* Splitting a text at a separator and joining the pieces.                  *)
(***************************************************************************)
Texts(S, sep) == Seq(S \cup {sep})

NonEmptySeq(S) == Seq(S) \ {<<>>}

\* Pieces after one more byte.
Lengthened(pieces, b, sep) ==
  IF b = sep THEN Append(pieces, <<>>)
  ELSE Append(Front(pieces), Append(Last(pieces), b))

SplitStep(S, sep) ==
  [x \in NonEmptySeq(Seq(S)) \X (S \cup {sep}) |->
     IF x[2] = sep THEN Append(x[1], <<>>)
     ELSE Append(Front(x[1]), Append(Last(x[1]), x[2]))]

LEMMA SplitStepOK ==
  ASSUME NEW S, NEW sep
  PROVE  IsStep(SplitStep(S, sep), << <<>> >>, NonEmptySeq(Seq(S)), S \cup {sep})
<1> SUFFICES ASSUME NEW p \in NonEmptySeq(Seq(S)), NEW b \in S \cup {sep}
             PROVE  (IF b = sep THEN Append(p, <<>>) ELSE Append(Front(p), Append(Last(p), b)))
                      \in NonEmptySeq(Seq(S))
  <2>1. << <<>> >> \in NonEmptySeq(Seq(S))
    BY DEF NonEmptySeq
  <2> QED
    BY <2>1 DEF IsStep, SplitStep
<1>1. p \in Seq(Seq(S)) /\ p # <<>>
  BY DEF NonEmptySeq
<1>2. Front(p) \in Seq(Seq(S)) /\ Last(p) \in Seq(S)
  BY <1>1, FrontProperties DEF Last
<1>3. CASE b = sep
  BY <1>1, <1>3 DEF NonEmptySeq
<1>4. CASE b # sep
  <2>1. Append(Last(p), b) \in Seq(S)
    BY <1>2, <1>4
  <2>2. PICK f, l : f = Front(p) /\ l = Append(Last(p), b)
    OBVIOUS
  <2>3. Append(f, l) \in Seq(Seq(S)) /\ Append(f, l) # <<>>
    BY <1>2, <2>1, <2>2, AppendProperties
  <2> QED
    BY <1>4, <2>2, <2>3 DEF NonEmptySeq
<1> QED
  BY <1>3, <1>4

LEMMA SplitFolds ==
  ASSUME NEW S, NEW sep, NEW H,
         IsFold(H, S \cup {sep}, NonEmptySeq(Seq(S)), << <<>> >>, SplitStep(S, sep)),
         NEW s \in Texts(S, sep)
  PROVE  Split(s, sep) = H[s]
<1> DEFINE A == NonEmptySeq(Seq(S))
           B == S \cup {sep}
           F == SplitStep(S, sep)
           step(a, e) == IF e = sep THEN Append(a, <<>>)
                         ELSE Append(Front(a), Append(Last(a), e))
           Def(f) == [n \in 0..Len(s) |-> IF n = 0 THEN << <<>> >> ELSE step(f[n - 1], s[n])]
           g == CHOOSE f : f = Def(f)
<1>1. Split(s, sep) = g[Len(s)]
  BY DEF Split
<1>2. IsStep(F, << <<>> >>, A, B) /\ s \in Seq(B)
  BY SplitStepOK DEF Texts
<1>3. \A a \in A, e \in B : F[<<a, e>>] = step(a, e)
  BY DEF SplitStep
<1>4. Len(s) \in Nat /\ \A n \in 1..Len(s) : n \in 0..Len(s) /\ n # 0 /\ n - 1 \in 0..Len(s) /\ s[n] \in B
  BY <1>2
<1> HIDE DEF A, B, F, step, g
<1>5. PICK f : IsTrace(f, s, A, << <<>> >>, F)
  BY <1>2, TraceExists DEF IsStep
<1>6. f = Def(f)
  <2>1. f \in [0..Len(s) -> A] /\ f[0] = << <<>> >>
    BY <1>5 DEF IsTrace
  <2>2. \A n \in 1..Len(s) : f[n] = step(f[n - 1], s[n])
    BY <1>3, <1>4, <1>5, <2>1 DEF IsTrace
  <2>3. \A n \in 0..Len(s) : n = 0 \/ n \in 1..Len(s)
    OBVIOUS
  <2>4. \A n \in 0..Len(s) : f[n] = IF n = 0 THEN << <<>> >> ELSE step(f[n - 1], s[n])
    BY <2>1, <2>2, <2>3
  <2> QED
    BY <2>1, <2>4
<1>7. g = Def(g)
  BY <1>6 DEF g
<1>8. Follows(g, Len(s), s, A, << <<>> >>, F)
  <2>1. g[0] = << <<>> >>
    BY <1>7, <1>4
  <2>2. \A n \in 1..Len(s) : g[n] = step(g[n - 1], s[n])
    BY <1>7, <1>4
  <2> QED
    BY <1>3, <1>4, <2>1, <2>2 DEF Follows
<1>9. IsFold(H, B, A, << <<>> >>, F)
  BY DEF A, B, F
<1>10. Returns(g, H, s)
  BY <1>2, <1>8, <1>9, FoldReturned
<1> QED
  BY <1>1, <1>10 DEF Returns

LEMMA SplitProperties ==
  ASSUME NEW S, NEW sep
  PROVE  /\ Split(<<>>, sep) = << <<>> >>
         /\ \A s \in Texts(S, sep) :
              /\ Split(s, sep) \in Seq(Seq(S)) /\ Split(s, sep) # <<>>
              /\ Split(Append(s, sep), sep) = Append(Split(s, sep), <<>>)
              /\ \A b \in S \ {sep} : Split(Append(s, b), sep)
                   = Append(Front(Split(s, sep)), Append(Last(Split(s, sep)), b))
<1> DEFINE A == NonEmptySeq(Seq(S))
           B == S \cup {sep}
           F == SplitStep(S, sep)
<1>1. IsStep(F, << <<>> >>, A, B)
  BY SplitStepOK
<1>2. PICK H : IsFold(H, B, A, << <<>> >>, F)
  <2> HIDE DEF A, B, F
  <2> QED
    BY <1>1, FoldExists DEF IsStep
<1>3. \A s \in Seq(B) : Split(s, sep) = H[s]
  BY <1>2, SplitFolds DEF Texts
<1>4. <<>> \in Seq(B) /\ sep \in B /\ S \subseteq B
      /\ \A s \in Seq(B), e \in B : Append(s, e) \in Seq(B)
  OBVIOUS
<1>5. \A a \in A : /\ F[<<a, sep>>] = Append(a, <<>>)
                  /\ \A b \in S \ {sep} : F[<<a, b>>] = Append(Front(a), Append(Last(a), b))
  BY DEF SplitStep
<1>6. \A a \in A : a \in Seq(Seq(S)) /\ a # <<>>
  BY DEF NonEmptySeq
<1>7. Texts(S, sep) = Seq(B)
  BY DEF Texts
<1> HIDE DEF A, B, F
<1>8. Split(<<>>, sep) = << <<>> >>
  BY <1>2, <1>3, <1>4 DEF IsFold
<1>9. ASSUME NEW s \in Seq(B)
      PROVE  /\ Split(s, sep) \in A
             /\ \A e \in B : Split(Append(s, e), sep) = F[<<Split(s, sep), e>>]
  BY <1>2, <1>3, <1>4 DEF IsFold
<1>10. \A b \in S \ {sep} : b \in B
  BY <1>4
<1>11. ASSUME NEW s \in Texts(S, sep)
       PROVE  /\ Split(s, sep) \in Seq(Seq(S)) /\ Split(s, sep) # <<>>
              /\ Split(Append(s, sep), sep) = Append(Split(s, sep), <<>>)
              /\ \A b \in S \ {sep} : Split(Append(s, b), sep)
                   = Append(Front(Split(s, sep)), Append(Last(Split(s, sep)), b))
  <2>1. s \in Seq(B) /\ Split(s, sep) \in A
    BY <1>7, <1>9
  <2>2. Split(Append(s, sep), sep) = Append(Split(s, sep), <<>>)
    BY <1>4, <1>5, <1>9, <2>1
  <2>3. ASSUME NEW b \in S \ {sep}
        PROVE  Split(Append(s, b), sep) = Append(Front(Split(s, sep)), Append(Last(Split(s, sep)), b))
    BY <1>5, <1>9, <1>10, <2>1
  <2> QED
    BY <1>6, <2>1, <2>2, <2>3
<1> QED
  BY <1>8, <1>11

\* The front and the last element put a sequence together again.
LEMMA FrontAndLast ==
  ASSUME NEW S, NEW s \in Seq(S), s # <<>>
  PROVE  Front(s) \in Seq(S) /\ Last(s) \in S /\ s = Append(Front(s), Last(s))
<1>1. Front(s) \in Seq(S) /\ Len(Front(s)) = Len(s) - 1
        /\ \A i \in 1..Len(s) - 1 : Front(s)[i] = s[i]
  BY FrontProperties
<1>2. Len(s) \in Nat /\ Len(s) # 0 /\ Last(s) = s[Len(s)] /\ Last(s) \in S
  BY DEF Last
<1>3. PICK a : a = Append(Front(s), Last(s))
  OBVIOUS
<1>4. a \in Seq(S) /\ Len(a) = Len(s) /\ a[Len(s)] = Last(s)
        /\ \A i \in 1..Len(s) - 1 : a[i] = Front(s)[i]
  BY <1>1, <1>2, <1>3
<1>5. \A i \in 1..Len(s) : i = Len(s) \/ i \in 1..Len(s) - 1
  BY <1>2
<1>6. \A i \in 1..Len(s) : a[i] = s[i]
  BY <1>1, <1>2, <1>4, <1>5
<1>7. a = s
  BY <1>4, <1>6, SeqEqual
<1> QED
  BY <1>1, <1>2, <1>3, <1>7

LEMMA FrontAndLastOfAppend ==
  ASSUME NEW S, NEW s \in Seq(S), NEW e \in S
  PROVE  Front(Append(s, e)) = s /\ Last(Append(s, e)) = e
<1>1. PICK a : a = Append(s, e)
  OBVIOUS
<1>2. a \in Seq(S) /\ a # <<>> /\ Len(a) = Len(s) + 1 /\ a[Len(a)] = e
        /\ \A i \in 1..Len(s) : a[i] = s[i]
  BY <1>1, AppendProperties
<1>3. Last(a) = e
  BY <1>2 DEF Last
<1>4. Front(a) \in Seq(S) /\ Len(Front(a)) = Len(s) /\ \A i \in 1..Len(s) : Front(a)[i] = a[i]
  BY <1>2, FrontProperties
<1>5. Front(a) = s
  BY <1>2, <1>4, SeqEqual
<1> QED
  BY <1>1, <1>3, <1>5

LEMMA ConcatAppend ==
  ASSUME NEW S, NEW s \in Seq(S), NEW t \in Seq(S), NEW e \in S
  PROVE  s \o Append(t, e) = Append(s \o t, e)
<1>1. <<e>> \in Seq(S) /\ Append(t, e) = t \o <<e>> /\ s \o t \in Seq(S)
        /\ Append(s \o t, e) = (s \o t) \o <<e>>
  BY AppendIsConcat
<1> QED
  BY <1>1, ConcatAssociative

\* What appending does to the pieces of a text.
LEMMA SplitAppended ==
  ASSUME NEW S, NEW sep, NEW s \in Texts(S, sep), NEW b \in S \cup {sep}
  PROVE  Split(Append(s, b), sep) = Lengthened(Split(s, sep), b, sep)
BY SplitProperties DEF Lengthened

\* A text without a separator is one piece.
LEMMA SplitWhole ==
  ASSUME NEW S, NEW sep, sep \notin S, NEW s \in Seq(S)
  PROVE  Split(s, sep) = <<s>>
<1> DEFINE T == {t \in Seq(S) : Split(t, sep) = <<t>>}
<1>1. <<>> \in T
  BY SplitProperties
<1>2. ASSUME NEW t \in Seq(S), NEW b \in S, t \in T PROVE Append(t, b) \in T
  <2>1. t \in Texts(S, sep) /\ b \in S \cup {sep} /\ b # sep /\ Append(t, b) \in Seq(S)
    BY DEF Texts
  <2>2. Split(Append(t, b), sep) = Lengthened(<<t>>, b, sep)
    BY <1>2, <2>1, SplitAppended
  <2>3. Front(<<t>>) = <<>> /\ Last(<<t>>) = t
    BY DEF Front, Last
  <2>4. Append(<<>>, Append(t, b)) = <<Append(t, b)>>
    OBVIOUS
  <2> QED
    BY <2>1, <2>2, <2>3, <2>4 DEF Lengthened
<1>3. Seq(S) \subseteq T
  <2> HIDE DEF T
  <2> QED
    BY ONLY <1>1, <1>2, SequenceInduction
<1> QED
  BY <1>3

\* Earlier pieces do not matter for what is appended.
ExtendsTheRest(f, p, b, sep) == Lengthened(f \o p, b, sep) = f \o Lengthened(p, b, sep)

LEMMA LengthenedConcat ==
  ASSUME NEW S, NEW sep, NEW f \in Seq(Seq(S)), NEW p \in NonEmptySeq(Seq(S)), NEW b \in S \cup {sep}
  PROVE  ExtendsTheRest(f, p, b, sep)
<1> USE DEF ExtendsTheRest
<1>1. p \in Seq(Seq(S)) /\ p # <<>>
  BY DEF NonEmptySeq
<1>2. PICK g, l : g = Front(p) /\ l = Last(p)
  OBVIOUS
<1>3. g \in Seq(Seq(S)) /\ l \in Seq(S) /\ p = Append(g, l)
  BY <1>1, <1>2, FrontAndLast
<1>4. PICK A : A = Seq(S)
  OBVIOUS
<1>5. f \in Seq(A) /\ p \in Seq(A) /\ g \in Seq(A) /\ l \in A /\ <<>> \in A /\ f \o g \in Seq(A)
  BY <1>1, <1>3, <1>4
<1>6. CASE b = sep
  <2>1. f \o Append(p, <<>>) = Append(f \o p, <<>>)
    BY ONLY <1>5, ConcatAppend
  <2> QED
    BY <1>6, <2>1 DEF Lengthened
<1>7. CASE b # sep
  <2>1. PICK e : e = Append(l, b)
    OBVIOUS
  <2>2. e \in A
    BY <1>4, <1>5, <1>7, <2>1
  <2>3. f \o p = Append(f \o g, l)
    BY ONLY <1>3, <1>5, ConcatAppend
  <2>4. Front(f \o p) = f \o g /\ Last(f \o p) = l
    <3>1. Front(Append(f \o g, l)) = f \o g /\ Last(Append(f \o g, l)) = l
      <4>1. PICK h : h = f \o g
        OBVIOUS
      <4>2. h \in Seq(A) /\ l \in A
        BY <1>5, <4>1
      <4>3. Front(Append(h, l)) = h /\ Last(Append(h, l)) = l
        BY ONLY <4>2, FrontAndLastOfAppend
      <4> QED
        BY <4>1, <4>3
    <3> QED
      BY ONLY <2>3, <3>1
  <2>5. f \o Append(g, e) = Append(f \o g, e)
    BY ONLY <1>5, <2>2, ConcatAppend
  <2> QED
    BY <1>2, <1>7, <2>1, <2>4, <2>5 DEF Lengthened
<1> QED
  BY <1>6, <1>7

\* Splitting goes on where it stopped: the last piece of a text is all that what
\* follows it needs.
LEMMA SplitConcat ==
  ASSUME NEW S, NEW sep, sep \notin S, NEW s \in Texts(S, sep), NEW t \in Texts(S, sep)
  PROVE  Split(s \o t, sep) = Front(Split(s, sep)) \o Split(Last(Split(s, sep)) \o t, sep)
<1> DEFINE front == Front(Split(s, sep))
           last == Last(Split(s, sep))
           T == {u \in Texts(S, sep) : Split(s \o u, sep) = front \o Split(last \o u, sep)}
<1>1. front \in Seq(Seq(S)) /\ last \in Seq(S) /\ Split(s, sep) = Append(front, last)
  BY SplitProperties, FrontAndLast
<1>2. last \in Texts(S, sep) /\ \A u \in Texts(S, sep) : s \o u \in Texts(S, sep) /\ last \o u \in Texts(S, sep)
  BY <1>1 DEF Texts
<1> HIDE DEF front, last
<1>3. <<>> \in T
  <2>1. s \o <<>> = s /\ last \o <<>> = last /\ <<>> \in Texts(S, sep)
    BY <1>1 DEF Texts
  <2>2. Split(last, sep) = <<last>>
    BY <1>1, SplitWhole
  <2>3. Append(front, last) = front \o <<last>>
    BY <1>1
  <2> QED
    BY <1>1, <2>1, <2>2, <2>3
<1>4. ASSUME NEW u \in Texts(S, sep), NEW b \in S \cup {sep}, u \in T PROVE Append(u, b) \in T
  <2>1. PICK p : p = Split(last \o u, sep)
    OBVIOUS
  <2>2. p \in NonEmptySeq(Seq(S)) /\ Split(s \o u, sep) = front \o p
    BY <1>2, <1>4, <2>1, SplitProperties DEF NonEmptySeq
  <2>3. Append(u, b) \in Texts(S, sep) /\ s \o Append(u, b) = Append(s \o u, b)
          /\ last \o Append(u, b) = Append(last \o u, b)
    <3>1. u \in Seq(S \cup {sep}) /\ s \in Seq(S \cup {sep}) /\ last \in Seq(S \cup {sep})
      BY <1>2 DEF Texts
    <3> QED
      BY <3>1, ConcatAppend DEF Texts
  <2>4. Split(Append(last \o u, b), sep) = Lengthened(p, b, sep)
    BY <1>2, <2>1, SplitAppended
  <2>5. Split(Append(s \o u, b), sep) = Lengthened(front \o p, b, sep)
    BY <1>2, <2>2, SplitAppended
  <2>6. Lengthened(front \o p, b, sep) = front \o Lengthened(p, b, sep)
    <3>1. front \in Seq(Seq(S)) /\ p \in NonEmptySeq(Seq(S)) /\ b \in S \cup {sep}
      BY <1>1, <2>2
    <3>2. ExtendsTheRest(front, p, b, sep)
      BY ONLY <3>1, LengthenedConcat
    <3> QED
      BY <3>2 DEF ExtendsTheRest
  <2> QED
    BY <2>3, <2>4, <2>5, <2>6
<1>5. Texts(S, sep) \subseteq T
  <2>1. Texts(S, sep) = Seq(S \cup {sep})
    BY DEF Texts
  <2> HIDE DEF T
  <2> QED
    BY ONLY <1>3, <1>4, <2>1, SequenceInduction
<1>6. t \in T
  BY <1>5
<1> QED
  BY <1>6 DEF front, last

JoinStep(S, sep) == [x \in Seq(S \cup {sep}) \X Seq(S) |-> x[1] \o x[2] \o <<sep>>]

LEMMA JoinStepOK ==
  ASSUME NEW S, NEW sep
  PROVE  IsStep(JoinStep(S, sep), <<>>, Texts(S, sep), Seq(S))
<1> SUFFICES ASSUME NEW p \in Seq(S \cup {sep}), NEW l \in Seq(S)
             PROVE  p \o l \o <<sep>> \in Seq(S \cup {sep})
  <2>1. <<>> \in Seq(S \cup {sep})
    OBVIOUS
  <2> QED
    BY <2>1 DEF IsStep, JoinStep, Texts
<1>1. l \in Seq(S \cup {sep}) /\ <<sep>> \in Seq(S \cup {sep})
  BY SeqMonotonic
<1> QED
  BY <1>1

LEMMA JoinedFolds ==
  ASSUME NEW S, NEW sep, NEW H, IsFold(H, Seq(S), Texts(S, sep), <<>>, JoinStep(S, sep)),
         NEW s \in Seq(Seq(S))
  PROVE  Joined(s, sep) = H[s]
<1> DEFINE A == Texts(S, sep)
           B == Seq(S)
           F == JoinStep(S, sep)
           step(a, e) == a \o e \o <<sep>>
           Def(f) == [n \in 0..Len(s) |-> IF n = 0 THEN <<>> ELSE f[n - 1] \o s[n] \o <<sep>>]
           g == CHOOSE f : f = Def(f)
<1>1. Joined(s, sep) = g[Len(s)]
  BY DEF Joined
<1>2. IsStep(F, <<>>, A, B) /\ s \in Seq(B)
  BY JoinStepOK
<1>3. \A a \in A, e \in B : F[<<a, e>>] = step(a, e)
  BY DEF JoinStep, Texts
<1>4. Len(s) \in Nat /\ \A n \in 1..Len(s) : n \in 0..Len(s) /\ n # 0 /\ n - 1 \in 0..Len(s) /\ s[n] \in B
  BY <1>2
<1>0. \A f : Def(f) = [n \in 0..Len(s) |-> IF n = 0 THEN <<>> ELSE step(f[n - 1], s[n])]
  OBVIOUS
<1> HIDE DEF A, B, F, g
<1>5. PICK f : IsTrace(f, s, A, <<>>, F)
  BY <1>2, TraceExists DEF IsStep
<1> HIDE DEF step, Def
<1>6. f = Def(f)
  <2>1. f \in [0..Len(s) -> A] /\ f[0] = <<>>
    BY <1>5 DEF IsTrace
  <2>2. \A n \in 1..Len(s) : f[n] = step(f[n - 1], s[n])
    BY <1>3, <1>4, <1>5, <2>1 DEF IsTrace
  <2>3. \A n \in 0..Len(s) : n = 0 \/ n \in 1..Len(s)
    OBVIOUS
  <2>4. \A n \in 0..Len(s) : f[n] = IF n = 0 THEN <<>> ELSE step(f[n - 1], s[n])
    BY <2>1, <2>2, <2>3
  <2> QED
    BY <1>0, <2>1, <2>4
<1>7. g = Def(g)
  BY <1>6 DEF g
<1>8. Follows(g, Len(s), s, A, <<>>, F)
  <2>1. g[0] = <<>>
    BY <1>0, <1>7, <1>4
  <2>2. \A n \in 1..Len(s) : g[n] = step(g[n - 1], s[n])
    BY <1>0, <1>7, <1>4
  <2> QED
    BY <1>3, <1>4, <2>1, <2>2 DEF Follows
<1>9. IsFold(H, B, A, <<>>, F)
  BY DEF A, B, F
<1>10. Returns(g, H, s)
  BY <1>2, <1>8, <1>9, FoldReturned
<1> QED
  BY <1>1, <1>10 DEF Returns

LEMMA JoinedProperties ==
  ASSUME NEW S, NEW sep
  PROVE  /\ Joined(<<>>, sep) = <<>>
         /\ \A s \in Seq(Seq(S)) :
              /\ Joined(s, sep) \in Texts(S, sep)
              /\ \A l \in Seq(S) : Joined(Append(s, l), sep) = Joined(s, sep) \o l \o <<sep>>
<1> DEFINE A == Texts(S, sep)
           B == Seq(S)
           F == JoinStep(S, sep)
<1>1. IsStep(F, <<>>, A, B)
  BY JoinStepOK
<1>2. PICK H : IsFold(H, B, A, <<>>, F)
  <2> HIDE DEF A, B, F
  <2> QED
    BY <1>1, FoldExists DEF IsStep
<1>3. \A s \in Seq(B) : Joined(s, sep) = H[s]
  BY <1>2, JoinedFolds
<1>4. <<>> \in Seq(B) /\ \A s \in Seq(B), e \in B : Append(s, e) \in Seq(B)
  OBVIOUS
<1>5. \A a \in A, e \in B : F[<<a, e>>] = a \o e \o <<sep>>
  BY DEF JoinStep, Texts
<1> HIDE DEF A, B, F
<1>6. Joined(<<>>, sep) = <<>>
  BY <1>2, <1>3, <1>4 DEF IsFold
<1>7. \A s \in Seq(B) : Joined(s, sep) \in A
  BY <1>2, <1>3 DEF IsFold
<1>8. ASSUME NEW s \in Seq(B), NEW e \in B PROVE Joined(Append(s, e), sep) = Joined(s, sep) \o e \o <<sep>>
  <2>1. H[Append(s, e)] = F[<<H[s], e>>] /\ H[s] \in A
    BY <1>2 DEF IsFold
  <2>2. Joined(Append(s, e), sep) = H[Append(s, e)] /\ Joined(s, sep) = H[s]
    BY <1>3, <1>4
  <2> QED
    BY <1>5, <2>1, <2>2
<1> QED
  BY <1>6, <1>7, <1>8 DEF A, B

\* The empty text is one empty piece; no lines are no text.
LEMMA EmptyText ==
  ASSUME NEW sep
  PROVE  Split(<<>>, sep) = << <<>> >> /\ Joined(<<>>, sep) = <<>>
BY SplitProperties, JoinedProperties

\* A text is its finished lines and the rest after the last separator.
LEMMA SplitTyped ==
  ASSUME NEW S, NEW sep, NEW s \in Texts(S, sep)
  PROVE  /\ Split(s, sep) \in Seq(Seq(S)) /\ Split(s, sep) # <<>>
         /\ Front(Split(s, sep)) \in Seq(Seq(S)) /\ Last(Split(s, sep)) \in Seq(S)
         /\ Split(s, sep) = Append(Front(Split(s, sep)), Last(Split(s, sep)))
<1>1. Split(s, sep) \in Seq(Seq(S)) /\ Split(s, sep) # <<>>
  BY SplitProperties
<1> QED
  BY <1>1, FrontAndLast

LEMMA JoinedTyped ==
  ASSUME NEW S, NEW sep, NEW lines \in Seq(Seq(S))
  PROVE  Joined(lines, sep) \in Texts(S, sep)
BY JoinedProperties

LEMMA JoinedAppend ==
  ASSUME NEW S, NEW sep, NEW lines \in Seq(Seq(S)), NEW l \in Seq(S)
  PROVE  Joined(Append(lines, l), sep) = Joined(lines, sep) \o l \o <<sep>>
BY JoinedProperties

\* Splitting loses nothing: the finished lines, each with its separator, and the
\* rest make up the text.
LEMMA SplitKeepsText ==
  ASSUME NEW S, NEW sep, NEW s \in Texts(S, sep)
  PROVE  Joined(Front(Split(s, sep)), sep) \o Last(Split(s, sep)) = s
<1> DEFINE text(p) == Joined(Front(p), sep) \o Last(p)
           T == {t \in Texts(S, sep) : text(Split(t, sep)) = t}
<1>1. <<>> \in T
  <2>1. Split(<<>>, sep) = << <<>> >> /\ <<>> \in Texts(S, sep) /\ Joined(<<>>, sep) = <<>>
    BY EmptyText DEF Texts
  <2>2. Front(<< <<>> >>) = <<>> /\ Last(<< <<>> >>) = <<>> /\ <<>> \o <<>> = <<>>
    BY DEF Front, Last
  <2> QED
    BY <2>1, <2>2
<1>2. ASSUME NEW t \in Texts(S, sep), NEW b \in S \cup {sep}, t \in T PROVE Append(t, b) \in T
  <2>1. PICK p, g, l : p = Split(t, sep) /\ g = Front(p) /\ l = Last(p)
    OBVIOUS
  <2>2. PICK A : A = Seq(S)
    OBVIOUS
  <2>3. p \in Seq(A) /\ g \in Seq(A) /\ l \in A /\ p = Append(g, l) /\ <<>> \in A
    BY <2>1, <2>2, SplitTyped
  <2>4. PICK j : j = Joined(g, sep)
    OBVIOUS
  <2>5. j \in Seq(S \cup {sep}) /\ l \in Seq(S \cup {sep}) /\ j \o l = t
    <3>1. g \in Seq(Seq(S)) /\ l \in Seq(S)
      BY <2>2, <2>3
    <3>2. j \in Seq(S \cup {sep})
      BY <2>4, <3>1, JoinedTyped DEF Texts
    <3>3. l \in Seq(S \cup {sep})
      BY <3>1, SeqMonotonic
    <3> QED
      BY <1>2, <2>1, <2>4, <3>2, <3>3
  <2>6. Append(t, b) \in Texts(S, sep) /\ Split(Append(t, b), sep) = Lengthened(p, b, sep)
    BY <2>1, SplitAppended DEF Texts
  <2>7. CASE b = sep
    <3>1. Lengthened(p, b, sep) = Append(p, <<>>)
      BY <2>7 DEF Lengthened
    <3>2. Front(Append(p, <<>>)) = p /\ Last(Append(p, <<>>)) = <<>>
      BY ONLY <2>3, FrontAndLastOfAppend
    <3>3. Joined(p, sep) = j \o l \o <<sep>>
      <4>1. g \in Seq(Seq(S)) /\ l \in Seq(S)
        BY <2>2, <2>3
      <4>2. Joined(Append(g, l), sep) = Joined(g, sep) \o l \o <<sep>>
        BY ONLY <4>1, JoinedAppend
      <4> QED
        BY <2>3, <2>4, <4>2
    <3>4. text(Append(p, <<>>)) = (t \o <<sep>>) \o <<>>
      BY <2>5, <3>2, <3>3
    <3>5. (t \o <<sep>>) \o <<>> = Append(t, b)
      BY <2>7 DEF Texts
    <3> HIDE DEF text
    <3> QED
      BY <2>6, <3>1, <3>4, <3>5
  <2>8. CASE b # sep
    <3>1. PICK e : e = Append(l, b)
      OBVIOUS
    <3>2. e \in A /\ l \in A
      BY <2>2, <2>3, <2>8, <3>1
    <3>3. Lengthened(p, b, sep) = Append(g, e)
      BY <2>1, <2>8, <3>1 DEF Lengthened
    <3>4. Front(Append(g, e)) = g /\ Last(Append(g, e)) = e
      BY ONLY <2>3, <3>2, FrontAndLastOfAppend
    <3>5. text(Append(g, e)) = j \o e
      BY <2>4, <3>4
    <3>6. j \o e = Append(j \o l, b)
      <4>1. PICK B : B = S \cup {sep}
        OBVIOUS
      <4>2. j \in Seq(B) /\ l \in Seq(B) /\ b \in B
        BY <2>5, <4>1
      <4>3. j \o Append(l, b) = Append(j \o l, b)
        BY ONLY <4>2, ConcatAppend
      <4> QED
        BY <3>1, <4>3
    <3> HIDE DEF text
    <3> QED
      BY <2>5, <2>6, <3>3, <3>5, <3>6
  <2> QED
    BY <2>7, <2>8
<1>3. Texts(S, sep) \subseteq T
  <2>1. Texts(S, sep) = Seq(S \cup {sep})
    BY DEF Texts
  <2> HIDE DEF T
  <2> QED
    BY ONLY <1>1, <1>2, <2>1, SequenceInduction
<1> QED
  BY <1>3

Regroups(a, b, c, d) == (a \o b) \o c \o d = a \o (b \o c \o d)

LEMMA Regrouped ==
  ASSUME NEW S, NEW a \in Seq(S), NEW b \in Seq(S), NEW c \in Seq(S), NEW d \in Seq(S)
  PROVE  Regroups(a, b, c, d)
<1>1. PICK m : m = b \o c
  OBVIOUS
<1>2. m \in Seq(S)
  BY <1>1, ConcatProperties
<1>3. (a \o b) \o c = a \o m
  BY <1>1, ConcatAssociative
<1>4. (a \o m) \o d = a \o (m \o d)
  BY <1>2, ConcatAssociative
<1> QED
  BY <1>1, <1>3, <1>4 DEF Regroups

Associates(a, b, c) == (a \o b) \o c = a \o (b \o c)

LEMMA Associative ==
  ASSUME NEW S, NEW a \in Seq(S), NEW b \in Seq(S), NEW c \in Seq(S)
  PROVE  Associates(a, b, c)
BY ConcatAssociative DEF Associates

\* Text that was poured from two places into two others, after all that went before.
Pours(a, b, c, d, e) == (a \o b) \o c = (a \o d) \o e

LEMMA Poured ==
  ASSUME NEW S, NEW a \in Seq(S), NEW b \in Seq(S), NEW c \in Seq(S), NEW d \in Seq(S),
         NEW e \in Seq(S), b \o c = d \o e
  PROVE  Pours(a, b, c, d, e)
<1>1. Associates(a, b, c) /\ Associates(a, d, e)
  BY Associative
<1>2. PICK f : f = b \o c /\ f = d \o e
  OBVIOUS
<1>3. (a \o b) \o c = a \o f /\ (a \o d) \o e = a \o f
  BY <1>1, <1>2 DEF Associates
<1> QED
  BY <1>3 DEF Pours

\* A list of lines joined is its parts joined.
LEMMA JoinedConcat ==
  ASSUME NEW S, NEW sep, NEW f \in Seq(Seq(S)), NEW g \in Seq(Seq(S))
  PROVE  Joined(f \o g, sep) = Joined(f, sep) \o Joined(g, sep)
<1> DEFINE T == {h \in Seq(Seq(S)) : Joined(f \o h, sep) = Joined(f, sep) \o Joined(h, sep)}
<1>1. PICK A, B : A = Seq(S) /\ B = S \cup {sep}
  OBVIOUS
<1>2. /\ Joined(<<>>, sep) = <<>> /\ \A h \in Seq(A) : Joined(h, sep) \in Seq(B)
      /\ f \in Seq(A) /\ <<sep>> \in Seq(B)
  <2>1. sep \in B
    BY <1>1
  <2>2. Joined(<<>>, sep) = <<>> /\ \A h \in Seq(A) : Joined(h, sep) \in Texts(S, sep)
    BY <1>1, JoinedProperties
  <2> QED
    BY <1>1, <2>1, <2>2 DEF Texts
<1>3. \A l \in A : l \in Seq(B)
  BY <1>1, SeqMonotonic
<1>4. \A h \in Seq(A), l \in A : Joined(Append(h, l), sep) = Joined(h, sep) \o l \o <<sep>>
  BY <1>1, JoinedProperties
<1>5. <<>> \in T
  <2>1. f \o <<>> = f /\ <<>> \in Seq(Seq(S))
    OBVIOUS
  <2>2. Joined(f, sep) \o <<>> = Joined(f, sep)
    BY <1>2, ConcatEmptySeq
  <2> QED
    BY <1>2, <2>1, <2>2
<1>6. ASSUME NEW h \in Seq(Seq(S)), NEW l \in Seq(S), h \in T PROVE Append(h, l) \in T
  <2>1. PICK fh, c, d : fh = f \o h /\ c = Joined(f, sep) /\ d = Joined(h, sep)
    OBVIOUS
  <2>2. h \in Seq(A) /\ l \in A /\ Joined(fh, sep) = c \o d
    BY <1>1, <1>6, <2>1
  <2>3. fh \in Seq(A) /\ f \o Append(h, l) = Append(fh, l)
    BY ONLY <1>2, <2>1, <2>2, ConcatAppend, ConcatProperties
  <2>4. c \in Seq(B) /\ d \in Seq(B) /\ l \in Seq(B)
    BY <1>2, <1>3, <2>1, <2>2
  <2>5. (c \o d) \o l \o <<sep>> = c \o (d \o l \o <<sep>>)
    <3>1. PICK e : e = <<sep>>
      OBVIOUS
    <3>2. e \in Seq(B)
      BY <1>2, <3>1
    <3>3. Regroups(c, d, l, e)
      BY ONLY <2>4, <3>2, Regrouped
    <3> QED
      BY <3>1, <3>3 DEF Regroups
  <2>6. Joined(Append(fh, l), sep) = c \o Joined(Append(h, l), sep)
    BY <1>4, <2>1, <2>2, <2>3, <2>5
  <2>7. Append(h, l) \in Seq(Seq(S))
    BY AppendProperties
  <2> QED
    BY <2>1, <2>3, <2>6, <2>7
<1>7. Seq(Seq(S)) \subseteq T
  <2> HIDE DEF T
  <2> QED
    BY ONLY <1>5, <1>6, SequenceInduction
<1> QED
  BY <1>7

\* The last byte of a text made of whole lines is a separator.
LEMMA JoinedEnds ==
  ASSUME NEW S, NEW sep, NEW ls \in Seq(Seq(S)), Joined(ls, sep) # <<>>
  PROVE  Last(Joined(ls, sep)) = sep
<1>1. PICK A, B : A = Seq(S) /\ B = S \cup {sep}
  OBVIOUS
<1>2. ls # <<>>
  BY EmptyText
<1>3. PICK front, last : front \in Seq(A) /\ last \in A /\ ls = Append(front, last)
  BY <1>1, <1>2, FrontAndLast
<1>4. Joined(ls, sep) = Joined(front, sep) \o last \o <<sep>>
  BY <1>1, <1>3, JoinedAppend
<1>5. PICK r : r = Joined(front, sep) \o last
  OBVIOUS
<1>6. Joined(front, sep) \in Seq(B) /\ last \in Seq(B)
  BY <1>1, <1>3, JoinedTyped, SeqMonotonic DEF Texts
<1>7. r \in Seq(B) /\ sep \in B
  BY <1>1, <1>5, <1>6
<1>8. r \o <<sep>> = Append(r, sep)
  BY <1>7
<1>9. Last(Append(r, sep)) = sep
  BY <1>7, FrontAndLastOfAppend
<1> QED
  BY <1>4, <1>5, <1>8, <1>9

\* What is left after the last separator ends as the text does.
LEMMA HeldEnds ==
  ASSUME NEW S, NEW sep, sep \notin S, NEW j \in Texts(S, sep), NEW l \in Seq(S), l # <<>>
  PROVE  j \o l # <<>> /\ Last(j \o l) # sep
<1>1. PICK front, last : front \in Seq(S) /\ last \in S /\ l = Append(front, last)
  BY FrontAndLast
<1>2. PICK B : B = S \cup {sep}
  OBVIOUS
<1>3. j \in Seq(B) /\ front \in Seq(B) /\ last \in B /\ last # sep
  BY <1>1, <1>2, SeqMonotonic DEF Texts
<1>4. j \o Append(front, last) = Append(j \o front, last)
  BY <1>3, ConcatAppend
<1>5. PICK r : r = j \o front
  OBVIOUS
<1>6. r \in Seq(B)
  BY <1>3, <1>5
<1>7. Append(r, last) # <<>>
  BY <1>3, <1>6, AppendProperties
<1>8. Last(Append(r, last)) = last
  BY <1>3, <1>6, FrontAndLastOfAppend
<1> QED
  BY <1>1, <1>3, <1>4, <1>5, <1>7, <1>8
-----------------------------------------------------------------------------
(***************************************************************************)
(* Concatenating a list of texts.                                           *)
(***************************************************************************)
FlattenStep(S) == [x \in Seq(S) \X Seq(S) |-> x[1] \o x[2]]

LEMMA FlattenFolds ==
  ASSUME NEW S, NEW H, IsFold(H, Seq(S), Seq(S), <<>>, FlattenStep(S)), NEW s \in Seq(Seq(S))
  PROVE  FlattenSeq(s) = H[s]
<1> DEFINE A == Seq(S)
           F == FlattenStep(S)
           Def(f) == [i \in 1..Len(s) |-> IF i = 1 THEN s[i] ELSE f[i - 1] \o s[i]]
           g == CHOOSE f : f = Def(f)
           h == [i \in 0..Len(s) |-> IF i = 0 THEN <<>> ELSE g[i]]
<1>1. FlattenSeq(s) = IF Len(s) = 0 THEN s ELSE g[Len(s)]
  BY DEF FlattenSeq
<1>2. IsStep(F, <<>>, A, A) /\ s \in Seq(A)
  <2>1. \A a, b \in Seq(S) : a \o b \in Seq(S)
    OBVIOUS
  <2>2. <<>> \in Seq(S)
    OBVIOUS
  <2> QED
    BY <2>1, <2>2 DEF IsStep, FlattenStep
<1>3. \A a, e \in A : F[<<a, e>>] = a \o e
  BY DEF FlattenStep
<1>4. Len(s) \in Nat /\ \A n \in 1..Len(s) : n \in 0..Len(s) /\ n # 0 /\ n - 1 \in 0..Len(s) /\ s[n] \in A
  BY <1>2
<1>5. \A e \in A : <<>> \o e = e
  OBVIOUS
<1> HIDE DEF A, F, g
<1>6. PICK f : IsTrace(f, s, A, <<>>, F)
  BY <1>2, TraceExists DEF IsStep
<1>7. f \in [0..Len(s) -> A] /\ f[0] = <<>> /\ \A n \in 1..Len(s) : f[n] = f[n - 1] \o s[n]
  BY <1>3, <1>4, <1>6 DEF IsTrace
<1>8. g = Def(g)
  <2> DEFINE k == [i \in 1..Len(s) |-> f[i]]
  <2>1. ASSUME NEW n \in 1..Len(s) PROVE f[n] = IF n = 1 THEN s[n] ELSE k[n - 1] \o s[n]
    <3>1. f[n] = f[n - 1] \o s[n]
      BY <1>7
    <3>2. CASE n = 1
      BY <1>4, <1>5, <1>7, <3>1, <3>2
    <3>3. CASE n # 1
      <4>1. n - 1 \in 1..Len(s)
        BY <1>4, <3>3
      <4> QED
        BY <3>1, <3>3, <4>1
    <3> QED
      BY <3>2, <3>3
  <2>2. k = Def(k)
    BY <2>1
  <2> QED
    BY <2>2 DEF g
<1>9. Follows(h, Len(s), s, A, <<>>, F)
  <2>1. h[0] = <<>>
    BY <1>4
  <2>2. ASSUME NEW n \in 1..Len(s), h[n - 1] \in A PROVE h[n] = F[<<h[n - 1], s[n]>>]
    <3>1. h[n] = g[n] /\ g[n] = IF n = 1 THEN s[n] ELSE g[n - 1] \o s[n]
      BY <1>4, <1>8
    <3>2. F[<<h[n - 1], s[n]>>] = h[n - 1] \o s[n]
      BY <1>3, <1>4, <2>2
    <3>3. CASE n = 1
      BY <1>4, <1>5, <3>1, <3>2, <3>3
    <3>4. CASE n # 1
      <4>1. h[n - 1] = g[n - 1]
        BY <1>4, <3>4
      <4> QED
        BY <3>1, <3>2, <3>4, <4>1
    <3> QED
      BY <3>3, <3>4
  <2> HIDE DEF h
  <2> QED
    BY <2>1, <2>2 DEF Follows
<1>10. IsFold(H, A, A, <<>>, F)
  BY DEF A, F
<1>11. Returns(h, H, s)
  <2> HIDE DEF h
  <2> QED
    BY <1>2, <1>9, <1>10, FoldReturned
<1>12. h[Len(s)] = H[s] /\ h[Len(s)] = IF Len(s) = 0 THEN <<>> ELSE g[Len(s)]
  BY <1>4, <1>11 DEF Returns
<1>13. Len(s) = 0 => s = <<>>
  BY <1>2
<1> QED
  BY <1>1, <1>12, <1>13

LEMMA FlattenProperties ==
  ASSUME NEW S
  PROVE  /\ FlattenSeq(<<>>) = <<>>
         /\ \A s \in Seq(Seq(S)) :
              /\ FlattenSeq(s) \in Seq(S)
              /\ \A e \in Seq(S) : FlattenSeq(Append(s, e)) = FlattenSeq(s) \o e
<1> DEFINE A == Seq(S)
           F == FlattenStep(S)
<1>1. IsStep(F, <<>>, A, A)
  <2>1. \A a, b \in Seq(S) : a \o b \in Seq(S)
    OBVIOUS
  <2>2. <<>> \in Seq(S)
    OBVIOUS
  <2> QED
    BY <2>1, <2>2 DEF IsStep, FlattenStep
<1>2. PICK H : IsFold(H, A, A, <<>>, F)
  <2> HIDE DEF A, F
  <2> QED
    BY <1>1, FoldExists DEF IsStep
<1>3. \A s \in Seq(A) : FlattenSeq(s) = H[s]
  BY <1>2, FlattenFolds
<1>4. <<>> \in Seq(A) /\ \A s \in Seq(A), e \in A : Append(s, e) \in Seq(A)
  OBVIOUS
<1>5. \A a, e \in A : F[<<a, e>>] = a \o e
  BY DEF FlattenStep
<1> HIDE DEF A, F
<1>6. FlattenSeq(<<>>) = <<>>
  BY <1>2, <1>3, <1>4 DEF IsFold
<1>7. \A s \in Seq(A) : FlattenSeq(s) \in A
  BY <1>2, <1>3 DEF IsFold
<1>8. ASSUME NEW s \in Seq(A), NEW e \in A PROVE FlattenSeq(Append(s, e)) = FlattenSeq(s) \o e
  <2>1. H[Append(s, e)] = F[<<H[s], e>>] /\ H[s] \in A
    BY <1>2 DEF IsFold
  <2>2. FlattenSeq(Append(s, e)) = H[Append(s, e)] /\ FlattenSeq(s) = H[s]
    BY <1>3, <1>4
  <2> QED
    BY <1>5, <2>1, <2>2
<1> QED
  BY <1>6, <1>7, <1>8 DEF A

\* Where the elements of a concatenation come from.
LEMMA ConcatAt ==
  ASSUME NEW S, NEW s \in Seq(S), NEW t \in Seq(S)
  PROVE  /\ s \o t \in Seq(S) /\ Len(s \o t) = Len(s) + Len(t)
         /\ Len(s) \in Nat /\ Len(t) \in Nat
         /\ \A i \in 1..Len(s) : (s \o t)[i] = s[i]
         /\ \A i \in 1..Len(s \o t) : i > Len(s) => (s \o t)[i] = t[i - Len(s)]
OBVIOUS

\* One more element in one of the texts.
GrownAt(s, k, r, e) ==
  /\ k \in 1..Len(s) /\ Len(r) = Len(s) /\ r[k] = Append(s[k], e)
  /\ \A i \in 1..Len(s) : i # k => r[i] = s[i]

LongerByOne(s, r) == Len(FlattenSeq(r)) = Len(FlattenSeq(s)) + 1

LEMMA LengthsAdd ==
  ASSUME NEW S, NEW u \in Seq(S), NEW v \in Seq(S)
  PROVE  Len(u \o v) = Len(u) + Len(v) /\ Len(u) \in Nat /\ Len(v) \in Nat
OBVIOUS

LEMMA FlattenGrown ==
  ASSUME NEW S, NEW s \in Seq(Seq(S)), NEW r \in Seq(Seq(S)), NEW k, NEW e \in S, GrownAt(s, k, r, e)
  PROVE  LongerByOne(s, r)
<1> DEFINE A == Seq(S)
           T == {u \in Seq(A) : \A v \in Seq(A) : (\E i : GrownAt(u, i, v, e)) => LongerByOne(u, v)}
<1>1. <<>> \in T
  BY DEF GrownAt
<1>2. ASSUME NEW u \in Seq(A), NEW t \in A, u \in T PROVE Append(u, t) \in T
  <2>1. PICK a : a = Append(u, t)
    OBVIOUS
  <2>2. /\ a \in Seq(A) /\ Len(a) = Len(u) + 1 /\ Len(u) \in Nat /\ a[Len(u) + 1] = t
        /\ \A i \in 1..Len(u) : a[i] = u[i]
    BY <2>1, AppendProperties
  <2>3. FlattenSeq(a) = FlattenSeq(u) \o t /\ FlattenSeq(u) \in Seq(S)
    BY <2>1, FlattenProperties
  <2>4. ASSUME NEW v \in Seq(A), NEW i, GrownAt(a, i, v, e) PROVE LongerByOne(a, v)
    <3>1. v # <<>> /\ Len(v) = Len(u) + 1
      BY <2>2, <2>4 DEF GrownAt
    <3>2. PICK w, l : w = Front(v) /\ l = Last(v)
      OBVIOUS
    <3>3. /\ w \in Seq(A) /\ l \in A /\ v = Append(w, l) /\ Len(w) = Len(u)
          /\ l = v[Len(u) + 1] /\ \A j \in 1..Len(u) : w[j] = v[j]
      <4>1. w \in Seq(A) /\ Len(w) = Len(v) - 1 /\ \A j \in 1..Len(v) - 1 : w[j] = v[j]
        BY <3>1, <3>2, FrontProperties
      <4>2. l = v[Len(v)]
        BY <3>2 DEF Last
      <4>3. v = Append(w, l)
        BY <3>1, <3>2, FrontAndLast
      <4> QED
        BY <2>2, <3>1, <4>1, <4>2, <4>3
    <3>4. FlattenSeq(v) = FlattenSeq(w) \o l /\ FlattenSeq(w) \in Seq(S)
      BY <3>3, FlattenProperties
    <3>5. CASE i = Len(u) + 1
      <4>0. \A j \in 1..Len(u) : j \in 1..Len(a) /\ j # i
        BY <2>2, <3>5
      <4>1. w = u
        <5>1. \A j \in 1..Len(u) : w[j] = u[j]
          BY <2>2, <2>4, <3>3, <4>0 DEF GrownAt
        <5> QED
          BY ONLY <3>3, <5>1, <1>2, SeqEqual
      <4>2. l = Append(t, e)
        BY <2>2, <2>4, <3>3, <3>5 DEF GrownAt
      <4>3. Len(FlattenSeq(w)) = Len(FlattenSeq(u)) /\ Len(l) = Len(t) + 1
        BY <4>1, <4>2
      <4> QED
        BY <2>3, <3>3, <3>4, <4>3, LengthsAdd DEF LongerByOne
    <3>6. CASE i # Len(u) + 1
      <4>1. i \in 1..Len(u)
        BY <2>2, <2>4, <3>6 DEF GrownAt
      <4>5. \A j \in 1..Len(u) : j \in 1..Len(a)
        BY <2>2
      <4>2. GrownAt(u, i, w, e)
        BY <2>2, <2>4, <3>3, <4>1, <4>5 DEF GrownAt
      <4>3. LongerByOne(u, w)
        BY <1>2, <3>3, <4>2
      <4>4. l = t
        BY <2>2, <2>4, <3>3, <3>6 DEF GrownAt
      <4> QED
        BY <2>3, <3>3, <3>4, <4>3, <4>4, LengthsAdd DEF LongerByOne
    <3> QED
      BY <3>5, <3>6
  <2> QED
    BY <2>1, <2>2, <2>4
<1>3. Seq(A) \subseteq T
  <2> HIDE DEF T, A
  <2> QED
    BY ONLY <1>1, <1>2, SequenceInduction
<1> QED
  BY <1>3
-----------------------------------------------------------------------------
\* LastIndex returns 0 or the position of a separator that no other follows.
LEMMA LastIndexProperties ==
  ASSUME NEW S, NEW s \in Seq(S), NEW sep
  PROVE  /\ LastIndex(s, sep) \in 0..Len(s)
         /\ LastIndex(s, sep) # 0 => s[LastIndex(s, sep)] = sep
         /\ \A j \in 1..Len(s) : j > LastIndex(s, sep) => s[j] # sep
<1> DEFINE I == {i \in 1..Len(s) : s[i] = sep}
<1>1. Len(s) \in Nat /\ I \in SUBSET (1..Len(s))
  OBVIOUS
<1>2. CASE I = {}
  <2>1. LastIndex(s, sep) = 0
    BY <1>2 DEF LastIndex, SelectLastInSeq
  <2> QED
    BY <1>1, <1>2, <2>1
<1>3. CASE I # {}
  <2>1. Max(I) \in I /\ \A i \in I : Max(I) >= i
    BY <1>1, <1>3, MaxOfPositions
  <2>2. LastIndex(s, sep) = Max(I)
    BY <1>3 DEF LastIndex, SelectLastInSeq
  <2> DEFINE m == Max(I)
  <2>3. m \in 1..Len(s) /\ s[m] = sep /\ \A j \in 1..Len(s) : s[j] = sep => m >= j
    BY <2>1
  <2> HIDE DEF m
  <2>4. m \in 0..Len(s) /\ s[m] = sep /\ \A j \in 1..Len(s) : j > m => s[j] # sep
    BY <1>1, <2>3
  <2> QED
    BY <2>2, <2>4 DEF m
<1> QED
  BY <1>2, <1>3

IsCut(S, sep, s, i) ==
  /\ After(s, i) \in Seq(S)
  /\ i = 0 => s \in Seq(S) /\ After(s, i) = s
  /\ i # 0 => Before(s, i) \in Texts(S, sep) /\ s = Append(Before(s, i), sep) \o After(s, i)

\* A text cut at its last separator: the separator is dropped, none is left after it.
LEMMA CutAtLast ==
  ASSUME NEW S, NEW sep, NEW s \in Texts(S, sep), NEW i, i = LastIndex(s, sep)
  PROVE  IsCut(S, sep, s, i)
<1> USE DEF IsCut
<1>1. s \in Seq(S \cup {sep}) /\ Len(s) \in Nat /\ \A j \in 1..Len(s) : s[j] \in S \cup {sep}
  BY DEF Texts
<1>2. i \in 0..Len(s) /\ (i # 0 => s[i] = sep) /\ \A j \in 1..Len(s) : j > i => s[j] \in S
  BY <1>1, LastIndexProperties
<1>3. After(s, i) \in Seq(S)
  <2>1. \A j \in i + 1..Len(s) : s[j] \in S
    BY <1>1, <1>2
  <2> QED
    BY <1>1, <1>2, <2>1, SubSeqProperties DEF After
<1>4. CASE i = 0
  <2>1. After(s, i) = s
    BY <1>1, <1>4, SubSeqFull DEF After
  <2> QED
    BY <1>3, <1>4, <2>1
<1>5. CASE i # 0
  <2>1. PICK b, a : b = Before(s, i) /\ a = After(s, i)
    OBVIOUS
  <2>2. b \in Seq(S \cup {sep}) /\ Len(b) = i - 1 /\ \A j \in 1..i - 1 : b[j] = s[j]
    <3>1. \A j \in 1..i - 1 : s[j] \in S \cup {sep}
      BY <1>1, <1>2
    <3>2. 1 + (i - 1) = i /\ i - 1 \in Nat
      BY <1>1, <1>2, <1>5
    <3> QED
      BY <1>1, <1>2, <1>5, <2>1, <3>1, <3>2, SubSeqProperties DEF Before
  <2>3. a \in Seq(S \cup {sep}) /\ Len(a) = Len(s) - i /\ \A j \in 1..Len(s) - i : a[j] = s[i + j]
    BY <1>1, <1>2, <2>1, SubSeqProperties DEF After
  <2>4. PICK c : c = Append(b, sep)
    OBVIOUS
  <2>5. c \in Seq(S \cup {sep}) /\ Len(c) = i /\ c[i] = sep /\ \A j \in 1..i - 1 : c[j] = b[j]
    BY <1>2, <2>2, <2>4, AppendProperties
  <2>6. PICK d : d = c \o a
    OBVIOUS
  <2>7. d \in Seq(S \cup {sep}) /\ Len(d) = Len(s)
        /\ \A j \in 1..Len(s) : d[j] = IF j <= i THEN c[j] ELSE a[j - i]
    BY <1>1, <1>2, <2>3, <2>5, <2>6
  <2>8. ASSUME NEW j \in 1..Len(s) PROVE d[j] = s[j]
    <3>1. CASE j \in 1..i - 1
      BY <1>1, <1>2, <2>2, <2>5, <2>7, <3>1
    <3>2. CASE j = i
      BY <1>1, <1>2, <1>5, <2>5, <2>7, <3>2
    <3>3. CASE j > i
      <4>1. j - i \in 1..Len(s) - i /\ i + (j - i) = j /\ ~ (j <= i)
        BY <1>1, <1>2, <3>3
      <4> QED
        BY <2>3, <2>7, <4>1
    <3>4. j \in 1..i - 1 \/ j = i \/ j > i
      BY <1>1, <1>2
    <3> QED
      BY <3>1, <3>2, <3>3, <3>4
  <2>9. d = s
    BY <1>1, <2>7, <2>8, SeqEqual
  <2> QED
    BY <1>3, <1>5, <2>1, <2>2, <2>4, <2>6, <2>9 DEF Texts
<1> QED
  BY <1>3, <1>4, <1>5

\* What ends at the last separator is whole lines; the rest is the last piece.
CutsOff(S, sep, s, done, rest) ==
  done \in Seq(Seq(S)) /\ rest \in Seq(S) /\ Split(s, sep) = Append(done, rest)

LEMMA SplitAtLast ==
  ASSUME NEW S, NEW sep, sep \notin S, NEW s \in Texts(S, sep), NEW i, i = LastIndex(s, sep)
  PROVE  CutsOff(S, sep, s, IF i = 0 THEN <<>> ELSE Split(Before(s, i), sep), After(s, i))
<1>0. IsCut(S, sep, s, i)
  BY CutAtLast
<1>1. CASE i = 0
  <2>1. PICK A : A = Seq(S)
    OBVIOUS
  <2>2. PICK a : a = After(s, i)
    OBVIOUS
  <2>3. a \in Seq(S) /\ Split(s, sep) = <<a>>
    BY <1>0, <1>1, <2>2, SplitWhole DEF IsCut
  <2>4. <<>> \in Seq(A) /\ Append(<<>>, a) = <<a>>
    OBVIOUS
  <2> QED
    BY <1>1, <2>1, <2>2, <2>3, <2>4 DEF CutsOff
<1>2. CASE i # 0
  <2>1. PICK a, b : a = After(s, i) /\ b = Before(s, i)
    OBVIOUS
  <2>2. a \in Seq(S) /\ b \in Texts(S, sep) /\ s = Append(b, sep) \o a
    BY <1>0, <1>2, <2>1 DEF IsCut
  <2>3. PICK A : A = Seq(S)
    OBVIOUS
  <2>4. PICK p : p = Split(b, sep)
    OBVIOUS
  <2>5. p \in Seq(A) /\ <<>> \in A /\ a \in A
    BY <2>2, <2>3, <2>4, SplitTyped
  <2>6. Append(b, sep) \in Texts(S, sep) /\ a \in Texts(S, sep)
    BY <2>2, SeqMonotonic DEF Texts
  <2>7. Split(Append(b, sep), sep) = Append(p, <<>>)
    BY <2>2, <2>4, SplitAppended DEF Lengthened
  <2>8. Front(Append(p, <<>>)) = p /\ Last(Append(p, <<>>)) = <<>>
    BY ONLY <2>5, FrontAndLastOfAppend
  <2>9. PICK c : c = Append(b, sep)
    OBVIOUS
  <2>10. Split(c \o a, sep) = Front(Split(c, sep)) \o Split(Last(Split(c, sep)) \o a, sep)
    BY <2>6, <2>9, SplitConcat
  <2>11. <<>> \o a = a /\ Split(a, sep) = <<a>>
    BY <2>2, SplitWhole
  <2>12. p \o <<a>> = Append(p, a)
    BY <2>5
  <2>13. Split(s, sep) = Append(p, a)
    BY <2>2, <2>7, <2>8, <2>9, <2>10, <2>11, <2>12
  <2> QED
    BY <1>2, <2>1, <2>3, <2>4, <2>5, <2>13 DEF CutsOff
<1> QED
  BY <1>1, <1>2
-----------------------------------------------------------------------------
(***************************************************************************)
(* Filtering a list.                                                        *)
(***************************************************************************)
FilterStep(S, kept) ==
  [x \in Seq(S) \X S |-> IF x[2] \in kept THEN Append(x[1], x[2]) ELSE x[1]]

LEMMA FilteredFolds ==
  ASSUME NEW S, NEW kept, NEW H, IsFold(H, S, Seq(S), <<>>, FilterStep(S, kept)),
         NEW s \in Seq(S)
  PROVE  Filtered(s, kept) = H[s]
<1> DEFINE A == Seq(S)
           F == FilterStep(S, kept)
           step(a, e) == IF e \in kept THEN Append(a, e) ELSE a
           Def(f) == [n \in 0..Len(s) |-> IF n = 0 THEN <<>>
                       ELSE IF s[n] \in kept THEN Append(f[n - 1], s[n]) ELSE f[n - 1]]
           g == CHOOSE f : f = Def(f)
<1>1. Filtered(s, kept) = g[Len(s)]
  BY DEF Filtered
<1>2. IsStep(F, <<>>, A, S) /\ s \in Seq(S)
  BY DEF IsStep, FilterStep
<1>3. \A a \in A, e \in S : F[<<a, e>>] = step(a, e)
  BY DEF FilterStep
<1>4. Len(s) \in Nat /\ \A n \in 1..Len(s) : n \in 0..Len(s) /\ n # 0 /\ n - 1 \in 0..Len(s) /\ s[n] \in S
  BY <1>2
<1>0. \A f : Def(f) = [n \in 0..Len(s) |-> IF n = 0 THEN <<>> ELSE step(f[n - 1], s[n])]
  OBVIOUS
<1> HIDE DEF A, F, g
<1>5. PICK f : IsTrace(f, s, A, <<>>, F)
  BY <1>2, TraceExists DEF IsStep
<1> HIDE DEF step, Def
<1>6. f = Def(f)
  <2>1. f \in [0..Len(s) -> A] /\ f[0] = <<>>
    BY <1>5 DEF IsTrace
  <2>2. \A n \in 1..Len(s) : f[n] = step(f[n - 1], s[n])
    BY <1>3, <1>4, <1>5, <2>1 DEF IsTrace
  <2>3. \A n \in 0..Len(s) : n = 0 \/ n \in 1..Len(s)
    OBVIOUS
  <2>4. \A n \in 0..Len(s) : f[n] = IF n = 0 THEN <<>> ELSE step(f[n - 1], s[n])
    BY <2>1, <2>2, <2>3
  <2> QED
    BY <1>0, <2>1, <2>4
<1>7. g = Def(g)
  BY <1>6 DEF g
<1>8. Follows(g, Len(s), s, A, <<>>, F)
  <2>1. g[0] = <<>>
    BY <1>0, <1>7, <1>4
  <2>2. \A n \in 1..Len(s) : g[n] = step(g[n - 1], s[n])
    BY <1>0, <1>7, <1>4
  <2> QED
    BY <1>3, <1>4, <2>1, <2>2 DEF Follows
<1>9. IsFold(H, S, A, <<>>, F)
  BY DEF A, F
<1>10. Returns(g, H, s)
  BY <1>2, <1>8, <1>9, FoldReturned
<1> QED
  BY <1>1, <1>10 DEF Returns

FiltersOn(s, e, kept) ==
  /\ e \in kept => Filtered(Append(s, e), kept) = Append(Filtered(s, kept), e)
  /\ e \notin kept => Filtered(Append(s, e), kept) = Filtered(s, kept)

LEMMA FilteredProperties ==
  ASSUME NEW S, NEW kept
  PROVE  /\ Filtered(<<>>, kept) = <<>>
         /\ \A s \in Seq(S) : Filtered(s, kept) \in Seq(S)
         /\ \A s \in Seq(S), e \in S : FiltersOn(s, e, kept)
<1> DEFINE A == Seq(S)
           F == FilterStep(S, kept)
<1>1. <<>> \in A /\ F \in [A \X S -> A]
  BY DEF FilterStep
<1>2. PICK H : IsFold(H, S, A, <<>>, F)
  <2> HIDE DEF A, F
  <2> QED
    BY <1>1, FoldExists
<1>3. \A s \in Seq(S) : Filtered(s, kept) = H[s]
  BY <1>2, FilteredFolds
<1>4. <<>> \in Seq(S) /\ \A s \in Seq(S), e \in S : Append(s, e) \in Seq(S)
  OBVIOUS
<1>5. \A a \in A, e \in S : F[<<a, e>>] = IF e \in kept THEN Append(a, e) ELSE a
  BY DEF FilterStep
<1>0. A = Seq(S)
  OBVIOUS
<1> HIDE DEF A, F
<1>6. Filtered(<<>>, kept) = <<>>
  BY <1>2, <1>3, <1>4 DEF IsFold
<1>7. \A s \in Seq(S) : Filtered(s, kept) \in A
  BY <1>2, <1>3 DEF IsFold
<1>8. ASSUME NEW s \in Seq(S), NEW e \in S
      PROVE  FiltersOn(s, e, kept)
  <2>1. H[Append(s, e)] = F[<<H[s], e>>] /\ H[s] \in A
    BY <1>2 DEF IsFold
  <2>2. Filtered(Append(s, e), kept) = H[Append(s, e)] /\ Filtered(s, kept) = H[s]
    BY <1>3, <1>4
  <2> QED
    BY <1>5, <2>1, <2>2 DEF FiltersOn
<1> QED
  BY <1>0, <1>6, <1>7, <1>8

\* No element twice.
Distinct(s) == \A i, j \in 1..Len(s) : s[i] = s[j] => i = j

\* v holds what u holds, and e.
Adds(u, e, v) ==
  /\ \A x : Contains(v, x) <=> Contains(u, x) \/ x = e
  /\ Distinct(v) <=> Distinct(u) /\ ~ Contains(u, e)

LEMMA AppendAdds ==
  ASSUME NEW S, NEW u \in Seq(S), NEW e \in S
  PROVE  Append(u, e) \in Seq(S) /\ Adds(u, e, Append(u, e))
<1>1. PICK v : v = Append(u, e)
  OBVIOUS
<1>2. v \in Seq(S) /\ Len(v) = Len(u) + 1 /\ v[Len(u) + 1] = e /\ Len(u) \in Nat
      /\ \A i \in 1..Len(u) : v[i] = u[i]
  BY <1>1, AppendProperties
<1>3. \A x : Contains(v, x) <=> Contains(u, x) \/ x = e
  BY <1>2 DEF Contains
<1>4. Distinct(v) => Distinct(u) /\ ~ Contains(u, e)
  <2> SUFFICES ASSUME Distinct(v) PROVE Distinct(u) /\ ~ Contains(u, e)
    OBVIOUS
  <2>1. Distinct(u)
    BY <1>2 DEF Distinct
  <2>2. ASSUME NEW i \in 1..Len(u), u[i] = e PROVE FALSE
    <3>1. i \in 1..Len(v) /\ Len(u) + 1 \in 1..Len(v) /\ v[i] = v[Len(u) + 1] /\ i # Len(u) + 1
      BY <1>2, <2>2
    <3> QED
      BY <3>1 DEF Distinct
  <2> QED
    BY <2>1, <2>2 DEF Contains
<1>5. Distinct(u) /\ ~ Contains(u, e) => Distinct(v)
  <2>1. \A i \in 1..Len(v) : i = Len(u) + 1 \/ i \in 1..Len(u)
    BY <1>2
  <2> QED
    BY <1>2, <2>1 DEF Distinct, Contains
<1> QED
  BY <1>1, <1>2, <1>3, <1>4, <1>5 DEF Adds

\* Two lists in one: what either holds; nothing twice if they share nothing.
Concats(u, v, w) ==
  /\ \A x : Contains(w, x) <=> Contains(u, x) \/ Contains(v, x)
  /\ Distinct(u) /\ Distinct(v) /\ (\A x : ~ (Contains(u, x) /\ Contains(v, x))) => Distinct(w)

LEMMA ConcatHolds ==
  ASSUME NEW S, NEW u \in Seq(S), NEW v \in Seq(S)
  PROVE  u \o v \in Seq(S) /\ Concats(u, v, u \o v)
<1>1. PICK w, m, n : w = u \o v /\ m = Len(u) /\ n = Len(v)
  OBVIOUS
<1>2. w \in Seq(S) /\ Len(w) = m + n /\ m \in Nat /\ n \in Nat
      /\ (\A i \in 1..m : w[i] = u[i]) /\ (\A i \in 1..n : w[m + i] = v[i])
  BY <1>1
<1>3. \A i \in 1..m + n : i \in 1..m \/ (i - m \in 1..n /\ m + (i - m) = i)
  BY <1>2
<1>4. \A i \in 1..m : i \in 1..m + n
  BY <1>2
<1>5. \A i \in 1..n : m + i \in 1..m + n
  BY <1>2
<1>6. \A x : Contains(w, x) <=> Contains(u, x) \/ Contains(v, x)
  <2> TAKE x
  <2>1. Contains(w, x) => Contains(u, x) \/ Contains(v, x)
    BY <1>1, <1>2, <1>3 DEF Contains
  <2>2. Contains(u, x) \/ Contains(v, x) => Contains(w, x)
    BY <1>1, <1>2, <1>4, <1>5 DEF Contains
  <2> QED
    BY <2>1, <2>2
<1>7. ASSUME Distinct(u), Distinct(v), \A x : ~ (Contains(u, x) /\ Contains(v, x)) PROVE Distinct(w)
  <2> SUFFICES ASSUME NEW i \in 1..m + n, NEW j \in 1..m + n, w[i] = w[j] PROVE i = j
    BY <1>2 DEF Distinct
  <2>1. CASE i \in 1..m /\ j \in 1..m
    BY <1>1, <1>2, <1>7, <2>1 DEF Distinct
  <2>2. CASE i - m \in 1..n /\ j - m \in 1..n /\ m + (i - m) = i /\ m + (j - m) = j
    <3>1. v[i - m] = v[j - m]
      BY <1>2, <2>2
    <3>2. i - m = j - m
      BY <1>1, <1>7, <2>2, <3>1 DEF Distinct
    <3> QED
      BY <2>2, <3>2
  <2>3. CASE i \in 1..m /\ j - m \in 1..n /\ m + (j - m) = j
    <3>1. u[i] = v[j - m]
      BY <1>2, <2>3
    <3> QED
      BY <1>1, <1>7, <2>3, <3>1 DEF Contains
  <2>4. CASE j \in 1..m /\ i - m \in 1..n /\ m + (i - m) = i
    <3>1. u[j] = v[i - m]
      BY <1>2, <2>4
    <3> QED
      BY <1>1, <1>7, <2>4, <3>1 DEF Contains
  <2> QED
    BY <1>3, <2>1, <2>2, <2>3, <2>4
<1> QED
  BY <1>1, <1>2, <1>6, <1>7 DEF Concats

\* A filtered list holds what was kept of the list, and nothing twice that the
\* list does not hold twice.
Filters(s, kept, t) ==
  /\ \A e : Contains(t, e) <=> Contains(s, e) /\ e \in kept
  /\ Distinct(s) => Distinct(t)

LEMMA FilteredElements ==
  ASSUME NEW S, NEW kept, NEW s \in Seq(S)
  PROVE  Filtered(s, kept) \in Seq(S) /\ Filters(s, kept, Filtered(s, kept))
<1> DEFINE T == {u \in Seq(S) : Filters(u, kept, Filtered(u, kept))}
<1>1. <<>> \in T
  <2>1. Filtered(<<>>, kept) = <<>> /\ <<>> \in Seq(S)
    BY FilteredProperties
  <2>2. Filters(<<>>, kept, <<>>)
    BY DEF Filters, Contains, Distinct
  <2> QED
    BY <2>1, <2>2
<1>2. ASSUME NEW u \in Seq(S), NEW e \in S, u \in T PROVE Append(u, e) \in T
  <2>1. PICK t : t = Filtered(u, kept)
    OBVIOUS
  <2>2. t \in Seq(S) /\ Filters(u, kept, t)
    BY <1>2, <2>1, FilteredProperties
  <2>3. Filtered(Append(u, e), kept) = IF e \in kept THEN Append(t, e) ELSE t
    <3>1. FiltersOn(u, e, kept)
      BY FilteredProperties
    <3> QED
      BY <2>1, <3>1 DEF FiltersOn
  <2>4. PICK v : v = Append(u, e)
    OBVIOUS
  <2>5. v \in Seq(S) /\ Adds(u, e, v)
    BY <2>4, AppendAdds
  <2>6. CASE e \notin kept
    BY <2>2, <2>3, <2>4, <2>5, <2>6 DEF Filters, Adds
  <2>7. CASE e \in kept
    <3>1. PICK w : w = Append(t, e)
      OBVIOUS
    <3>2. w \in Seq(S) /\ Adds(t, e, w)
      BY <2>2, <3>1, AppendAdds
    <3>3. Filters(v, kept, w)
      BY <2>2, <2>5, <2>7, <3>2 DEF Filters, Adds
    <3> QED
      BY <2>3, <2>4, <2>5, <2>7, <3>1, <3>3
  <2> QED
    BY <2>6, <2>7
<1>3. Seq(S) \subseteq T
  <2> HIDE DEF T
  <2> QED
    BY ONLY <1>1, <1>2, SequenceInduction
<1> QED
  BY <1>3, FilteredProperties
-----------------------------------------------------------------------------
\* A list with a function applied to each element, one more element at a time.
Mapped(F, s) == [i \in DOMAIN s |-> F[s[i]]]

MapsOn(F, s, e, V) ==
  /\ Mapped(F, s) \in Seq(V) /\ Len(Mapped(F, s)) = Len(s)
  /\ Mapped(F, Append(s, e)) = Append(Mapped(F, s), F[e])

LEMMA MappedAppend ==
  ASSUME NEW K, NEW V, NEW F \in [K -> V], NEW s \in Seq(K), NEW e \in K
  PROVE  MapsOn(F, s, e, V)
<1>1. ASSUME NEW t \in Seq(K)
      PROVE  /\ Mapped(F, t) \in Seq(V) /\ Len(Mapped(F, t)) = Len(t) /\ Len(t) \in Nat
             /\ \A i \in 1..Len(t) : Mapped(F, t)[i] = F[t[i]]
  <2>1. PICK n : n = Len(t)
    OBVIOUS
  <2>2. n \in Nat /\ DOMAIN t = 1..n /\ \A i \in 1..n : t[i] \in K
    BY <2>1
  <2>3. PICK m : m = [i \in 1..n |-> F[t[i]]]
    OBVIOUS
  <2>4. m \in [1..n -> V] /\ \A i \in 1..n : m[i] = F[t[i]]
    BY <2>2, <2>3
  <2>5. m \in Seq(V) /\ Len(m) = n
    BY ONLY <2>2, <2>4
  <2>6. Mapped(F, t) = m
    BY <2>2, <2>3 DEF Mapped
  <2> QED
    BY <2>1, <2>2, <2>4, <2>5, <2>6
<1>2. PICK a, u, v : a = Append(s, e) /\ u = Mapped(F, s) /\ v = Mapped(F, a)
  OBVIOUS
<1>3. /\ a \in Seq(K) /\ Len(a) = Len(s) + 1 /\ Len(s) \in Nat /\ a[Len(s) + 1] = e
      /\ \A i \in 1..Len(s) : a[i] = s[i]
  BY <1>2
<1>4. u \in Seq(V) /\ Len(u) = Len(s) /\ \A i \in 1..Len(s) : u[i] = F[s[i]]
  BY <1>1, <1>2
<1>5. v \in Seq(V) /\ Len(v) = Len(s) + 1 /\ \A i \in 1..Len(s) + 1 : v[i] = F[a[i]]
  BY <1>1, <1>2, <1>3
<1>6. PICK w : w = Append(u, F[e])
  OBVIOUS
<1>7. /\ w \in Seq(V) /\ Len(w) = Len(s) + 1 /\ w[Len(s) + 1] = F[e]
      /\ \A i \in 1..Len(s) : w[i] = u[i]
  BY <1>4, <1>6, AppendProperties
<1>8. \A i \in 1..Len(s) + 1 : i \in 1..Len(s) \/ i = Len(s) + 1
  BY <1>3
<1>9. \A i \in 1..Len(s) : i \in 1..Len(s) + 1
  BY <1>3
<1>10. \A i \in 1..Len(s) + 1 : v[i] = w[i]
  BY <1>3, <1>4, <1>5, <1>7, <1>8, <1>9
<1>11. v = w
  BY <1>5, <1>7, <1>10, SeqEqual
<1> QED
  BY <1>2, <1>4, <1>6, <1>11 DEF MapsOn

\* Mapping and filtering two lists one after the other is mapping and filtering each.
MapsConcat(F, s, t, V) ==
  /\ Mapped(F, s) \in Seq(V) /\ Mapped(F, t) \in Seq(V)
  /\ Mapped(F, s \o t) = Mapped(F, s) \o Mapped(F, t)

LEMMA MappedConcat ==
  ASSUME NEW K, NEW V, NEW F \in [K -> V], NEW s \in Seq(K), NEW t \in Seq(K)
  PROVE  MapsConcat(F, s, t, V)
<1> DEFINE T == {u \in Seq(K) : Mapped(F, u) \in Seq(V) /\ Mapped(F, s \o u) = Mapped(F, s) \o Mapped(F, u)}
<1>0. Mapped(F, <<>>) = <<>>
  BY DEF Mapped
<1>1. ASSUME NEW u \in Seq(K), NEW e \in K, Mapped(F, s \o u) = Mapped(F, s) \o Mapped(F, u)
      PROVE  Mapped(F, s \o Append(u, e)) = Mapped(F, s) \o Mapped(F, Append(u, e))
  <2>1. s \o Append(u, e) = Append(s \o u, e) /\ s \o u \in Seq(K)
    BY ConcatAppend
  <2>2. MapsOn(F, u, e, V) /\ MapsOn(F, s \o u, e, V) /\ F[e] \in V
    BY <2>1, MappedAppend
  <2>3. MapsOn(F, s, e, V)
    BY MappedAppend
  <2>4. PICK a, b : a = Mapped(F, s) /\ b = Mapped(F, u)
    OBVIOUS
  <2>5. a \in Seq(V) /\ b \in Seq(V)
    BY <2>2, <2>3, <2>4 DEF MapsOn
  <2>6. a \o Append(b, F[e]) = Append(a \o b, F[e])
    BY ONLY <2>2, <2>5, ConcatAppend
  <2>7. Mapped(F, s \o Append(u, e)) = Append(a \o b, F[e]) /\ Mapped(F, Append(u, e)) = Append(b, F[e])
    BY <1>1, <2>1, <2>2, <2>4 DEF MapsOn
  <2> QED
    BY <2>4, <2>6, <2>7
<1>2. ASSUME K # {} PROVE Mapped(F, s) \in Seq(V) /\ \A u \in Seq(K) : Mapped(F, u) \in Seq(V)
  <2>1. PICK e \in K : TRUE
    BY <1>2
  <2>2. \A u \in Seq(K) : MapsOn(F, u, e, V)
    BY MappedAppend
  <2> QED
    BY <2>2 DEF MapsOn
<1>3. CASE K = {}
  <2>1. s = <<>> /\ t = <<>> /\ <<>> \o <<>> = <<>> /\ <<>> \in Seq(V)
    BY <1>3
  <2> QED
    BY <1>0, <2>1 DEF MapsConcat
<1>4. CASE K # {}
  <2>1. <<>> \in T
    <3>1. s \o <<>> = s /\ Mapped(F, s) \o <<>> = Mapped(F, s) /\ <<>> \in Seq(K) /\ <<>> \in Seq(V)
      BY <1>2, <1>4, ConcatEmptySeq
    <3> QED
      BY <1>0, <3>1
  <2>2. \A u \in Seq(K), e \in K : u \in T => Append(u, e) \in T
    <3> SUFFICES ASSUME NEW u \in Seq(K), NEW e \in K, u \in T PROVE Append(u, e) \in T
      OBVIOUS
    <3>1. Append(u, e) \in Seq(K)
      OBVIOUS
    <3> QED
      BY <1>1, <1>2, <1>4, <3>1
  <2>3. Seq(K) \subseteq T
    <3> HIDE DEF T
    <3> QED
      BY ONLY <2>1, <2>2, SequenceInduction
  <2> QED
    BY <1>2, <1>4, <2>3 DEF MapsConcat
<1> QED
  BY <1>3, <1>4

LEMMA FilteredConcat ==
  ASSUME NEW S, NEW kept, NEW s \in Seq(S), NEW t \in Seq(S)
  PROVE  Filtered(s \o t, kept) = Filtered(s, kept) \o Filtered(t, kept)
<1> DEFINE T == {u \in Seq(S) : Filtered(s \o u, kept) = Filtered(s, kept) \o Filtered(u, kept)}
<1>1. PICK a : a = Filtered(s, kept)
  OBVIOUS
<1>2. a \in Seq(S) /\ Filtered(<<>>, kept) = <<>>
  BY <1>1, FilteredProperties
<1>3. <<>> \in T
  <2>1. s \o <<>> = s /\ a \o <<>> = a /\ <<>> \in Seq(S)
    BY <1>2, ConcatEmptySeq
  <2> QED
    BY <1>1, <1>2, <2>1
<1>4. ASSUME NEW u \in Seq(S), NEW e \in S, u \in T PROVE Append(u, e) \in T
  <2>1. s \o Append(u, e) = Append(s \o u, e) /\ s \o u \in Seq(S)
    BY ConcatAppend
  <2>2. PICK b : b = Filtered(u, kept)
    OBVIOUS
  <2>3. b \in Seq(S) /\ FiltersOn(u, e, kept) /\ FiltersOn(s \o u, e, kept)
    BY <2>1, <2>2, FilteredProperties
  <2>4. Filtered(s \o u, kept) = a \o b
    BY <1>1, <1>4, <2>2
  <2>5. a \o Append(b, e) = Append(a \o b, e)
    BY ONLY <1>2, <2>3, e \in S, ConcatAppend
  <2>6. Filtered(s \o Append(u, e), kept) = a \o Filtered(Append(u, e), kept)
    BY <2>1, <2>2, <2>3, <2>4, <2>5 DEF FiltersOn
  <2>7. Append(u, e) \in Seq(S)
    OBVIOUS
  <2> QED
    BY <1>1, <2>6, <2>7
<1>5. Seq(S) \subseteq T
  <2> HIDE DEF T
  <2> QED
    BY ONLY <1>3, <1>4, SequenceInduction
<1> QED
  BY <1>5
-----------------------------------------------------------------------------
(***************************************************************************)
(* Gathering what the elements of a list contribute.                        *)
(***************************************************************************)
Gathering(before, part, enough) == IF Len(before) >= enough THEN before ELSE before \o part

GatherStep(S, V, parts, enough) ==
  [x \in Seq(V) \X S |-> Gathering(x[1], parts[x[2]], enough)]

LEMMA GatherStepOK ==
  ASSUME NEW S, NEW V, NEW parts \in [S -> Seq(V)], NEW enough
  PROVE  IsStep(GatherStep(S, V, parts, enough), <<>>, Seq(V), S)
<1>1. \A a \in Seq(V), e \in S : Gathering(a, parts[e], enough) \in Seq(V)
  BY ConcatProperties DEF Gathering
<1> QED
  BY <1>1 DEF IsStep, GatherStep

LEMMA GatheredFolds ==
  ASSUME NEW S, NEW V, NEW parts \in [S -> Seq(V)], NEW enough,
         NEW H, IsFold(H, S, Seq(V), <<>>, GatherStep(S, V, parts, enough)), NEW s \in Seq(S)
  PROVE  Gathered(s, parts, enough) = H[s]
<1> DEFINE A == Seq(V)
           F == GatherStep(S, V, parts, enough)
           Def(f) == [n \in 0..Len(s) |-> IF n = 0 THEN <<>>
                       ELSE LET before == f[n - 1]
                            IN  IF Len(before) >= enough THEN before ELSE before \o parts[s[n]]]
           g == CHOOSE f : f = Def(f)
<1>1. Gathered(s, parts, enough) = g[Len(s)]
  BY DEF Gathered
<1>2. IsStep(F, <<>>, A, S) /\ s \in Seq(S)
  BY GatherStepOK
<1>3. \A a \in A, e \in S : F[<<a, e>>] = Gathering(a, parts[e], enough)
  BY DEF GatherStep
<1>4. Len(s) \in Nat /\ \A n \in 1..Len(s) : n \in 0..Len(s) /\ n # 0 /\ n - 1 \in 0..Len(s) /\ s[n] \in S
  BY <1>2
<1>0. \A f : Def(f) = [n \in 0..Len(s) |->
                         IF n = 0 THEN <<>> ELSE Gathering(f[n - 1], parts[s[n]], enough)]
  BY DEF Gathering
<1> HIDE DEF A, F, g
<1>5. PICK f : IsTrace(f, s, A, <<>>, F)
  BY <1>2, TraceExists DEF IsStep
<1> HIDE DEF Def
<1>6. f = Def(f)
  <2>1. f \in [0..Len(s) -> A] /\ f[0] = <<>>
    BY <1>5 DEF IsTrace
  <2>2. \A n \in 1..Len(s) : f[n] = Gathering(f[n - 1], parts[s[n]], enough)
    BY <1>3, <1>4, <1>5, <2>1 DEF IsTrace
  <2>3. \A n \in 0..Len(s) : n = 0 \/ n \in 1..Len(s)
    OBVIOUS
  <2>4. \A n \in 0..Len(s) : f[n] = IF n = 0 THEN <<>> ELSE Gathering(f[n - 1], parts[s[n]], enough)
    BY <2>1, <2>2, <2>3
  <2> QED
    BY <1>0, <2>1, <2>4
<1>7. g = Def(g)
  BY <1>6 DEF g
<1>8. Follows(g, Len(s), s, A, <<>>, F)
  <2>1. g[0] = <<>>
    BY <1>0, <1>7, <1>4
  <2>2. \A n \in 1..Len(s) : g[n] = Gathering(g[n - 1], parts[s[n]], enough)
    BY <1>0, <1>7, <1>4
  <2> QED
    BY <1>3, <1>4, <2>1, <2>2 DEF Follows
<1>9. IsFold(H, S, A, <<>>, F)
  BY DEF A, F
<1>10. Returns(g, H, s)
  BY <1>2, <1>8, <1>9, FoldReturned
<1> QED
  BY <1>1, <1>10 DEF Returns

GathersOn(s, e, parts, enough) ==
  Gathered(Append(s, e), parts, enough) = Gathering(Gathered(s, parts, enough), parts[e], enough)

LEMMA GatheredProperties ==
  ASSUME NEW S, NEW V, NEW parts \in [S -> Seq(V)], NEW enough
  PROVE  /\ Gathered(<<>>, parts, enough) = <<>>
         /\ \A s \in Seq(S) : Gathered(s, parts, enough) \in Seq(V)
         /\ \A s \in Seq(S), e \in S : GathersOn(s, e, parts, enough)
<1> DEFINE A == Seq(V)
           F == GatherStep(S, V, parts, enough)
<1>1. <<>> \in A /\ F \in [A \X S -> A]
  BY GatherStepOK DEF IsStep
<1>2. PICK H : IsFold(H, S, A, <<>>, F)
  <2> HIDE DEF A, F
  <2> QED
    BY <1>1, FoldExists
<1>3. \A s \in Seq(S) : Gathered(s, parts, enough) = H[s]
  BY <1>2, GatheredFolds
<1>4. <<>> \in Seq(S) /\ \A s \in Seq(S), e \in S : Append(s, e) \in Seq(S)
  OBVIOUS
<1>5. \A a \in A, e \in S : F[<<a, e>>] = Gathering(a, parts[e], enough)
  BY DEF GatherStep
<1>0. A = Seq(V)
  OBVIOUS
<1> HIDE DEF A, F
<1>6. Gathered(<<>>, parts, enough) = <<>>
  BY <1>2, <1>3, <1>4 DEF IsFold
<1>7. \A s \in Seq(S) : Gathered(s, parts, enough) \in A
  BY <1>2, <1>3 DEF IsFold
<1>8. ASSUME NEW s \in Seq(S), NEW e \in S
      PROVE  GathersOn(s, e, parts, enough)
  <2>1. H[Append(s, e)] = F[<<H[s], e>>] /\ H[s] \in A
    BY <1>2 DEF IsFold
  <2>2. Gathered(Append(s, e), parts, enough) = H[Append(s, e)] /\ Gathered(s, parts, enough) = H[s]
    BY <1>3, <1>4
  <2> QED
    BY <1>5, <2>1, <2>2 DEF GathersOn
<1> QED
  BY <1>0, <1>6, <1>7, <1>8

\* The parts of different elements share nothing, and none holds anything twice.
Apart(S, parts) ==
  /\ \A e \in S : Distinct(parts[e])
  /\ \A d, e \in S : d # e => \A v : ~ (Contains(parts[d], v) /\ Contains(parts[e], v))

\* What was gathered are parts of the elements, all of an element's or, once there
\* was enough, none.
Gathers(s, parts, enough, g) ==
  /\ Distinct(g)
  /\ \A v : Contains(g, v) => \E e : Contains(s, e) /\ Contains(parts[e], v)
  /\ \A e : Contains(s, e) =>
       \/ \A v : Contains(parts[e], v) => Contains(g, v)
       \/ Len(g) >= enough /\ \A v : Contains(parts[e], v) => ~ Contains(g, v)

LEMMA GatheredElements ==
  ASSUME NEW S, NEW V, NEW parts \in [S -> Seq(V)], NEW enough \in Nat, Apart(S, parts),
         NEW s \in Seq(S), Distinct(s)
  PROVE  Gathered(s, parts, enough) \in Seq(V) /\ Gathers(s, parts, enough, Gathered(s, parts, enough))
<1> DEFINE T == {u \in Seq(S) : Distinct(u) => Gathers(u, parts, enough, Gathered(u, parts, enough))}
<1>1. <<>> \in T
  <2>1. Gathered(<<>>, parts, enough) = <<>> /\ <<>> \in Seq(S)
    BY GatheredProperties
  <2>2. Gathers(<<>>, parts, enough, <<>>)
    BY DEF Gathers, Contains, Distinct
  <2> QED
    BY <2>1, <2>2
<1>2. ASSUME NEW u \in Seq(S), NEW d \in S, u \in T PROVE Append(u, d) \in T
  <2>1. PICK w, g, h : w = Append(u, d) /\ g = Gathered(u, parts, enough)
                       /\ h = Gathered(w, parts, enough)
    OBVIOUS
  <2>2. w \in Seq(S) /\ Adds(u, d, w)
    BY <2>1, AppendAdds
  <2> SUFFICES ASSUME Distinct(w) PROVE Gathers(w, parts, enough, h)
    BY <2>1, <2>2
  <2>3. ~ Contains(u, d) /\ Gathers(u, parts, enough, g)
    BY <1>2, <2>1, <2>2 DEF Adds
  <2>4. g \in Seq(V) /\ parts[d] \in Seq(V)
    BY <2>1, GatheredProperties
  <2>5. h = Gathering(g, parts[d], enough)
    <3>1. GathersOn(u, d, parts, enough)
      BY GatheredProperties
    <3> QED
      BY <2>1, <3>1 DEF GathersOn
  <2>6. \A e : Contains(w, e) <=> Contains(u, e) \/ e = d
    BY <2>2 DEF Adds
  <2>7. \A e : Contains(u, e) => e \in S /\ e # d
    <3>1. \A i \in 1..Len(u) : u[i] \in S
      OBVIOUS
    <3> QED
      BY <2>3, <3>1 DEF Contains
  <2>8. \A v : ~ (Contains(g, v) /\ Contains(parts[d], v))
    BY <2>3, <2>7 DEF Gathers, Apart
  <2>9. CASE Len(g) >= enough
    <3>1. h = g
      BY <2>5, <2>9 DEF Gathering
    <3> QED
      BY <2>3, <2>6, <2>8, <2>9, <3>1 DEF Gathers
  <2>10. CASE ~ (Len(g) >= enough)
    <3>1. h = g \o parts[d]
      BY <2>5, <2>10 DEF Gathering
    <3>2. Concats(g, parts[d], h)
      BY <2>4, <3>1, ConcatHolds
    <3>3. \A e : Contains(u, e) => \A v : Contains(parts[e], v) => Contains(g, v)
      BY <2>3, <2>10 DEF Gathers
    <3>4. Distinct(h)
      BY <2>3, <2>8, <3>2 DEF Concats, Gathers, Apart
    <3>5. \A v : Contains(h, v) => \E e : Contains(w, e) /\ Contains(parts[e], v)
      BY <2>3, <2>6, <3>2 DEF Concats, Gathers
    <3>6. \A e : Contains(w, e) => \A v : Contains(parts[e], v) => Contains(h, v)
      BY <2>6, <3>2, <3>3 DEF Concats
    <3> QED
      BY <3>4, <3>5, <3>6 DEF Gathers
  <2> QED
    BY <2>9, <2>10
<1>3. Seq(S) \subseteq T
  <2> HIDE DEF T
  <2> QED
    BY ONLY <1>1, <1>2, SequenceInduction
<1> QED
  BY <1>3, GatheredProperties
-----------------------------------------------------------------------------
\* Splitting what was joined gives the lines back, and nothing after the last.
LEMMA SplitOfJoined ==
  ASSUME NEW S, NEW sep, sep \notin S, NEW lines \in Seq(Seq(S))
  PROVE  Split(Joined(lines, sep), sep) = Append(lines, <<>>)
<1> DEFINE T == {s \in Seq(Seq(S)) : Split(Joined(s, sep), sep) = Append(s, <<>>)}
<1>1. <<>> \in T
  <2>1. Joined(<<>>, sep) = <<>> /\ Split(<<>>, sep) = << <<>> >>
    BY JoinedProperties, SplitProperties
  <2>2. Append(<<>>, <<>>) = << <<>> >>
    OBVIOUS
  <2> QED
    BY <2>1, <2>2
<1>2. ASSUME NEW s \in Seq(Seq(S)), NEW l \in Seq(S), s \in T PROVE Append(s, l) \in T
  <2>1. PICK j, w, A : j = Joined(s, sep) /\ w = Append(s, l) /\ A = Seq(S)
    OBVIOUS
  <2>2. j \in Texts(S, sep) /\ l \in Texts(S, sep) /\ s \in Seq(A) /\ l \in A /\ <<>> \in A
        /\ w \in Seq(A)
    <3>1. l \in Seq(S \cup {sep})
      BY SeqMonotonic
    <3> QED
      BY <2>1, <3>1, JoinedTyped DEF Texts
  <2>3. Split(j, sep) = Append(s, <<>>)
    BY <1>2, <2>1
  <2>4. Front(Split(j, sep)) = s /\ Last(Split(j, sep)) = <<>>
    BY ONLY <2>2, <2>3, FrontAndLastOfAppend
  <2>5. Split(j \o l, sep) = w
    <3>1. Split(j \o l, sep) = Front(Split(j, sep)) \o Split(Last(Split(j, sep)) \o l, sep)
      BY <2>2, SplitConcat
    <3>2. <<>> \o l = l /\ Split(l, sep) = <<l>>
      BY SplitWhole
    <3>3. s \o <<l>> = w
      BY <2>1, <2>2, AppendIsConcat
    <3> QED
      BY <2>4, <3>1, <3>2, <3>3
  <2>6. j \o l \in Texts(S, sep) /\ Joined(w, sep) = Append(j \o l, sep)
    <3>1. Joined(w, sep) = j \o l \o <<sep>>
      BY <2>1, JoinedAppend
    <3>2. j \o l \in Seq(S \cup {sep}) /\ sep \in S \cup {sep}
      BY <2>2 DEF Texts
    <3>3. PICK r, B : r = j \o l /\ B = S \cup {sep}
      OBVIOUS
    <3>4. Append(r, sep) = r \o <<sep>>
      BY ONLY <3>2, <3>3, AppendIsConcat
    <3> QED
      BY <3>1, <3>2, <3>3, <3>4 DEF Texts
  <2>7. Split(Append(j \o l, sep), sep) = Append(w, <<>>)
    BY <2>5, <2>6, SplitProperties
  <2> QED
    BY <2>1, <2>2, <2>6, <2>7
<1>3. Seq(Seq(S)) \subseteq T
  <2> HIDE DEF T
  <2>1. PICK A : A = Seq(S)
    OBVIOUS
  <2>2. \A s \in Seq(A), e \in A : s \in T => Append(s, e) \in T
    BY <1>2, <2>1
  <2>3. Seq(A) \subseteq T
    BY ONLY <1>1, <2>2, SequenceInduction
  <2> QED
    BY <2>1, <2>3
<1> QED
  BY <1>3

\* So does splitting a text that only lacks the last separator.
LEMMA SplitOfUnended ==
  ASSUME NEW S, NEW sep, sep \notin S, NEW lines \in Seq(Seq(S)), NEW s \in Texts(S, sep),
         Append(s, sep) = Joined(lines, sep)
  PROVE  Split(s, sep) = lines
<1>1. PICK p, A : p = Split(s, sep) /\ A = Seq(S)
  OBVIOUS
<1>2. p \in Seq(A) /\ lines \in Seq(A) /\ <<>> \in A
  BY <1>1, SplitProperties
<1>3. Append(p, <<>>) = Append(lines, <<>>)
  <2>1. Split(Append(s, sep), sep) = Append(p, <<>>)
    BY <1>1, SplitProperties
  <2>2. Split(Joined(lines, sep), sep) = Append(lines, <<>>)
    BY SplitOfJoined
  <2> QED
    BY <2>1, <2>2
<1>4. Front(Append(p, <<>>)) = p /\ Front(Append(lines, <<>>)) = lines
  BY ONLY <1>2, FrontAndLastOfAppend
<1> QED
  BY <1>1, <1>3, <1>4
=============================================================================
