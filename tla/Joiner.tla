------------------------------- MODULE Joiner -------------------------------
(***************************************************************************)
(* internal/stream/joiner.go: logical lines reassembled from the chunks of *)
(* `go test -json` "output" events.  A text is a sequence of Symbols; NL is *)
(* the newline byte, the only one the joiner looks at.                      *)
(***************************************************************************)
EXTENDS Slices

CONSTANTS Keys,     \* the <<package, test>> pairs output is attributed to
          Symbols,  \* what a chunk is made of, apart from newlines
          NL        \* the newline

ASSUME NLAssumption == NL \notin Symbols

Bytes == Symbols \cup {NL}

VARIABLES partial,  \* [Keys -> text after the last newline of each key]
          order     \* keys in first-seen order (the keys of the Go map)

JoinerInit == /\ partial = [k \in Keys |-> <<>>]
              /\ order = <<>>

\* What the builder of key k holds after WriteString(chunk).
Buffered(k, chunk) == partial[k] \o chunk

\* The lines a call Add(k, chunk) returns.
Completed(k, chunk) ==
  LET buffered == Buffered(k, chunk)
      idx == LastIndex(buffered, NL)
  IN  IF idx = 0 THEN <<>> ELSE Split(Before(buffered, idx), NL)

\* Mutants of Kept: the text held so far is forgotten; the completed lines stay.
KeptChunk(k, chunk) == After(chunk, LastIndex(chunk, NL))

KeptWhole(k, chunk) == Buffered(k, chunk)

\* What it keeps for the next call: everything after the last newline.
Kept(k, chunk) ==
  LET buffered == Buffered(k, chunk)
  IN  After(buffered, LastIndex(buffered, NL))

JoinerAdd(k, chunk) ==
  /\ chunk # <<>>
  /\ order' = IF Contains(order, k) THEN order ELSE Append(order, k)
  /\ partial' = [partial EXCEPT ![k] = Kept(k, chunk)]

\* The keys Flush returns a remainder for, and the order it does so in.
Remaining == {k \in ToSet(order) : partial[k] # <<>>}

Remainders == Filtered(order, Remaining)

JoinerFlush ==
  /\ partial' = [k \in Keys |-> <<>>]
  /\ UNCHANGED order

JoinerTypeOK ==
  /\ partial \in [Keys -> Seq(Symbols)]
  /\ order \in Seq(Keys)
=============================================================================
