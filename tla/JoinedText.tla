----------------------------- MODULE JoinedText -----------------------------
(***************************************************************************)
(* The joiner fed with any chunks of any keys in any order, and what it      *)
(* promises: every byte fed for a key comes back exactly once, in order, as  *)
(* whole lines of that key.                                                 *)
(***************************************************************************)
EXTENDS Joiner

CONSTANTS Chunks,   \* the chunks considered
          MaxFed    \* bound on the text fed for one key

ASSUME FeedAssumption == Chunks \subseteq Seq(Bytes) \ {<<>>} /\ MaxFed \in Nat

VARIABLES fed,      \* [Keys -> all the text fed]
          lines,    \* [Keys -> the lines returned]
          flushed   \* Flush has run

vars == <<partial, order, fed, lines, flushed>>

Init ==
  /\ JoinerInit
  /\ fed = [k \in Keys |-> <<>>]
  /\ lines = [k \in Keys |-> <<>>]
  /\ flushed = FALSE

Feed(k, chunk) ==
  /\ ~flushed
  /\ Len(fed[k]) + Len(chunk) <= MaxFed
  /\ JoinerAdd(k, chunk)
  /\ fed' = [fed EXCEPT ![k] = @ \o chunk]
  /\ lines' = [lines EXCEPT ![k] = @ \o Completed(k, chunk)]
  /\ UNCHANGED flushed

\* Flush hands out the unterminated rest of every key that has one.
Flush ==
  /\ ~flushed
  /\ flushed' = TRUE
  /\ JoinerFlush
  /\ lines' = [k \in Keys |-> IF k \in Remaining THEN Append(lines[k], partial[k]) ELSE lines[k]]
  /\ UNCHANGED fed

Next ==
  \/ \E k \in Keys, chunk \in Chunks : Feed(k, chunk)
  \/ Flush

Spec == Init /\ [][Next]_vars

TypeOK ==
  /\ JoinerTypeOK
  /\ fed \in [Keys -> Seq(Bytes)]
  /\ lines \in [Keys -> Seq(Seq(Symbols))]
  /\ flushed \in BOOLEAN

\* A text after its last line has been ended too.
Ended(text) == IF text = <<>> \/ Last(text) = NL THEN text ELSE Append(text, NL)

\* Nothing is lost, repeated or moved to another key: the lines handed out for a
\* key, with the newlines that ended them, and the half line still held for it
\* are the text fed for it; after Flush the lines alone are.
Reassembled ==
  \A k \in Keys :
    IF flushed THEN partial[k] = <<>> /\ Joined(lines[k], NL) = Ended(fed[k])
               ELSE Joined(lines[k], NL) \o partial[k] = fed[k]

\* What the fed text itself says, without the joiner: its finished lines and,
\* after Flush, the unterminated one.
Written(k) ==
  LET pieces == Split(fed[k], NL)
  IN  IF flushed /\ Last(pieces) # <<>> THEN pieces ELSE Front(pieces)
=============================================================================
