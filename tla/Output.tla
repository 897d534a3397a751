-------------------------------- MODULE Output --------------------------------
(***************************************************************************)
(* What a test writes, cut into chunks and interleaved with what others      *)
(* write, joined into lines (internal/stream/joiner.go) and split into        *)
(* messages and text (internal/build/case.go, splitOutput).                  *)
(***************************************************************************)
EXTENDS JoinedText, Sentinel

CONSTANTS Blanks,  \* what isFraming trims
          Framing  \* "=== RUN", "=== PAUSE", "=== CONT", "=== NAME"

Line == Seq(Symbols)

IsFraming(line) ==
  LET text == SelectInSeq(line, LAMBDA t : t \notin Blanks)
  IN  text # 0 /\ line[text] \in Framing

\* splitOutput: the messages, the text, and a warning for each unusable message.
MessagesOf(ls) == FlattenSeq([i \in DOMAIN ls |-> Decode(ls[i]).messages])

WarningsOf(ls) == Filtered(ls, {l \in Line : Decode(l) = Unusable})

\* Mutant of TextOf: what looks like a message is not text.
TextWithoutMagic(ls) == Filtered(ls, {l \in Line : ~Decode(l).found /\ ~IsFraming(l)})

TextOf(ls) ==
  Filtered(ls, {l \in Line : Decode(l) = Unusable \/ (~Decode(l).found /\ ~IsFraming(l))})
-----------------------------------------------------------------------------
\* The line holds s at i, and nothing in front of it that looks like a message.
Begins(s, line, i) ==
  HasAt(s, line, i) /\ \A j \in 1..i - 1 : ~HasAt(<<Mark, Magic>>, line, j)

Carries(line, m) == \E i \in DOMAIN line : Begins(Front(Encode(m)), line, i)

IsMessage(line) == \E m \in Messages : Carries(line, m)

\* It says it is a message: of some version, or one whose version is cut off.
Claims(line) ==
  \E i \in DOMAIN line :
    \/ \E n \in Numerals : Begins(<<Mark, Magic, n, Mark>>, line, i)
    \/ Begins(<<Mark, Magic>>, line, i) /\ \A j \in i + 1..Len(line) : line[j] # Mark

\* Wherever the chunks were cut and whatever came between them, exactly the
\* messages that were written intact on a line of a test are read for that test,
\* in order: none is pieced together from halves of two, none moves to another.
MessagesRead ==
  \A k \in Keys :
    LET carrying == Filtered(Written(k), {line \in Line : IsMessage(line)})
    IN  MessagesOf(lines[k]) =
          [i \in DOMAIN carrying |-> CHOOSE m \in Messages : Carries(carrying[i], m)]

\* A user can see what the test printed: every line but messages and the runner's
\* own framing is in the text, and there is a warning for each of those, and for
\* no other, that says it is a message and is none.
TextKept ==
  \A k \in Keys :
    LET damaged == {line \in Line : Claims(line) /\ ~IsMessage(line)}
        runner == {line \in Line : IsFraming(line) /\ ~Claims(line)}
        text == Filtered(Written(k), {line \in Line : ~IsMessage(line)} \ runner)
    IN  /\ TextOf(lines[k]) = text
        /\ WarningsOf(lines[k]) = Filtered(text, damaged)
=============================================================================
