------------------------------- MODULE Decoder -------------------------------
(***************************************************************************)
(* internal/stream/decode.go: events decoded from the lines of a stream     *)
(* through a reader with a fixed buffer.  A byte is a token: Open and Close  *)
(* are the braces of a JSON object, Known and Unknown its Action, Other any  *)
(* further content; Blank stands for space and tab, CR and NL end a line.    *)
(***************************************************************************)
EXTENDS Integers, Sequences, SequencesExt

CONSTANTS Open, Close, Known, Unknown, Other, Blank, CR, NL,
          BufferSize,        \* the buffer of the bufio.Reader
          MaxLineBytes, MaxPreambleBytes

ASSUME SizesAssumption == {BufferSize, MaxLineBytes, MaxPreambleBytes} \subseteq Nat \ {0}

Tokens == {Open, Close, Known, Unknown, Other, Blank, CR, NL}

VARIABLES input,      \* what the reader has not consumed yet
          buf,        \* the line readLine is assembling
          truncated,  \* that line has reached the cap
          stats,      \* Decoder.stats
          preamble,   \* Decoder.preamble
          events      \* the events Next has returned

decoderVars == <<input, buf, truncated, stats, preamble, events>>

\* What is counted: lines that are not JSON, too long, of an unknown action.
Fields == {"unparsed", "oversized", "unknown"}

NoStats == [field \in Fields |-> 0]

\* The first n tokens of s, or all of it.
Cut(s, n) == SubSeq(s, 1, IF Len(s) < n THEN Len(s) ELSE n)

\* s without the tokens of a set at its end, and at its start.
TrimRight(s, cutset) == SubSeq(s, 1, SelectLastInSeq(s, LAMBDA b : b \notin cutset))

TrimLeft(s, cutset) ==
  LET i == SelectInSeq(s, LAMBDA b : b \notin cutset)
  IN  IF i = 0 THEN <<>> ELSE SubSeq(s, i, Len(s))

\* What json.Unmarshal accepts: one object, with blanks after it at most.
IsObject(s) ==
  LET object == TrimRight(s, {Blank})
  IN  /\ Len(object) >= 3
      /\ object[1] = Open /\ object[2] \in {Known, Unknown} /\ Last(object) = Close
      /\ \A i \in 3..Len(object) - 1 : object[i] = Other

\* What becomes of a line: "blank", "unparsed", "unknown" or "event".
Kind(line) ==
  LET trimmed == TrimLeft(line, {Blank})
  IN  IF trimmed = <<>> THEN "blank"
      ELSE IF ~IsObject(trimmed) THEN "unparsed"
      ELSE IF trimmed[2] = Unknown THEN "unknown" ELSE "event"

\* Mutant of Recorded: only a line that fits whole.
RecordedWhole(text, line) ==
  IF Len(text) + Len(line) <= MaxPreambleBytes THEN Append(text \o line, NL) ELSE text

\* recordUnparsed: as much of the line as there is room for, and a newline.
Recorded(text, line) ==
  LET remaining == MaxPreambleBytes - Len(text)
  IN  IF remaining > 0 THEN Append(text \o Cut(line, remaining), NL) ELSE text

DecoderInit ==
  /\ input = <<>>
  /\ buf = <<>>
  /\ truncated = FALSE
  /\ stats = NoStats
  /\ preamble = <<>>
  /\ events = <<>>

\* NewDecoder, on a stream; what earlier decoders returned stays returned.
NewDecoder(stream) ==
  /\ input' = stream
  /\ buf' = <<>>
  /\ truncated' = FALSE
  /\ stats' = NoStats
  /\ preamble' = <<>>
  /\ UNCHANGED events

\* ReadSlice: up to and including the next newline, or a bufferful, or the rest.
Slice ==
  LET nl == SelectInSeq(input, LAMBDA b : b = NL)
  IN  IF nl = 0 THEN Cut(input, BufferSize) ELSE Cut(Cut(input, nl), BufferSize)

\* Mutants of EndsLine: a bufferful is a line; the last line needs its newline.
EndsAnyway(slice) == TRUE

NeedsNewline(slice) == Contains(slice, NL)

\* It ends its line, unless it is a bufferful with no newline (ErrBufferFull).
EndsLine(slice) == Len(slice) = BufferSize => Last(slice) = NL

\* Mutant of Extended: no cap.
Whole(slice) == IF truncated THEN buf ELSE buf \o slice

\* The line with the slice added, up to the cap; later slices are discarded.
Extended(slice) == IF truncated THEN buf ELSE Cut(buf \o slice, MaxLineBytes)

\* Mutant of Overflows: every slice beyond the cap counts.
OverflowsAgain(slice) == Len(buf) + Len(slice) > MaxLineBytes

Overflows(slice) == ~truncated /\ Len(buf) + Len(slice) > MaxLineBytes

Seen(slice) == IF Overflows(slice) THEN [stats EXCEPT !.oversized = @ + 1] ELSE stats

\* A slice read inside a line.
Continues(slice) ==
  /\ ~EndsLine(slice)
  /\ buf' = Extended(slice)
  /\ truncated' = (truncated \/ Overflows(slice))
  /\ stats' = Seen(slice)
  /\ UNCHANGED <<preamble, events>>

\* The last slice of a line read, and decode(line).
Completes(slice) ==
  /\ EndsLine(slice)
  /\ buf' = <<>>
  /\ truncated' = FALSE
  /\ \E line \in {TrimRight(Extended(slice), {CR, NL})} :
       LET kind == Kind(line)
       IN  /\ stats' = IF kind \in {"unparsed", "unknown"}
                       THEN [Seen(slice) EXCEPT ![kind] = @ + 1] ELSE Seen(slice)
           /\ preamble' = IF kind = "unparsed" THEN Recorded(preamble, line) ELSE preamble
           /\ events' = IF kind = "event" THEN Append(events, TrimLeft(line, {Blank})) ELSE events

ReadSlice ==
  /\ input # <<>> \/ buf # <<>>
  /\ \E slice \in {Slice} :
       /\ input' = SubSeq(input, Len(slice) + 1, Len(input))
       /\ Continues(slice) \/ Completes(slice)

\* Next returns io.EOF.
AtEOF == input = <<>> /\ buf = <<>>

DecoderTypeOK ==
  /\ input \in Seq(Tokens) /\ buf \in Seq(Tokens) /\ preamble \in Seq(Tokens)
  /\ Len(buf) <= MaxLineBytes
  /\ truncated \in BOOLEAN
  /\ stats \in [Fields -> Nat]
  /\ events \in Seq(Seq(Tokens))
=============================================================================
