------------------------------- MODULE Streams -------------------------------
(***************************************************************************)
(* cmd/qualflare-go: streams decoded into the events of one run model and    *)
(* one set of diagnostics.  `consume` reads the one stream of a pipe or of   *)
(* go test, `fromFiles` any number of recorded ones, each with a decoder of  *)
(* its own.                                                                 *)
(***************************************************************************)
EXTENDS Decoder, Slices

CONSTANTS Pipes,      \* the streams of a pipe considered
          Recordings, \* the sequences of files considered
          Missing     \* a file that cannot be opened

ASSUME StreamsAssumption ==
  /\ Pipes \subseteq Seq(Tokens)
  /\ Recordings \subseteq Seq({Missing} \cup Seq(Tokens))

VARIABLES fromFiles, \* TRUE when files were given with -i
          files,     \* what is to be read, in order
          current,   \* how many of them have been opened
          reading,   \* the last of those is not exhausted
          totals,    \* the statistics the report is given
          text,      \* the preamble it is given
          outcome    \* "reading", then "reported" or "no report"

vars == <<decoderVars, fromFiles, files, current, reading, totals, text, outcome>>

Init ==
  /\ fromFiles \in BOOLEAN
  /\ files \in IF fromFiles THEN Recordings ELSE {<<s>> : s \in Pipes}
  /\ DecoderInit
  /\ current = 0
  /\ reading = FALSE
  /\ totals = NoStats
  /\ text = <<>>
  /\ outcome = "reading"

\* os.Open and NewDecoder.  A file that cannot be opened ends the run.
OpenFile ==
  /\ outcome = "reading" /\ ~reading /\ current < Len(files)
  /\ IF files[current + 1] = Missing
     THEN /\ outcome' = "no report"
          /\ UNCHANGED <<decoderVars, current, reading>>
     ELSE /\ NewDecoder(files[current + 1])
          /\ current' = current + 1
          /\ reading' = TRUE
          /\ UNCHANGED outcome
  /\ UNCHANGED <<fromFiles, files, totals, text>>

Reads ==
  /\ reading
  /\ ReadSlice
  /\ UNCHANGED <<fromFiles, files, current, reading, totals, text, outcome>>

\* fromFiles adds two of the three statistics; consume returns them all.
Added(sum, more) ==
  IF fromFiles
  THEN [sum EXCEPT !.unparsed = @ + more.unparsed, !.oversized = @ + more.oversized]
  ELSE more

EndFile ==
  /\ reading /\ AtEOF
  /\ reading' = FALSE
  /\ totals' = Added(totals, stats)
  /\ text' = text \o preamble
  /\ UNCHANGED <<decoderVars, fromFiles, files, current, outcome>>

Report ==
  /\ outcome = "reading" /\ ~reading /\ current = Len(files)
  /\ outcome' = "reported"
  /\ UNCHANGED <<decoderVars, fromFiles, files, current, reading, totals, text>>

Next == OpenFile \/ Reads \/ EndFile \/ Report

\* The reader keeps running: nothing else does, and the streams are finite.
Spec == Init /\ [][Next]_vars /\ WF_vars(Next)

\* applyDiagnostics: the properties of the report.
Diagnostics == {field \in DOMAIN totals : totals[field] > 0}
-----------------------------------------------------------------------------
(***************************************************************************)
(* The reference: a stream cut after its newlines, whatever the buffer.      *)
(***************************************************************************)
Lines(s) ==
  LET pieces == Split(s, NL)
      ended == [i \in 1..Len(pieces) - 1 |-> Append(pieces[i], NL)]
  IN  IF Last(pieces) = <<>> THEN ended ELSE Append(ended, Last(pieces))

\* What is left of a line under the cap.
Kept(line) == TrimRight(Cut(line, MaxLineBytes), {CR, NL})

OfKind(s, kind) ==
  LET kept == [i \in DOMAIN Lines(s) |-> Kept(Lines(s)[i])]
  IN  Filtered(kept, {line \in Seq(Tokens) : Kind(line) = kind})

\* The lines of a stream that are counted.
Faulty(s, field) ==
  IF field = "oversized" THEN Filtered(Lines(s), {line \in Seq(Tokens) : Len(line) > MaxLineBytes})
  ELSE OfKind(s, field)

EventsOf(s) ==
  LET lines == OfKind(s, "event")
  IN  [n \in DOMAIN lines |-> TrimLeft(lines[n], {Blank})]

TypeOK ==
  /\ DecoderTypeOK
  /\ current \in 0..Len(files)
  /\ totals \in [Fields -> Nat]
  /\ outcome \in {"reading", "reported", "no report"}

\* Every event whose line fits under the cap is delivered once, in order, however
\* the lines before it, too long, not JSON or blank, fall on the reader's buffer.
EventsDelivered ==
  LET expected == FlattenSeq([i \in 1..current |-> EventsOf(files[i])])
  IN  IF reading THEN IsPrefix(events, expected) ELSE events = expected

\* No line vanishes: at the end of a stream each one is an event, blank, or counted
\* under what was wrong with it; and the report says so, of whichever of several
\* files it was (except for unknown actions, which fromFiles does not add up).
LinesAccounted ==
  /\ reading /\ AtEOF => stats = [field \in Fields |-> Len(Faulty(files[current], field))]
  /\ outcome = "reported" =>
       Diagnostics = {field \in Fields : (field = "unknown" => ~fromFiles)
                        /\ \E i \in DOMAIN files : Faulty(files[i], field) # <<>>}

\* The text that is not JSON is kept from its beginning, up to the cap and the
\* newline that ends it, and there is some of it whenever a line was not JSON.
EvidenceRetained ==
  reading /\ AtEOF =>
    LET unparsed == OfKind(files[current], "unparsed")
    IN  /\ Cut(preamble, MaxPreambleBytes) = Cut(Joined(unparsed, NL), MaxPreambleBytes)
        /\ Len(preamble) <= MaxPreambleBytes + 1
        /\ unparsed # <<>> => preamble # <<>>

\* Reading finite streams ends, their last lines terminated or not.
Terminates == <>(outcome # "reading")
=============================================================================
