----------------------------- MODULE MCStreams -----------------------------
(***************************************************************************)
(* Instances of the streams.                                                *)
(***************************************************************************)
EXTENDS Streams

Event == <<Open, Known, Close>>

\* Lines around a cap of five and a buffer of three: events, also with blanks and
\* a carriage return, an unknown action, JSON cut short, other text, and events
\* that reach the cap or exceed it.
LineTexts == {Event, <<Blank>> \o Event \o <<CR>>, <<Open, Unknown, Close>>, <<Open, Known>>,
              <<Other, Other>>, <<Blank>>, <<>>,
              <<Open, Known, Other, Other, Close>>, <<Open, Known, Other, Other, Other, Close>>,
              <<Other, Other, Other, Other, Open, Known, Close>>}

Ended == {Append(line, NL) : line \in LineTexts}

\* Up to three lines, the last of them possibly unterminated.
ThreeLines == {a \o b \o c : a \in Ended, b \in Ended \cup {<<>>}, c \in Ended \cup LineTexts}

\* One or two files of one line each, any of them missing.
TwoFiles == SeqOf(Ended \cup LineTexts \cup {Missing}, 2) \ {<<>>}

OneFile == {<<line>> : line \in Ended}
=============================================================================
