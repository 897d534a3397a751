-------------------------------- MODULE Slices --------------------------------
(***************************************************************************)
(* What the reporter does with Go's strings and slices, on sequences: cutting *)
(* a text at a separator, putting lines together again, filtering a list.    *)
(***************************************************************************)
EXTENDS Integers, Sequences, SequencesExt

\* strings.LastIndexByte, counting from 1; 0 when there is none.
LastIndex(s, byte) == SelectLastInSeq(s, LAMBDA b : b = byte)

Before(s, i) == SubSeq(s, 1, i - 1)

After(s, i) == SubSeq(s, i + 1, Len(s))

\* strings.Split at a single byte: one piece more than there are separators.
Split(s, sep) ==
  LET pieces[n \in 0..Len(s)] ==
        IF n = 0 THEN << <<>> >>
        ELSE LET before == pieces[n - 1]
             IN  IF s[n] = sep THEN Append(before, <<>>)
                 ELSE Append(Front(before), Append(Last(before), s[n]))
  IN  pieces[Len(s)]

\* The text that lines stand for, each with the separator that ended it.
Joined(lines, sep) ==
  LET text[n \in 0..Len(lines)] ==
        IF n = 0 THEN <<>> ELSE text[n - 1] \o lines[n] \o <<sep>>
  IN  text[Len(lines)]

\* strings.Join: the separator stands between the lines only.
Join(lines, sep) == IF lines = <<>> THEN <<>> ELSE Front(Joined(lines, sep))

\* textutil: the head of a text, and another text where there is none.
Truncate(text, max) == SubSeq(text, 1, IF Len(text) <= max THEN Len(text) ELSE max)

TruncateOr(text, max, alt) ==
  IF Truncate(text, max) # <<>> THEN Truncate(text, max) ELSE Truncate(alt, max)

\* A loop that appends the elements it keeps.
Filtered(s, kept) ==
  LET filtered[n \in 0..Len(s)] ==
        IF n = 0 THEN <<>>
        ELSE IF s[n] \in kept THEN Append(filtered[n - 1], s[n]) ELSE filtered[n - 1]
  IN  filtered[Len(s)]

\* A loop that appends what each element contributes, until there is enough.
Gathered(s, parts, enough) ==
  LET gathered[n \in 0..Len(s)] ==
        IF n = 0 THEN <<>>
        ELSE LET before == gathered[n - 1]
             IN  IF Len(before) >= enough THEN before ELSE before \o parts[s[n]]
  IN  gathered[Len(s)]
=============================================================================
