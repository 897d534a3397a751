------------------------------- MODULE Sentinel -------------------------------
(***************************************************************************)
(* internal/sentinel/sentinel.go: a message written into a line of output    *)
(* and found again in it.  A line is a sequence of tokens; Mark followed by   *)
(* Magic is the prefix "@@QF" and Mark alone the delimiter "@@".  base64 and   *)
(* CRC are abstracted to what they tell apart: Body and Sum are those of the  *)
(* messages anyone encodes.                                                 *)
(***************************************************************************)
EXTENDS Integers, Sequences, FiniteSets, SequencesExt

CONSTANTS Mark, Magic,   \* "@@" and "QF"
          Numerals,      \* what strconv.Atoi reads
          Version,       \* the one this build writes
          Body, Sum,     \* payload (two tokens, so that it can be cut) and checksum
          Messages       \* those of a kind this build knows

ASSUME SentinelAssumption ==
  /\ Mark \notin Numerals \cup {Magic} /\ Version \in Numerals
  /\ Messages \subseteq DOMAIN Body /\ DOMAIN Sum = DOMAIN Body
  /\ \A m \in DOMAIN Body : /\ Body[m] = <<Body[m][1], Body[m][2]>>
                            /\ Mark \notin {Body[m][1], Body[m][2], Sum[m]}
  /\ \A m, n \in DOMAIN Body : m # n => Body[m] # Body[n] /\ Sum[m] # Sum[n]

Encode(m) == <<Mark, Magic, Version, Mark>> \o Body[m] \o <<Mark, Sum[m], Mark>>

\* strings.Cut at the next delimiter: what is before it, and where the rest begins.
UpTo(s) == SubSeq(s, 1, SelectInSeq(s, LAMBDA t : t = Mark) - 1)

Beyond(s) == SubSeq(s, SelectInSeq(s, LAMBDA t : t = Mark) + 1, Len(s))

HasAt(s, line, i) ==
  i + Len(s) <= Len(line) + 1 /\ \A j \in DOMAIN s : line[i + j - 1] = s[j]

\* Where a message may begin: the first magic of the line, 0 if there is none.
PrefixAt(line) ==
  LET places == {i \in DOMAIN line : HasAt(<<Mark, Magic>>, line, i)}
  IN  IF places = {} THEN 0 ELSE Min(places)

Nothing  == [found |-> FALSE, messages |-> <<>>]
Unusable == [found |-> TRUE, messages |-> <<>>]
Found(m) == [found |-> TRUE, messages |-> <<m>>]

\* The checksum is looked for after the body, the delimiter after it is not.
ReadBody(s) ==
  IF ~Contains(s, Mark) THEN Unusable
  ELSE IF \E m \in Messages : UpTo(s) = Body[m] /\ HasAt(<<Sum[m]>>, Beyond(s), 1)
       THEN Found(CHOOSE m \in Messages : UpTo(s) = Body[m])
       ELSE Unusable

ReadVersion(s) ==
  IF ~Contains(s, Mark) THEN Unusable
  ELSE IF \A n \in Numerals : UpTo(s) # <<n>> THEN Nothing
  ELSE IF UpTo(s) # <<Version>> THEN Unusable
  ELSE ReadBody(Beyond(s))

\* Mutant of Decode: a message is only looked for where the line begins.
DecodeAnchored(line) ==
  IF PrefixAt(line) # 1 THEN Nothing ELSE ReadVersion(SubSeq(line, 3, Len(line)))

Decode(line) ==
  LET at == PrefixAt(line)
  IN  IF at = 0 THEN Nothing ELSE ReadVersion(SubSeq(line, at + 2, Len(line)))
=============================================================================
