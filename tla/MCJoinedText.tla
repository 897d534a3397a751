---------------------------- MODULE MCJoinedText ----------------------------
(***************************************************************************)
(* Two tests writing side by side in MaxFeeds chunks: text with no, one or    *)
(* two newlines, the runner's lines with anything after them, two messages    *)
(* whole or cut in the middle of the payload, one of an older version, and    *)
(* text that begins like one.                                               *)
(***************************************************************************)
EXTENDS Output, TLC

CONSTANTS x, old, indent, run, a1, b1, a2, b2, c1, c2, a3, b3, c3,
          MaxFeeds   \* bound on the number of chunks

VARIABLE feeds

MCNumerals == {Version, old}
MCMessages == {1, 2}
MCBody == <<<<a1, b1>>, <<a2, b2>>, <<a3, b3>>>>
MCSum == <<c1, c2, c3>>

Cut(m) == 6 \* after the payload's first token and the t.Log prefix

Logged(m) == <<indent>> \o Encode(m) \o <<NL>>
FirstHalf(m) == SubSeq(Logged(m), 1, Cut(m))
SecondHalf(m) == SubSeq(Logged(m), Cut(m) + 1, Len(Logged(m)))

MCChunks ==
  {<<x>>, <<NL, NL, x>>, <<indent, run>>, Logged(2), FirstHalf(1), SecondHalf(1),
   SecondHalf(2), Logged(3), <<Mark, Magic, old, Mark>>, <<Mark, Magic, x, Mark>>, <<Magic>>}

MCInit == Init /\ feeds = 0

MCNext == \/ \E k \in Keys, chunk \in Chunks :
               Feed(k, chunk) /\ feeds < MaxFeeds /\ feeds' = feeds + 1
          \/ Flush /\ UNCHANGED feeds

MCSpec == MCInit /\ [][MCNext]_<<vars, feeds>>
=============================================================================
