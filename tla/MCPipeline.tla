----------------------------- MODULE MCPipeline -----------------------------
(***************************************************************************)
(* Instances of the pipeline.                                               *)
(***************************************************************************)
EXTENDS Pipeline

CONSTANTS p1, p2, p3, b1, b2, b3, txt, run

Command(packages, tests, count, files, text) ==
  [packages |-> packages, tests |-> tests, count |-> count, files |-> files, text |-> text,
   parallel |-> 2]

\* Two tests of one package that overlap, with room for text and its newlines.
Overlapping == {Command({p1}, {<<"A">>, <<"B">>}, 1, 1, 3)}

\* Two recorded streams, the first of which may end inside a line.
Recorded == {Command({p1}, {<<"A">>}, 1, 2, 2)}

\* A test and its subtest run twice.
Reruns == {Command({p1}, {<<"A">>, <<"A", "x">>}, 2, 1, 1)}

\* Two packages with a test each; a package without tests.
TwoPackages == {Command({p1, p2}, {<<"A">>}, 1, 1, 0), Command({p1}, {}, 1, 1, 2)}

\* More tests, packages and executions than fit in the report.
Crowds == {Command({p1}, {<<"A">>, <<"B">>, <<"C">>}, 1, 1, 0),
           [Command({p1, p2, p3}, {<<"A">>}, 1, 1, 0) EXCEPT !.parallel = 1],
           Command({p1}, {<<"A">>}, 3, 1, 2)}

\* The reruns, the crowds, two packages, two tests of one, and two streams.
Mixed == Reruns \cup Crowds \cup TwoPackages
  \cup {Command({p1}, {<<"A">>, <<"B">>}, 1, 1, 2), Command({p1}, {<<"A">>}, 1, 2, 2)}

Streamed == Overlapping \cup Recorded

AllTests == {<<"A">>, <<"A", "x">>, <<"B">>, <<"C">>}

Letters == {<<txt>>, <<NL>>}
Lines == {<<txt, NL>>, <<Sentinel, NL>>, <<run, NL>>}
Line == {<<txt, NL>>}

Binaries == (p1 :> b1) @@ (p2 :> b2) @@ (p3 :> b3)
=============================================================================
