------------------------------ MODULE MCBuilder ------------------------------
(***************************************************************************)
(* The run model fed with every sequence of at most MaxEvents events.       *)
(***************************************************************************)
EXTENDS Builder

CONSTANT MaxEvents

VARIABLE events

MCTests == {<<"A">>, <<"A", "x">>}
MCChunks == {<<Panic>>, <<Banner, NL>>, <<NL>>}

MCInit == BuilderInit /\ events = 0

MCAdd == /\ events < MaxEvents
         /\ events' = events + 1
         /\ \E ev \in Event : Add(ev)

MCFinish == Finish /\ UNCHANGED events

MCSpec == MCInit /\ [][MCAdd \/ MCFinish]_<<builderVars, events>>
=============================================================================
