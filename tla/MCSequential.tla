---------------------------- MODULE MCSequential -----------------------------
(* The sequential programs of A0, A1 and A6 and the input and output of    *)
(* the C programs of A4 side by side: program says which of them runs, and *)
(* the others stay as they begin.                                          *)
EXTENDS RadixTree, IdQuery, CoordQuery, FileType, BufferedIo

VARIABLE program

CONSTANT Programs \* those that are run

\* A small degree for CoordQuery: two parts, with points that differ by less than it.
MCPoints == {<<0, 0>>, <<2, 4>>, <<4, 2>>, <<4, 3>>}

SeqInit == program \in Programs /\ Init /\ QInit /\ KInit /\ FInit /\ IInit

Runs(p, Step, others) == program = p /\ Step /\ UNCHANGED <<program, others>>

SeqNext == \/ Runs("radix", Next, <<qvars, kvars, fvars, ivars>>)
           \/ Runs("id", QNext, <<vars, kvars, fvars, ivars>>)
           \/ Runs("coord", KNext, <<vars, qvars, fvars, ivars>>)
           \/ Runs("file", FNext, <<vars, qvars, kvars, ivars>>)
           \/ Runs("io", INext, <<vars, qvars, kvars, fvars>>)

SeqSpec == SeqInit /\ [][SeqNext]_<<program, vars, qvars, kvars, fvars, ivars>>
=============================================================================
