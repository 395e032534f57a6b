---------------------------- MODULE MCStructures -----------------------------
(* What the threads of A2 share, the job queue with the queue it           *)
(* implements and the histogram, and the assembly table of A5, side by     *)
(* side: structure says which of them is used, and the others stay as they *)
(* begin.                                                                  *)
EXTENDS JobQueueFifo, Histogram, AssemblyTable

VARIABLE structure

\* Every file of at most two bytes, and one that is merged in the middle and again at its end.
ShortFiles == UNION {[1 .. n -> SUBSET (0 .. 1)] : n \in 0 .. 2}
LongFiles == ShortFiles \cup {<<{0}, {0, 1}, {1}>>}

\* The files and the threads of the histogram are chosen only where they are used.
StructuresInit == /\ structure \in {"queue", "histogram", "table"}
                  /\ Init /\ HistogramInit /\ TableInit
                  /\ structure # "histogram" => queue = <<>> /\ Started = Workers

Uses(s, Action, others) == structure = s /\ Action /\ UNCHANGED <<structure, others>>

StructuresNext == \/ Uses("queue", Next, <<histogramVars, tableVars>>)
                  \/ Uses("histogram", HistogramNext, <<vars, tableVars>>)
                  \/ Uses("table", TableNext, <<vars, histogramVars>>)

\* Fair to the table, which is to stop growing.
StructuresSpec == /\ StructuresInit
                  /\ [][StructuresNext]_<<structure, vars, histogramVars, tableVars>>
                  /\ WF_tableVars(Grow)
=============================================================================
