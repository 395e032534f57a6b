----------------------------- MODULE Histogram ------------------------------
(***************************************************************************)
(* The shared histogram of A2/fhistogram-mt.c.  Each worker takes files    *)
(* off the job queue (here the first-in first-out queue that JobQueue      *)
(* implements), counts the bits of each byte in a histogram of its own and *)
(* merges that into the global one, every Period bytes and at the end of   *)
(* the file.  No lock is held around a merge, so the read, the addition    *)
(* and the write of `to[i] += from[i]' are separate steps here, as they    *)
(* are separate instructions in the compiled program.  The first kind of   *)
(* merge prints under stdout_mutex, the second prints without it.  The -n  *)
(* option says how many of the workers are started.                        *)
(***************************************************************************)
EXTENDS Integers, Sequences, FiniteSets

CONSTANTS Workers,
          Bins,     \* the highest bin; a byte is the set of the bins it counts in
          Files,    \* the sequences of bytes a file can hold
          MaxFiles, \* bound on the number of files given to the program
          Period,   \* bytes between two merges, 200000 in the code
          Nobody    \* the owner of stdout_mutex when it is free

ASSUME BinsAssumption == Bins \in Nat /\ Period \in Nat \ {0} /\ MaxFiles \in Nat
ASSUME FilesAssumption == Files \subseteq Seq(SUBSET (0 .. Bins))
ASSUME WorkersAssumption == IsFiniteSet(Workers) /\ Nobody \notin Workers

VARIABLES queue,       \* files not popped yet
          global,      \* global_histogram
          pc,          \* pc[w]: where worker w is
          rest,        \* rest[w]: bytes of its file it has not read
          i,           \* i[w]: bytes of its file it has read
          local,       \* local[w]: local_histogram
          bin,         \* bin[w]: the loop variable of merge_histogram
          loaded,      \* loaded[w]: global_histogram[bin] as it was loaded
          eof,         \* eof[w]: the merge is the one after the loop
          stdoutOwner, \* the owner of stdout_mutex
          seen         \* bits counted by all the workers (history)

histogramVars == <<queue, global, pc, rest, i, local, bin, loaded, eof, stdoutOwner, seen>>
mergeVars == <<bin, loaded>>
fileVars == <<rest, i, eof>>

Zero == [b \in 0 .. Bins |-> 0]

HistogramInit == /\ queue \in UNION {[1 .. n -> Files] : n \in 0 .. MaxFiles}
                 /\ global = Zero /\ seen = Zero
                 /\ \E started \in (SUBSET Workers) \ {{}} :
                      pc = [w \in Workers |-> IF w \in started THEN "pop" ELSE "none"]
                 /\ rest = [w \in Workers |-> <<>>]
                 /\ i = [w \in Workers |-> 0]
                 /\ local = [w \in Workers |-> Zero]
                 /\ bin = [w \in Workers |-> 0]
                 /\ loaded = [w \in Workers |-> 0]
                 /\ eof = [w \in Workers |-> FALSE]
                 /\ stdoutOwner = Nobody

Goto(w, p) == pc' = [pc EXCEPT ![w] = p]

\* A file is popped and opened.
Open(w) == /\ pc[w] = "pop" /\ queue # <<>>
           /\ queue' = Tail(queue)
           /\ rest' = [rest EXCEPT ![w] = Head(queue)]
           /\ i' = [i EXCEPT ![w] = 0]
           /\ eof' = [eof EXCEPT ![w] = FALSE]
           /\ local' = [local EXCEPT ![w] = Zero]
           /\ Goto(w, "read")
           /\ UNCHANGED <<global, mergeVars, stdoutOwner, seen>>

\* A file is popped that cannot be opened: a warning, and the next job.
OpenFails(w) == /\ pc[w] = "pop" /\ queue # <<>>
                /\ queue' = Tail(queue)
                /\ UNCHANGED <<global, pc, fileVars, local, mergeVars, stdoutOwner, seen>>

Stop(w) == /\ pc[w] = "pop" /\ queue = <<>>
           /\ Goto(w, "exit")
           /\ UNCHANGED <<queue, global, fileVars, local, mergeVars, stdoutOwner, seen>>

\* One byte is read and counted; every Period-th starts a merge.
Count(w) == /\ pc[w] = "read" /\ rest[w] # <<>>
            /\ LET Plus(h) == [b \in 0 .. Bins |-> h[b] + IF b \in Head(rest[w]) THEN 1 ELSE 0]
               IN  /\ local' = [local EXCEPT ![w] = Plus(@)]
                   /\ seen' = Plus(seen)
            /\ rest' = [rest EXCEPT ![w] = Tail(@)]
            /\ i' = [i EXCEPT ![w] = @ + 1]
            /\ bin' = [bin EXCEPT ![w] = 0]
            /\ Goto(w, IF (i[w] + 1) % Period = 0 THEN "load" ELSE "read")
            /\ UNCHANGED <<queue, global, loaded, eof, stdoutOwner>>

\* The end of the file: the last merge.
EndOfFile(w) == /\ pc[w] = "read" /\ rest[w] = <<>>
                /\ eof' = [eof EXCEPT ![w] = TRUE]
                /\ bin' = [bin EXCEPT ![w] = 0]
                /\ Goto(w, "load")
                /\ UNCHANGED <<queue, global, rest, i, local, loaded, stdoutOwner, seen>>

-----------------------------------------------------------------------------
(* merge_histogram(local, global), bin by bin.                             *)

LoadBin(w) == /\ pc[w] = "load"
              /\ loaded' = [loaded EXCEPT ![w] = global[bin[w]]]
              /\ Goto(w, "store")
              /\ UNCHANGED <<queue, global, fileVars, local, bin, stdoutOwner, seen>>

StoreBin(w) == /\ pc[w] = "store"
               /\ global' = [global EXCEPT ![bin[w]] = loaded[w] + local[w][bin[w]]]
               /\ Goto(w, "clear")
               /\ UNCHANGED <<queue, fileVars, local, mergeVars, stdoutOwner, seen>>

\* Faulty: the former histogram keeps its counts.
ClearNot(w) == /\ pc[w] = "clear"
               /\ bin' = [bin EXCEPT ![w] = @ + 1]
               /\ Goto(w, IF bin[w] < Bins THEN "load" ELSE IF eof[w] THEN "print" ELSE "lock")
               /\ UNCHANGED <<queue, global, fileVars, local, loaded, stdoutOwner, seen>>

Clear(w) == /\ pc[w] = "clear"
            /\ local' = [local EXCEPT ![w][bin[w]] = 0]
            /\ bin' = [bin EXCEPT ![w] = @ + 1]
            /\ Goto(w, IF bin[w] < Bins THEN "load" ELSE IF eof[w] THEN "print" ELSE "lock")
            /\ UNCHANGED <<queue, global, fileVars, loaded, stdoutOwner, seen>>

-----------------------------------------------------------------------------
(* print_histogram(global).                                                *)

LockStdout(w) == /\ pc[w] = "lock" /\ stdoutOwner = Nobody
                 /\ stdoutOwner' = w
                 /\ Goto(w, "print")
                 /\ UNCHANGED <<queue, global, fileVars, local, mergeVars, seen>>

\* The print ends, the mutex is released if it was taken, and the worker goes on.
Printed(w) == /\ pc[w] = "print"
              /\ stdoutOwner' = IF eof[w] THEN stdoutOwner ELSE Nobody
              /\ Goto(w, IF eof[w] THEN "pop" ELSE "read")
              /\ UNCHANGED <<queue, global, fileVars, local, mergeVars, seen>>

Worker(w) == \/ Open(w) \/ OpenFails(w) \/ Stop(w)
             \/ Count(w) \/ EndOfFile(w)
             \/ LoadBin(w) \/ StoreBin(w) \/ Clear(w)
             \/ LockStdout(w) \/ Printed(w)

HistogramNext == \E w \in Workers : Worker(w)

HistogramSpec == HistogramInit /\ [][HistogramNext]_histogramVars

-----------------------------------------------------------------------------
(* Correctness.                                                            *)

Started == {w \in Workers : pc[w] # "none"}
Done == \A w \in Started : pc[w] = "exit"

\* histogram.h:50-51: merging adds the former histogram to the latter.  At the end of the
\* program the global histogram therefore holds every bit the workers counted.
ExactTotal == Done => global = seen

\* With one worker, as in the sequential fhistogram.c, this holds, whether a file's last merge
\* follows one in the loop at once, or has nothing to merge at all.
ExactWithOne == Cardinality(Started) = 1 => ExactTotal

\* What worker w has counted in bin b and not yet written to the global histogram.
Unmerged(w, b) == IF pc[w] = "clear" /\ bin[w] = b THEN 0 ELSE local[w][b]

\* The counts for bin b in the workers' hands, one by one.
Pending(b) == UNION {{w} \X (1 .. Unmerged(w, b)) : w \in Workers}

\* Races lose counts but never invent any: the global histogram and what is still in the
\* workers' hands never exceed what was counted.
NeverOvercounts == \A b \in 0 .. Bins : global[b] + Cardinality(Pending(b)) <= seen[b]

-----------------------------------------------------------------------------
(* The inductive invariant behind the two.                                 *)

Histograms == [0 .. Bins -> Nat]

HistogramTypeOK == /\ queue \in Seq(Files)
                   /\ global \in Histograms /\ seen \in Histograms
                   /\ pc \in [Workers -> {"none", "pop", "read", "load", "store", "clear", "lock", "print",
                                          "exit"}]
                   /\ rest \in [Workers -> Seq(SUBSET (0 .. Bins))]
                   /\ i \in [Workers -> Nat]
                   /\ local \in [Workers -> Histograms]
                   /\ bin \in [Workers -> Nat]
                   /\ \A w \in Workers : pc[w] \in {"load", "store", "clear"} => bin[w] <= Bins
                   /\ loaded \in [Workers -> Nat]
                   /\ eof \in [Workers -> BOOLEAN]
                   /\ stdoutOwner \in Workers \cup {Nobody}

\* A load is older than the store it is for: what others have merged in between is lost.
LoadedOK == \A w \in Workers : pc[w] = "store" =>
              loaded[w] + Cardinality(Pending(bin[w])) <= seen[bin[w]]

\* Between merges nothing is left over, and nobody else loads or stores.
Alone(w) == pc[w] # "none" /\ \A v \in Workers \ {w} : pc[v] = "none"
AloneOK == \A w \in Workers : Alone(w) =>
             /\ \A b \in 0 .. Bins : global[b] + Unmerged(w, b) = seen[b]
             /\ pc[w] = "store" => loaded[w] = global[bin[w]]
             /\ pc[w] \in {"load", "store", "clear"} => \A b \in 0 .. Bins : b < bin[w] => local[w][b] = 0
             /\ pc[w] \in {"lock", "print", "pop", "exit"} => \A b \in 0 .. Bins : local[w][b] = 0

InvHistogram == HistogramTypeOK /\ NeverOvercounts /\ LoadedOK /\ AloneOK
=============================================================================
