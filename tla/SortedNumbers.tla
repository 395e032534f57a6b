---------------------------- MODULE SortedNumbers -----------------------------
(* What the program of A6/radix.c computes: an entry that is not negative  *)
(* is a number to keep, an entry -k takes out the k smallest of those that *)
(* are kept, in batches.                                                   *)
EXTENDS Integers, Sequences

CONSTANTS Numbers, Batch

VARIABLES doing, \* "main", "add", "take", "write" or "ended"
          entry, \* the entry of the input file that is worked on
          count, \* how often each number is kept
          limit, \* how many are still to be taken out
          batch  \* the numbers taken out and not written yet

vars == <<doing, entry, count, limit, batch>>

Empty == [n \in Numbers |-> 0]

Init == doing = "main" /\ entry = 0 /\ count = Empty /\ limit = 0 /\ batch = <<>>

Read(n) == /\ doing = "main" /\ doing' = "add" /\ entry' = n
           /\ UNCHANGED <<count, limit, batch>>

Add == /\ doing = "add" /\ doing' = "main" /\ count' = [count EXCEPT ![entry] = @ + 1]
       /\ UNCHANGED <<entry, limit, batch>>

Ask(k) == /\ doing = "main" /\ doing' = "take" /\ entry' = -k /\ limit' = k
          /\ UNCHANGED <<count, batch>>

Room == Len(batch) < limit /\ Len(batch) < Batch

\* The smallest that is kept is taken.
Take(n) == /\ doing = "take" /\ Room /\ count[n] > 0 /\ \A m \in Numbers : m < n => count[m] = 0
           /\ count' = [count EXCEPT ![n] = @ - 1] /\ batch' = Append(batch, n)
           /\ UNCHANGED <<doing, entry, limit>>

\* A batch ends when there is no room left in it or no number.
Full == /\ doing = "take" /\ (Room => count = Empty) /\ doing' = "write"
        /\ UNCHANGED <<entry, count, limit, batch>>

\* An entry is done when all have been taken, or none were there.
Write == /\ doing = "write" /\ batch' = <<>>
         /\ limit' = IF batch = <<>> THEN 0 ELSE limit - Len(batch)
         /\ doing' = IF limit' = 0 THEN "main" ELSE "take"
         /\ UNCHANGED <<entry, count>>

\* At the end of the input what is still kept is dropped.
Stop == /\ doing = "main" /\ doing' = "ended" /\ count' = Empty
        /\ UNCHANGED <<entry, limit, batch>>

Next == (\E n \in Numbers : Read(n) \/ Take(n)) \/ Add \/ (entry' < 0 /\ Ask(-entry')) \/ Full \/ Write \/ Stop

Spec == Init /\ [][Next]_vars
=============================================================================
