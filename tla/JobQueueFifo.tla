---------------------------- MODULE JobQueueFifo ----------------------------
(***************************************************************************)
(* The refinement mapping from the ring of JobQueue to the queue of        *)
(* JobFifo: a push takes effect when it stores into the ring, a pop when   *)
(* it takes from the ring or finds it drained and destroyed, a destroy     *)
(* when it raises the flag and again when it frees the array.              *)
(***************************************************************************)
EXTENDS JobQueue, Sequences

\* The jobs in the ring, oldest first: the segment that starts at tail.
Held == [i \in 1 .. filled |-> array[(tail + (i - 1)) % Size]]

Results == [c \in Consumers |-> ret[c]]

Fifo == INSTANCE JobFifo WITH queue <- Held, closed <- destroy, torn <- ~allocated,
                              result <- Results

\* job_queue.c behaves as a bounded first-in first-out queue that drains before it closes.
ImplementsFifo == Fifo!Spec
=============================================================================
