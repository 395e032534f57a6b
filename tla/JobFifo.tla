------------------------------ MODULE JobFifo ------------------------------
(***************************************************************************)
(* What the job queue of A2 promises its callers: a bounded first-in       *)
(* first-out queue that is closed once, that still hands out everything it *)
(* holds after it is closed, and that answers Closed only when it is both  *)
(* closed and empty.  JobQueue implements it.                              *)
(***************************************************************************)
EXTENDS Integers, Sequences

CONSTANTS Consumers, Jobs, Size, None, Closed

VARIABLES queue,   \* the jobs held, oldest first
          closed,  \* job_queue_destroy has been called
          torn,    \* job_queue_destroy has freed the queue
          result   \* result[c]: what the last pop of c returned

vars == <<queue, closed, torn, result>>

Init == /\ queue = <<>> /\ closed = FALSE /\ torn = FALSE
        /\ result = [c \in Consumers |-> None]

Put == /\ ~closed /\ Len(queue) < Size
       /\ \E j \in Jobs : queue' = Append(queue, j)
       /\ UNCHANGED <<closed, torn, result>>

Get(c) == /\ ~torn /\ queue # <<>>
          /\ queue' = Tail(queue)
          /\ result' = [result EXCEPT ![c] = Head(queue)]
          /\ UNCHANGED <<closed, torn>>

GetClosed(c) == /\ closed /\ queue = <<>>
                /\ result' = [result EXCEPT ![c] = Closed]
                /\ UNCHANGED <<queue, closed, torn>>

Close == /\ ~closed /\ closed' = TRUE
         /\ UNCHANGED <<queue, torn, result>>

Tear == /\ closed /\ queue = <<>> /\ ~torn /\ torn' = TRUE
        /\ UNCHANGED <<queue, closed, result>>

Next == \/ Put \/ Close \/ Tear
        \/ \E c \in Consumers : Get(c) \/ GetClosed(c)

Spec == Init /\ [][Next]_vars
=============================================================================
