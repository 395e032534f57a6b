------------------------------ MODULE JobQueue ------------------------------
(***************************************************************************)
(* The bounded job queue of A2/job_queue.c, at the granularity at which    *)
(* its threads can be told apart: entering the mutex, waiting on one of    *)
(* the three condition variables, the data movement done under the mutex,  *)
(* and leaving it.                                                         *)
(*                                                                         *)
(* The callers are the most general client that the contract of            *)
(* job_queue.h allows: any producer pushes any job at any time, any        *)
(* consumer that has not been told to stop pops at any time, and one       *)
(* thread destroys the queue once no push is in progress, after which      *)
(* nobody pushes ("It is an error to push a job onto a queue that has been *)
(* destroyed").  Pops may be in progress, or begin, at any time before or  *)
(* after the destruction: that is how every program of A2 uses the queue.  *)
(*                                                                         *)
(* The pthread library is modelled as glibc behaves.  Locking tests the    *)
(* kind of the mutex first and only then contends for the lock word, so a  *)
(* destroyed mutex makes a later lock fail with EINVAL (the result is      *)
(* ignored by the code, which runs on without the lock), while a thread    *)
(* that was already contending still gets the lock word; unlocking a       *)
(* destroyed mutex fails with EINVAL and leaves the lock word taken.       *)
(* Destroying a mutex that has an owner or condition waiters fails with    *)
(* EBUSY and leaves it alive.                                              *)
(***************************************************************************)
EXTENDS Integers, FiniteSets

CONSTANTS Producers,   \* threads that call job_queue_push
          Consumers,   \* threads that call job_queue_pop
          Destroyer,   \* the thread that calls job_queue_destroy
          Jobs,        \* the void* values that are pushed
          Size,        \* the capacity given to job_queue_init
          None,        \* no thread; an array slot never written
          Closed       \* the -1 that job_queue_pop returns

ASSUME SizeAssumption == Size \in Nat \ {0}
ASSUME ThreadAssumption == /\ Consumers \cap Producers = {}
                           /\ Destroyer \notin Consumers
                           /\ None \notin Producers \cup Consumers \cup {Destroyer}
ASSUME JobAssumption == None \notin Jobs /\ Closed \notin Jobs /\ None # Closed

VARIABLES array,      \* the ring of slots
          head,       \* next slot to fill
          tail,       \* next slot to take
          filled,     \* number of jobs in the ring
          destroy,    \* the destroy flag
          allocated,  \* array # NULL
          owner,      \* the thread that has the mutex's lock word, or None
          mutexLive,  \* pthread_mutex_destroy has not succeeded
          op,         \* op[t]: the call t is in, or was last in
          at,         \* at[t]: where t is in that call
          ret         \* ret[t]: the job in hand of a push, the result of a pop

vars == <<array, head, tail, filled, destroy, allocated, owner, mutexLive, op, at, ret>>

Threads == Producers \cup Consumers \cup {Destroyer}
Slots == 0 .. Size - 1
Ops == {"none", "push", "pop", "destroy"}
Places == {"idle", "blocked", "mark", "loop", "body", "waiting", "relock", "unlock", "teardown"}

TypeOK == /\ array \in [Slots -> Jobs \cup {None}]
          /\ head \in Slots /\ tail \in Slots
          /\ filled \in 0 .. Size
          /\ destroy \in BOOLEAN /\ allocated \in BOOLEAN /\ mutexLive \in BOOLEAN
          /\ owner \in Threads \cup {None}
          /\ op \in [Threads -> Ops]
          /\ at \in [Threads -> Places]
          /\ ret \in [Threads -> Jobs \cup {None, Closed}]

Init == /\ array = [i \in Slots |-> None]
        /\ head = 0 /\ tail = 0 /\ filled = 0
        /\ destroy = FALSE /\ allocated = TRUE
        /\ owner = None /\ mutexLive = TRUE
        /\ op = [t \in Threads |-> "none"]
        /\ at = [t \in Threads |-> "idle"]
        /\ ret = [t \in Threads |-> None]

ring == <<array, head, tail, filled, destroy, allocated>>

-----------------------------------------------------------------------------
(* The condition variables: each is waited on by one operation only        *)
(* (push on notfull, pop on notempty, destroy on empty), so a waiter is    *)
(* identified by the operation it is in.                                   *)

\* Faulty loop tests, for testing the properties: a destroy that does not wait for the queue to
\* drain, a push that never waits, a pop that never waits.
MustWaitNoDrain(t) == (op[t] = "push" /\ filled = Size) \/ (op[t] = "pop" /\ filled = 0 /\ ~destroy)
MustWaitNotFull(t) == (op[t] = "destroy" /\ filled > 0) \/ (op[t] = "pop" /\ filled = 0 /\ ~destroy)
MustWaitNotEmpty(t) == (op[t] = "destroy" /\ filled > 0) \/ (op[t] = "push" /\ filled = Size)

\* The test of the while loop around each pthread_cond_wait.
MustWait(t) == \/ op[t] = "push" /\ filled = Size
               \/ op[t] = "pop" /\ filled = 0 /\ ~destroy
               \/ op[t] = "destroy" /\ filled > 0

\* Faulty: the broadcast is forgotten.
BroadcastNone(os, t, p) == [at EXCEPT ![t] = p]

\* at' when t goes to p and every thread waiting in one of the operations os is woken.
Broadcast(os, t, p) ==
  [u \in Threads |-> IF u = t THEN p
                     ELSE IF at[u] = "waiting" /\ op[u] \in os THEN "relock"
                     ELSE at[u]]

-----------------------------------------------------------------------------
(* Entering: the call and the test of the mutex's kind.                    *)

Enter(t, o) == /\ op' = [op EXCEPT ![t] = o]
               /\ at' = [at EXCEPT ![t] = IF mutexLive THEN "blocked" ELSE "loop"]
               /\ UNCHANGED <<ring, owner, mutexLive>>

BeginPush(t, j) == at[t] = "idle" /\ ret' = [ret EXCEPT ![t] = j] /\ Enter(t, "push")
BeginPop(t) == at[t] = "idle" /\ UNCHANGED ret /\ Enter(t, "pop")
BeginDestroy(t) == at[t] = "idle" /\ UNCHANGED ret /\ Enter(t, "destroy")

\* The contract: one destroy, with no push in progress or to come; no pop after a failed one.
Closing == op[Destroyer] = "destroy"
CallPush(t, j) == ~Closing /\ BeginPush(t, j)
CallPop(t) == ret[t] # Closed /\ BeginPop(t)
CallDestroy(t) == ~Closing /\ (\A p \in Producers : at[p] = "idle") /\ BeginDestroy(t)

\* The lock word is won, first in pthread_mutex_lock, then at the end of pthread_cond_wait.
Acquire(t) == /\ at[t] \in {"blocked", "relock"} /\ owner = None
              /\ owner' = t
              /\ at' = [at EXCEPT ![t] = IF @ = "blocked" /\ op[t] = "destroy"
                                           THEN "mark" ELSE "loop"]
              /\ UNCHANGED <<ring, mutexLive, op, ret>>

\* job_queue_destroy raises the flag and wakes every pop.
Mark(t) == /\ at[t] = "mark"
           /\ destroy' = TRUE
           /\ at' = Broadcast({"pop"}, t, "loop")
           /\ UNCHANGED <<array, head, tail, filled, allocated, owner, mutexLive, op, ret>>

-----------------------------------------------------------------------------
(* The while loop of each operation.                                       *)

Wait(t) == /\ at[t] = "loop" /\ MustWait(t)
           /\ at' = [at EXCEPT ![t] = "waiting"]
           /\ owner' = None
           /\ UNCHANGED <<ring, mutexLive, op, ret>>

\* A condition wait may return although nobody signalled it.
SpuriousWakeup(t) == /\ at[t] = "waiting"
                     /\ at' = [at EXCEPT ![t] = "relock"]
                     /\ UNCHANGED <<ring, owner, mutexLive, op, ret>>

Proceed(t) == /\ at[t] = "loop" /\ ~MustWait(t)
              /\ ~(op[t] = "pop" /\ filled = 0)
              /\ at' = [at EXCEPT ![t] = "body"]
              /\ UNCHANGED <<ring, owner, mutexLive, op, ret>>

\* A pop that finds the queue empty and destroyed reports -1.
GiveUp(t) == /\ at[t] = "loop" /\ ~MustWait(t)
             /\ op[t] = "pop" /\ filled = 0
             /\ ret' = [ret EXCEPT ![t] = Closed]
             /\ at' = [at EXCEPT ![t] = "unlock"]
             /\ UNCHANGED <<ring, owner, mutexLive, op>>

-----------------------------------------------------------------------------
(* The data movement of each operation, with its broadcasts.               *)

\* Faulty: the index is not wrapped.
AfterNoWrap(i) == i + 1

\* The slot after slot i.
After(i) == (i + 1) % Size

Store(t) == /\ at[t] = "body" /\ op[t] = "push"
            /\ array' = [array EXCEPT ![head] = ret[t]]
            /\ head' = After(head)
            /\ filled' = filled + 1
            /\ at' = Broadcast({"pop"}, t, "unlock")
            /\ UNCHANGED <<tail, destroy, allocated, owner, mutexLive, op, ret>>

Take(t) == /\ at[t] = "body" /\ op[t] = "pop"
           /\ ret' = [ret EXCEPT ![t] = array[tail]]
           /\ tail' = After(tail)
           /\ filled' = filled - 1
           /\ at' = Broadcast(IF filled = 1 THEN {"push", "destroy"} ELSE {"push"}, t, "unlock")
           /\ UNCHANGED <<array, head, destroy, allocated, owner, mutexLive, op>>

Free(t) == /\ at[t] = "body" /\ op[t] = "destroy"
           /\ allocated' = FALSE
           /\ at' = [at EXCEPT ![t] = "unlock"]
           /\ UNCHANGED <<array, head, tail, filled, destroy, owner, mutexLive, op, ret>>

-----------------------------------------------------------------------------
(* Leaving.                                                                *)

Unlock(t) == /\ at[t] = "unlock"
             /\ owner' = IF mutexLive THEN None ELSE owner
             /\ at' = [at EXCEPT ![t] = IF op[t] = "destroy" THEN "teardown" ELSE "idle"]
             /\ UNCHANGED <<ring, mutexLive, op, ret>>

\* Threads counted by the mutex: its owner, and everyone inside a condition wait.
MutexUsers == {t \in Threads : owner = t \/ at[t] \in {"waiting", "relock"}}

DestroyMutex(t) == /\ at[t] = "teardown"
                   /\ mutexLive' = (MutexUsers # {})
                   /\ at' = [at EXCEPT ![t] = "idle"]
                   /\ UNCHANGED <<ring, owner, op, ret>>

-----------------------------------------------------------------------------
\* The steps a thread takes by itself once it is in a call.
Step(t) == \/ Acquire(t) \/ Mark(t)
           \/ Wait(t) \/ Proceed(t) \/ GiveUp(t)
           \/ Store(t) \/ Take(t) \/ Free(t)
           \/ Unlock(t) \/ DestroyMutex(t)

Next == \/ \E t \in Producers, j \in Jobs : CallPush(t, j)
        \/ \E t \in Consumers : CallPop(t)
        \/ CallDestroy(Destroyer)
        \/ \E t \in Threads : Step(t) \/ SpuriousWakeup(t)

Spec == Init /\ [][Next]_vars

-----------------------------------------------------------------------------
(* Correctness.                                                            *)

InCritical(t) == at[t] \in {"mark", "loop", "body", "unlock"}

\* Two threads are inside the critical sections of lines 23-40, 47-60 and 65-86 at once only
\* after the mutex is gone, and then none of them is about to touch the ring: a pop that
\* runs on an EINVAL lock can do nothing but return -1.
MutualExclusion ==
  \A t, u \in Threads : (t # u /\ InCritical(t) /\ InCritical(u))
                           => ~mutexLive /\ at[t] # "body" /\ at[u] # "body"

\* No push or pop reads or writes the array after job_queue_destroy has freed it (line 32).
NoUseAfterFree == \A t \in Threads : (at[t] = "body" /\ op[t] \in {"push", "pop"}) => allocated

\* The indices describe the same segment as the count (lines 55-56 and 77-78), and each slot
\* of the segment holds a job that was pushed.
RingConsistent == /\ head = (tail + filled) % Size
                  /\ \A i \in Slots : i < filled => array[(tail + i) % Size] \in Jobs

\* A thread sleeping in pthread_cond_wait is one whose loop condition holds: whoever made the
\* condition false has broadcast (lines 25, 59, 81, 85), so no wakeup is ever lost.
NoLostWakeup == \A t \in Threads : at[t] = "waiting" => MustWait(t)

\* When the condition variables and the mutex are torn down (lines 36-41) no thread sleeps on
\* one of them, which POSIX leaves undefined and glibc would block on.
NobodyWaitsOnDestroyed == ~allocated => \A t \in Threads : at[t] # "waiting"

\* A pop reports -1 only when the queue was destroyed with nothing left in it (lines 67-74):
\* jobs pushed before the destruction are not dropped.
ClosedMeansDrained == (\E t \in Threads : ret[t] = Closed) => destroy /\ filled = 0

\* A job is never overwritten or skipped: a slot of the segment keeps its value until it is
\* at the tail and taken.
SlotsStable ==
  [][\A i \in Slots : (i < filled /\ ~(i = 0 /\ filled' < filled))
        => array'[(tail + i) % Size] = array[(tail + i) % Size]]_vars

-----------------------------------------------------------------------------
(* The inductive invariant behind the safety properties.                   *)

InCall(t, o) == op[t] = o /\ at[t] # "idle"

\* Who can be in which call, and where the two places only destroy visits are.
InvCalls ==
  \A t \in Threads :
    /\ op[t] = "push" => t \in Producers
    /\ op[t] = "pop" => t \in Consumers
    /\ op[t] = "destroy" => t = Destroyer
    /\ at[t] # "idle" => op[t] # "none"
    /\ at[t] \in {"mark", "teardown"} => op[t] = "destroy"
    /\ InCall(t, "push") => ~Closing /\ ret[t] \in Jobs
    /\ t \in Producers => ret[t] # Closed

\* How far the destruction has come, told by where the destroyer is.
InvPhases ==
  /\ destroy => Closing /\ at[Destroyer] \notin {"blocked", "mark"}
  /\ (InCall(Destroyer, "destroy") /\ at[Destroyer] \notin {"blocked", "mark"}) => destroy
  /\ (InCall(Destroyer, "destroy") /\ at[Destroyer] \in {"unlock", "teardown"}) => ~allocated
  /\ ~allocated => destroy /\ filled = 0 /\ at[Destroyer] \in {"unlock", "teardown", "idle"}
  /\ ~mutexLive => ~allocated /\ at[Destroyer] = "idle"

\* While the mutex lives its lock word tells who is inside; once it is gone only pops that
\* have nothing to do but report -1 are, and none sleeps.
InvLock ==
  /\ mutexLive => \A t \in Threads : InCritical(t) <=> owner = t
  /\ ~mutexLive => \A t \in Threads : at[t] \in {"idle", "blocked", "loop", "unlock"}

\* What a thread has established when it reaches the data movement.
InvBody == \A t \in Threads : at[t] = "body" =>
             /\ op[t] = "push" => filled < Size
             /\ op[t] = "pop" => filled > 0
             /\ op[t] = "destroy" => filled = 0

IInv == /\ TypeOK /\ InvCalls /\ InvPhases /\ InvLock /\ InvBody
        /\ RingConsistent /\ NoLostWakeup /\ ClosedMeansDrained
=============================================================================
