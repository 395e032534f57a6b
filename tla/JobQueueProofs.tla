--------------------------- MODULE JobQueueProofs ---------------------------
(* Theorems about JobQueue, for every capacity and every set of threads:   *)
(* its safety properties, and that it implements JobFifo.  Then theorems   *)
(* about the programs of WorkerPool, for every input, capacity and number  *)
(* of workers: they keep the contract of the queue, and every job is in    *)
(* exactly one place.                                                      *)
EXTENDS JobQueueFifo, WorkerPool, SequenceTheorems, FiniteSetTheorems, TLAPS

-----------------------------------------------------------------------------
(* Arithmetic on the ring.                                                 *)

(* An index below the capacity is itself modulo the capacity (job_queue.c:55 and 77). *)
LEMMA ModSmall == ASSUME NEW n \in Slots PROVE n % Size = n
BY SizeAssumption DEF Slots

(* An index below twice the capacity wraps exactly once (job_queue.c:55 and 77). *)
LEMMA ModWrap == ASSUME NEW n \in Size .. 2 * Size - 1 PROVE n % Size = n - Size
BY SizeAssumption

(* The offset k from slot a is a slot, and moving either end by one moves the sum by one. *)
LEMMA NextSlot ==
  ASSUME NEW a \in Slots, NEW k \in Slots
  PROVE  /\ (a + k) % Size \in Slots
         /\ (((a + k) % Size) + 1) % Size = (a + (k + 1)) % Size
         /\ (a + 1) % Size \in Slots
         /\ (((a + 1) % Size) + k) % Size = (a + (k + 1)) % Size
<1> USE SizeAssumption DEF Slots
<1>1. /\ (a + k) % Size \in Slots
      /\ (a + k) % Size = IF a + k < Size THEN a + k ELSE a + k - Size
  <2>1. CASE a + k < Size BY <2>1, ModSmall
  <2>2. CASE a + k >= Size BY <2>2, ModWrap
  <2> QED BY <2>1, <2>2
<1>2. /\ (a + 1) % Size \in Slots
      /\ (a + 1) % Size = IF a + 1 < Size THEN a + 1 ELSE 0
  <2>1. CASE a + 1 < Size BY <2>1, ModSmall
  <2>2. CASE a + 1 = Size
    <3>1. a + 1 \in Size .. 2 * Size - 1 BY <2>2
    <3> QED BY <3>1, <2>2, ModWrap
  <2> QED BY <2>1, <2>2
<1>3. (a + (k + 1)) % Size = IF a + k + 1 < Size THEN a + k + 1 ELSE a + k + 1 - Size
  <2>1. CASE a + k + 1 < Size BY <2>1, ModSmall
  <2>2. CASE a + k + 1 >= Size
    <3>1. a + (k + 1) \in Size .. 2 * Size - 1 BY <2>2
    <3> QED BY <3>1, <2>2, ModWrap
  <2> QED BY <2>1, <2>2
<1>4. (((a + k) % Size) + 1) % Size = (a + (k + 1)) % Size
  <2>1. CASE a + k + 1 < Size BY <2>1, <1>1, <1>3
  <2>2. CASE a + k + 1 = Size
    <3>1. ((a + k) % Size) + 1 = Size BY <2>2, <1>1
    <3>2. Size % Size = 0 BY ModWrap
    <3> QED BY <3>1, <3>2, <1>3, <2>2
  <2>3. CASE a + k + 1 > Size
    <3>1. ((a + k) % Size) + 1 = a + k + 1 - Size BY <2>3, <1>1
    <3>2. a + k + 1 - Size \in Slots BY <2>3
    <3>3. (a + k + 1 - Size) % Size = a + k + 1 - Size BY <3>2, ModSmall
    <3> QED BY <3>1, <3>3, <1>3, <2>3
  <2> QED BY <2>1, <2>2, <2>3
<1>5. (((a + 1) % Size) + k) % Size = (a + (k + 1)) % Size
  <2>1. CASE a + 1 < Size BY <2>1, <1>2
  <2>2. CASE a + 1 = Size
    <3>1. ((a + 1) % Size) + k = k BY <2>2, <1>2
    <3>2. k % Size = k BY ModSmall
    <3> QED BY <3>1, <3>2, <1>3, <2>2
  <2> QED BY <2>1, <2>2
<1> QED BY <1>1, <1>2, <1>4, <1>5

(* Different offsets below the capacity are different slots. *)
LEMMA ModDistinct ==
  ASSUME NEW a \in Slots, NEW i \in Slots, NEW k \in Slots, i < k
  PROVE  (a + i) % Size # (a + k) % Size
<1> USE SizeAssumption DEF Slots
<1>1. (a + i) % Size = IF a + i < Size THEN a + i ELSE a + i - Size
  <2>1. CASE a + i < Size BY <2>1, ModSmall
  <2>2. CASE a + i >= Size BY <2>2, ModWrap
  <2> QED BY <2>1, <2>2
<1>2. (a + k) % Size = IF a + k < Size THEN a + k ELSE a + k - Size
  <2>1. CASE a + k < Size BY <2>1, ModSmall
  <2>2. CASE a + k >= Size BY <2>2, ModWrap
  <2> QED BY <2>1, <2>2
<1> QED BY <1>1, <1>2

-----------------------------------------------------------------------------
(* The inductive invariant.                                                *)

(* A queue fresh from job_queue_init satisfies the inductive invariant. *)
LEMMA InitInv == Init => IInv
<1> SUFFICES ASSUME Init PROVE IInv OBVIOUS
<1> USE SizeAssumption, ThreadAssumption, JobAssumption
        DEF Init, Threads, Slots
<1>1. TypeOK
  <2>1. 0 \in Slots /\ 0 \in 0 .. Size OBVIOUS
  <2> QED BY <2>1 DEF TypeOK, Ops, Places
<1>2. InvCalls /\ InvPhases /\ InvLock /\ InvBody
  BY DEF InvCalls, InvPhases, InvLock, InvBody, InCall, InCritical, Closing
<1>3. RingConsistent
  <2>1. 0 % Size = 0 BY ModSmall
  <2> QED BY <2>1 DEF RingConsistent
<1>4. NoLostWakeup /\ ClosedMeansDrained BY DEF NoLostWakeup, ClosedMeansDrained
<1> QED BY <1>1, <1>2, <1>3, <1>4 DEF IInv

LEMMA CallPushInv == ASSUME IInv, NEW t \in Producers, NEW j \in Jobs, CallPush(t, j) PROVE IInv'
<1> USE SizeAssumption, ThreadAssumption, JobAssumption
        DEF IInv, CallPush, BeginPush, Enter, Threads, Slots, ring, Closing
<1>1. TypeOK' BY DEF TypeOK, Ops, Places, InvCalls
<1>2. InvCalls' BY DEF TypeOK, Ops, Places, InvCalls, InCall
<1>3. InvPhases' BY DEF TypeOK, Ops, Places, InvCalls, InvPhases, InCall, InvBody
<1>4. InvLock' BY DEF TypeOK, Ops, Places, InvCalls, InvPhases, InvLock, InCall, InCritical, MustWait
<1>5. InvBody' BY DEF TypeOK, Ops, Places, InvCalls, InvPhases, InvLock, InvBody, InCritical, MustWait
<1>6. RingConsistent' BY DEF TypeOK, RingConsistent
<1>7. NoLostWakeup' BY DEF TypeOK, Ops, Places, InvCalls, InvPhases, NoLostWakeup, MustWait
<1>8. ClosedMeansDrained' BY DEF TypeOK, InvCalls, InvPhases, ClosedMeansDrained, InCall, MustWait
<1> QED BY <1>1, <1>2, <1>3, <1>4, <1>5, <1>6, <1>7, <1>8

LEMMA CallPopInv == ASSUME IInv, NEW t \in Consumers, CallPop(t) PROVE IInv'
<1> USE SizeAssumption, ThreadAssumption, JobAssumption
        DEF IInv, CallPop, BeginPop, Enter, Threads, Slots, ring, Closing
<1>1. TypeOK' BY DEF TypeOK, Ops, Places, InvCalls
<1>2. InvCalls' BY DEF TypeOK, Ops, Places, InvCalls, InCall
<1>3. InvPhases' BY DEF TypeOK, Ops, Places, InvCalls, InvPhases, InCall, InvBody
<1>4. InvLock' BY DEF TypeOK, Ops, Places, InvCalls, InvPhases, InvLock, InCall, InCritical, MustWait
<1>5. InvBody' BY DEF TypeOK, Ops, Places, InvCalls, InvPhases, InvLock, InvBody, InCritical, MustWait
<1>6. RingConsistent' BY DEF TypeOK, RingConsistent
<1>7. NoLostWakeup' BY DEF TypeOK, Ops, Places, InvCalls, InvPhases, NoLostWakeup, MustWait
<1>8. ClosedMeansDrained' BY DEF TypeOK, InvCalls, InvPhases, ClosedMeansDrained, InCall, MustWait
<1> QED BY <1>1, <1>2, <1>3, <1>4, <1>5, <1>6, <1>7, <1>8

LEMMA CallDestroyInv == ASSUME IInv, CallDestroy(Destroyer) PROVE IInv'
<1> USE SizeAssumption, ThreadAssumption, JobAssumption
        DEF IInv, CallDestroy, BeginDestroy, Enter, Threads, Slots, ring, Closing
<1>1. TypeOK' BY DEF TypeOK, Ops, Places, InvCalls
<1>2. InvCalls' BY DEF TypeOK, Ops, Places, InvCalls, InCall
<1>3. InvPhases' BY DEF TypeOK, Ops, Places, InvCalls, InvPhases, InCall, InvBody
<1>4. InvLock' BY DEF TypeOK, Ops, Places, InvCalls, InvPhases, InvLock, InCall, InCritical, MustWait
<1>5. InvBody' BY DEF TypeOK, Ops, Places, InvCalls, InvPhases, InvLock, InvBody, InCritical, MustWait
<1>6. RingConsistent' BY DEF TypeOK, RingConsistent
<1>7. NoLostWakeup' BY DEF TypeOK, Ops, Places, InvCalls, InvPhases, NoLostWakeup, MustWait
<1>8. ClosedMeansDrained' BY DEF TypeOK, InvCalls, InvPhases, ClosedMeansDrained, InCall, MustWait
<1> QED BY <1>1, <1>2, <1>3, <1>4, <1>5, <1>6, <1>7, <1>8

LEMMA AcquireInv == ASSUME IInv, NEW t \in Threads, Acquire(t) PROVE IInv'
<1> USE SizeAssumption, ThreadAssumption, JobAssumption
        DEF IInv, Acquire, Threads, Slots, ring, Closing
<1>1. TypeOK' BY DEF TypeOK, Ops, Places, InvCalls
<1>2. InvCalls' BY DEF TypeOK, Ops, Places, InvCalls, InCall
<1>3. InvPhases' BY DEF TypeOK, Ops, Places, InvCalls, InvPhases, InCall, InvBody
<1>4. InvLock' BY DEF TypeOK, Ops, Places, InvCalls, InvPhases, InvLock, InCall, InCritical, MustWait
<1>5. InvBody' BY DEF TypeOK, Ops, Places, InvCalls, InvPhases, InvLock, InvBody, InCritical, MustWait
<1>6. RingConsistent' BY DEF TypeOK, RingConsistent
<1>7. NoLostWakeup' BY DEF TypeOK, Ops, Places, InvCalls, InvPhases, NoLostWakeup, MustWait
<1>8. ClosedMeansDrained' BY DEF TypeOK, InvCalls, InvPhases, ClosedMeansDrained, InCall, MustWait
<1> QED BY <1>1, <1>2, <1>3, <1>4, <1>5, <1>6, <1>7, <1>8

LEMMA MarkInv == ASSUME IInv, NEW t \in Threads, Mark(t) PROVE IInv'
<1> USE SizeAssumption, ThreadAssumption, JobAssumption
        DEF IInv, Mark, Broadcast, Threads, Slots, ring, Closing
<1>1. TypeOK' BY DEF TypeOK, Ops, Places, InvCalls
<1>2. InvCalls' BY DEF TypeOK, Ops, Places, InvCalls, InCall
<1>3. InvPhases' BY DEF TypeOK, Ops, Places, InvCalls, InvPhases, InCall, InvBody
<1>4. InvLock' BY DEF TypeOK, Ops, Places, InvCalls, InvPhases, InvLock, InCall, InCritical, MustWait
<1>5. InvBody' BY DEF TypeOK, Ops, Places, InvCalls, InvPhases, InvLock, InvBody, InCritical, MustWait
<1>6. RingConsistent' BY DEF TypeOK, RingConsistent
<1>7. NoLostWakeup' BY DEF TypeOK, Ops, Places, InvCalls, InvPhases, NoLostWakeup, MustWait
<1>8. ClosedMeansDrained' BY DEF TypeOK, InvCalls, InvPhases, ClosedMeansDrained, InCall, MustWait
<1> QED BY <1>1, <1>2, <1>3, <1>4, <1>5, <1>6, <1>7, <1>8

LEMMA WaitInv == ASSUME IInv, NEW t \in Threads, Wait(t) PROVE IInv'
<1> USE SizeAssumption, ThreadAssumption, JobAssumption
        DEF IInv, Wait, Threads, Slots, ring, Closing
<1>1. TypeOK' BY DEF TypeOK, Ops, Places, InvCalls
<1>2. InvCalls' BY DEF TypeOK, Ops, Places, InvCalls, InCall
<1>3. InvPhases' BY DEF TypeOK, Ops, Places, InvCalls, InvPhases, InCall, InvBody
<1>4. InvLock' BY DEF TypeOK, Ops, Places, InvCalls, InvPhases, InvLock, InCall, InCritical, MustWait
<1>5. InvBody' BY DEF TypeOK, Ops, Places, InvCalls, InvPhases, InvLock, InvBody, InCritical, MustWait
<1>6. RingConsistent' BY DEF TypeOK, RingConsistent
<1>7. NoLostWakeup' BY DEF TypeOK, Ops, Places, InvCalls, InvPhases, NoLostWakeup, MustWait
<1>8. ClosedMeansDrained' BY DEF TypeOK, InvCalls, InvPhases, ClosedMeansDrained, InCall, MustWait
<1> QED BY <1>1, <1>2, <1>3, <1>4, <1>5, <1>6, <1>7, <1>8

LEMMA SpuriousWakeupInv == ASSUME IInv, NEW t \in Threads, SpuriousWakeup(t) PROVE IInv'
<1> USE SizeAssumption, ThreadAssumption, JobAssumption
        DEF IInv, SpuriousWakeup, Threads, Slots, ring, Closing
<1>1. TypeOK' BY DEF TypeOK, Ops, Places, InvCalls
<1>2. InvCalls' BY DEF TypeOK, Ops, Places, InvCalls, InCall
<1>3. InvPhases' BY DEF TypeOK, Ops, Places, InvCalls, InvPhases, InCall, InvBody
<1>4. InvLock' BY DEF TypeOK, Ops, Places, InvCalls, InvPhases, InvLock, InCall, InCritical, MustWait
<1>5. InvBody' BY DEF TypeOK, Ops, Places, InvCalls, InvPhases, InvLock, InvBody, InCritical, MustWait
<1>6. RingConsistent' BY DEF TypeOK, RingConsistent
<1>7. NoLostWakeup' BY DEF TypeOK, Ops, Places, InvCalls, InvPhases, NoLostWakeup, MustWait
<1>8. ClosedMeansDrained' BY DEF TypeOK, InvCalls, InvPhases, ClosedMeansDrained, InCall, MustWait
<1> QED BY <1>1, <1>2, <1>3, <1>4, <1>5, <1>6, <1>7, <1>8

LEMMA ProceedInv == ASSUME IInv, NEW t \in Threads, Proceed(t) PROVE IInv'
<1> USE SizeAssumption, ThreadAssumption, JobAssumption
        DEF IInv, Proceed, Threads, Slots, ring, Closing
<1>1. TypeOK' BY DEF TypeOK, Ops, Places, InvCalls
<1>2. InvCalls' BY DEF TypeOK, Ops, Places, InvCalls, InCall
<1>3. InvPhases' BY DEF TypeOK, Ops, Places, InvCalls, InvPhases, InCall, InvBody
<1>4. InvLock' BY DEF TypeOK, Ops, Places, InvCalls, InvPhases, InvLock, InCall, InCritical, MustWait
<1>5. InvBody' BY DEF TypeOK, Ops, Places, InvCalls, InvPhases, InvLock, InvBody, InCritical, MustWait
<1>6. RingConsistent' BY DEF TypeOK, RingConsistent
<1>7. NoLostWakeup' BY DEF TypeOK, Ops, Places, InvCalls, InvPhases, NoLostWakeup, MustWait
<1>8. ClosedMeansDrained' BY DEF TypeOK, InvCalls, InvPhases, ClosedMeansDrained, InCall, MustWait
<1> QED BY <1>1, <1>2, <1>3, <1>4, <1>5, <1>6, <1>7, <1>8

LEMMA GiveUpInv == ASSUME IInv, NEW t \in Threads, GiveUp(t) PROVE IInv'
<1> USE SizeAssumption, ThreadAssumption, JobAssumption
        DEF IInv, GiveUp, Threads, Slots, ring, Closing
<1>1. TypeOK' BY DEF TypeOK, Ops, Places, InvCalls
<1>2. InvCalls' BY DEF TypeOK, Ops, Places, InvCalls, InCall
<1>3. InvPhases' BY DEF TypeOK, Ops, Places, InvCalls, InvPhases, InCall, InvBody
<1>4. InvLock' BY DEF TypeOK, Ops, Places, InvCalls, InvPhases, InvLock, InCall, InCritical, MustWait
<1>5. InvBody' BY DEF TypeOK, Ops, Places, InvCalls, InvPhases, InvLock, InvBody, InCritical, MustWait
<1>6. RingConsistent' BY DEF TypeOK, RingConsistent
<1>7. NoLostWakeup' BY DEF TypeOK, Ops, Places, InvCalls, InvPhases, NoLostWakeup, MustWait
<1>8. ClosedMeansDrained' BY DEF TypeOK, InvCalls, InvPhases, ClosedMeansDrained, InCall, MustWait
<1> QED BY <1>1, <1>2, <1>3, <1>4, <1>5, <1>6, <1>7, <1>8

LEMMA StoreInv == ASSUME IInv, NEW t \in Threads, Store(t) PROVE IInv'
<1> USE SizeAssumption, ThreadAssumption, JobAssumption
        DEF IInv, Store, Broadcast, After, Threads, Slots, ring, Closing
<1>a. filled < Size /\ ret[t] \in Jobs
  BY DEF InvBody, InvCalls, InCall
<1>b. /\ (head + 1) % Size \in Slots
      /\ head' = (tail + (filled + 1)) % Size
  <2>1. head \in Slots /\ tail \in Slots /\ filled \in Slots BY <1>a DEF TypeOK
  <2>2. (head + 1) % Size \in Slots BY <2>1, NextSlot
  <2>3. (((tail + filled) % Size) + 1) % Size = (tail + (filled + 1)) % Size BY <2>1, NextSlot
  <2> QED BY <2>2, <2>3 DEF RingConsistent
<1>1. TypeOK' BY <1>a, <1>b DEF TypeOK, Ops, Places
<1>2. InvCalls' BY DEF TypeOK, Ops, Places, InvCalls, InCall
<1>3. InvPhases' BY DEF TypeOK, Ops, Places, InvCalls, InvPhases, InCall, InvBody
<1>4. InvLock' BY DEF TypeOK, Ops, Places, InvCalls, InvPhases, InvLock, InCall, InCritical, MustWait
<1>5. InvBody' BY DEF TypeOK, Ops, Places, InvCalls, InvPhases, InvLock, InvBody, InCritical, MustWait
<1>6. RingConsistent'
  <2>1. ASSUME NEW i \in Slots, i < filled + 1
        PROVE  array'[(tail + i) % Size] \in Jobs
    <3>1. (tail + i) % Size \in Slots BY NextSlot DEF TypeOK
    <3>2. CASE i = filled BY <3>1, <3>2, <1>a DEF TypeOK, RingConsistent
    <3>3. CASE i < filled BY <3>1, <3>3, <1>a DEF TypeOK, RingConsistent
    <3> QED BY <2>1, <3>2, <3>3 DEF TypeOK
  <2> QED BY <2>1, <1>b DEF RingConsistent
<1>7. NoLostWakeup'
  BY <1>a DEF TypeOK, Ops, Places, InvCalls, NoLostWakeup, MustWait
<1>8. ClosedMeansDrained' BY DEF TypeOK, InvCalls, InvPhases, ClosedMeansDrained, InCall, MustWait
<1> QED BY <1>1, <1>2, <1>3, <1>4, <1>5, <1>6, <1>7, <1>8

LEMMA TakeInv == ASSUME IInv, NEW t \in Threads, Take(t) PROVE IInv'
<1> USE SizeAssumption, ThreadAssumption, JobAssumption
        DEF IInv, Take, Broadcast, After, Threads, Slots, ring, Closing
<1>a. filled \in 1 .. Size /\ array[tail] \in Jobs
  <2>1. filled \in 1 .. Size BY DEF InvBody, TypeOK
  <2>2. tail % Size = tail BY ModSmall DEF TypeOK
  <2>3. (tail + 0) % Size = tail BY <2>2 DEF TypeOK
  <2>4. 0 \in Slots /\ 0 < filled BY <2>1
  <2> QED BY <2>1, <2>3, <2>4 DEF RingConsistent
<1>b. /\ tail' \in Slots
      /\ \A k \in Slots : (tail' + k) % Size = (tail + (k + 1)) % Size
  BY NextSlot DEF TypeOK
<1>1. TypeOK' BY <1>a, <1>b DEF TypeOK, Ops, Places
<1>2. InvCalls' BY DEF TypeOK, Ops, Places, InvCalls, InCall
<1>3. InvPhases' BY DEF TypeOK, Ops, Places, InvCalls, InvPhases, InCall, InvBody
<1>4. InvLock' BY DEF TypeOK, Ops, Places, InvCalls, InvPhases, InvLock, InCall, InCritical, MustWait
<1>5. InvBody' BY DEF TypeOK, Ops, Places, InvCalls, InvPhases, InvLock, InvBody, InCritical, MustWait
<1>6. RingConsistent'
  <2>1. head' = (tail' + filled') % Size
    <3>1. filled - 1 \in Slots BY <1>a
    <3>2. (tail' + (filled - 1)) % Size = (tail + ((filled - 1) + 1)) % Size BY <3>1, <1>b
    <3>3. (filled - 1) + 1 = filled BY <1>a
    <3> QED BY <3>2, <3>3 DEF TypeOK, RingConsistent
  <2>2. ASSUME NEW i \in Slots, i < filled - 1
        PROVE  array[(tail' + i) % Size] \in Jobs
    <3>1. i + 1 \in Slots /\ i + 1 < filled BY <2>2, <1>a
    <3>2. array[(tail + (i + 1)) % Size] \in Jobs BY <3>1 DEF RingConsistent
    <3> QED BY <3>2, <1>b
  <2> QED BY <2>1, <2>2 DEF RingConsistent
<1>7. NoLostWakeup'
  BY <1>a DEF TypeOK, Ops, Places, InvCalls, NoLostWakeup, MustWait
<1>8. ClosedMeansDrained'
  BY <1>a DEF TypeOK, InvCalls, InvPhases, ClosedMeansDrained, InCall
<1> QED BY <1>1, <1>2, <1>3, <1>4, <1>5, <1>6, <1>7, <1>8

LEMMA FreeInv == ASSUME IInv, NEW t \in Threads, Free(t) PROVE IInv'
<1> USE SizeAssumption, ThreadAssumption, JobAssumption
        DEF IInv, Free, Threads, Slots, ring, Closing
<1>1. TypeOK' BY DEF TypeOK, Ops, Places, InvCalls
<1>2. InvCalls' BY DEF TypeOK, Ops, Places, InvCalls, InCall
<1>3. InvPhases' BY DEF TypeOK, Ops, Places, InvCalls, InvPhases, InCall, InvBody
<1>4. InvLock' BY DEF TypeOK, Ops, Places, InvCalls, InvPhases, InvLock, InCall, InCritical, MustWait
<1>5. InvBody' BY DEF TypeOK, Ops, Places, InvCalls, InvPhases, InvLock, InvBody, InCritical, MustWait
<1>6. RingConsistent' BY DEF TypeOK, RingConsistent
<1>7. NoLostWakeup' BY DEF TypeOK, Ops, Places, InvCalls, InvPhases, NoLostWakeup, MustWait
<1>8. ClosedMeansDrained' BY DEF TypeOK, InvCalls, InvPhases, ClosedMeansDrained, InCall, MustWait
<1> QED BY <1>1, <1>2, <1>3, <1>4, <1>5, <1>6, <1>7, <1>8

LEMMA UnlockInv == ASSUME IInv, NEW t \in Threads, Unlock(t) PROVE IInv'
<1> USE SizeAssumption, ThreadAssumption, JobAssumption
        DEF IInv, Unlock, Threads, Slots, ring, Closing
<1>1. TypeOK' BY DEF TypeOK, Ops, Places, InvCalls
<1>2. InvCalls' BY DEF TypeOK, Ops, Places, InvCalls, InCall
<1>3. InvPhases' BY DEF TypeOK, Ops, Places, InvCalls, InvPhases, InCall, InvBody
<1>4. InvLock' BY DEF TypeOK, Ops, Places, InvCalls, InvPhases, InvLock, InCall, InCritical, MustWait
<1>5. InvBody' BY DEF TypeOK, Ops, Places, InvCalls, InvPhases, InvLock, InvBody, InCritical, MustWait
<1>6. RingConsistent' BY DEF TypeOK, RingConsistent
<1>7. NoLostWakeup' BY DEF TypeOK, Ops, Places, InvCalls, InvPhases, NoLostWakeup, MustWait
<1>8. ClosedMeansDrained' BY DEF TypeOK, InvCalls, InvPhases, ClosedMeansDrained, InCall, MustWait
<1> QED BY <1>1, <1>2, <1>3, <1>4, <1>5, <1>6, <1>7, <1>8

LEMMA DestroyMutexInv == ASSUME IInv, NEW t \in Threads, DestroyMutex(t) PROVE IInv'
<1> USE SizeAssumption, ThreadAssumption, JobAssumption
        DEF IInv, DestroyMutex, MutexUsers, Threads, Slots, ring, Closing
<1>1. TypeOK' BY DEF TypeOK, Ops, Places, InvCalls
<1>2. InvCalls' BY DEF TypeOK, Ops, Places, InvCalls, InCall
<1>3. InvPhases' BY DEF TypeOK, Ops, Places, InvCalls, InvPhases, InCall, InvBody
<1>4. InvLock' BY DEF TypeOK, Ops, Places, InvCalls, InvPhases, InvLock, InCall, InCritical, MustWait
<1>5. InvBody' BY DEF TypeOK, Ops, Places, InvCalls, InvPhases, InvLock, InvBody, InCritical, MustWait
<1>6. RingConsistent' BY DEF TypeOK, RingConsistent
<1>7. NoLostWakeup' BY DEF TypeOK, Ops, Places, InvCalls, InvPhases, NoLostWakeup, MustWait
<1>8. ClosedMeansDrained' BY DEF TypeOK, InvCalls, InvPhases, ClosedMeansDrained, InCall, MustWait
<1> QED BY <1>1, <1>2, <1>3, <1>4, <1>5, <1>6, <1>7, <1>8

-----------------------------------------------------------------------------
(* The theorems.                                                           *)

(* Every step of a caller that keeps the contract, and of a thread inside the queue, keeps the
   inductive invariant. *)
LEMMA StepInv == IInv /\ [Next]_vars => IInv'
<1> SUFFICES ASSUME IInv, [Next]_vars PROVE IInv' OBVIOUS
<1>1. ASSUME NEW t \in Producers, NEW j \in Jobs, CallPush(t, j) PROVE IInv'
  BY <1>1, CallPushInv
<1>2. ASSUME NEW t \in Consumers, CallPop(t) PROVE IInv' BY <1>2, CallPopInv
<1>3. CASE CallDestroy(Destroyer) BY <1>3, CallDestroyInv
<1>4. ASSUME NEW t \in Threads, Step(t) PROVE IInv'
  BY <1>4, AcquireInv, MarkInv, WaitInv, ProceedInv, GiveUpInv, StoreInv, TakeInv,
     FreeInv, UnlockInv, DestroyMutexInv DEF Step
<1>5. ASSUME NEW t \in Threads, SpuriousWakeup(t) PROVE IInv'
  BY <1>5, SpuriousWakeupInv
<1>6. CASE UNCHANGED vars
  BY <1>6 DEF vars, IInv, TypeOK, InvCalls, InvPhases, InvLock, InvBody, RingConsistent,
     NoLostWakeup, ClosedMeansDrained, InCall, InCritical, Closing, MustWait
<1> QED BY <1>1, <1>2, <1>3, <1>4, <1>5, <1>6 DEF Next

(* The inductive invariant holds in every reachable state of job_queue.c. *)
THEOREM Invariant == Spec => []IInv
BY InitInv, StepInv, PTL DEF Spec

(* The queue's variables stay in their ranges: no index leaves the ring, no count overflows. *)
THEOREM TypeCorrect == Spec => []TypeOK
<1>1. IInv => TypeOK BY DEF IInv
<1> QED BY <1>1, Invariant, PTL

(* At most one thread is inside a critical section of job_queue.c while the mutex lives, and
   after it is destroyed only pops that touch nothing are. *)
THEOREM Exclusion == Spec => []MutualExclusion
<1>1. IInv => MutualExclusion
  BY DEF IInv, InvLock, MutualExclusion
<1> QED BY <1>1, Invariant, PTL

(* job_queue_push and job_queue_pop never touch the array that job_queue_destroy freed. *)
THEOREM ArraySafe == Spec => []NoUseAfterFree
<1>1. IInv => NoUseAfterFree
  BY ThreadAssumption DEF IInv, TypeOK, InvCalls, InvPhases, InvBody, NoUseAfterFree, InCall,
     Closing, Threads, Ops, Places
<1> QED BY <1>1, Invariant, PTL

(* head, tail and filled always describe one segment of the ring, full of pushed jobs. *)
THEOREM RingCorrect == Spec => []RingConsistent
<1>1. IInv => RingConsistent BY DEF IInv
<1> QED BY <1>1, Invariant, PTL

(* No thread sleeps in a condition wait whose condition has become false. *)
THEOREM WakeupsNotLost == Spec => []NoLostWakeup
<1>1. IInv => NoLostWakeup BY DEF IInv
<1> QED BY <1>1, Invariant, PTL

(* The condition variables have no sleeper when job_queue_destroy tears them down. *)
THEOREM TeardownQuiet == Spec => []NobodyWaitsOnDestroyed
<1>1. IInv => NobodyWaitsOnDestroyed
  BY ThreadAssumption DEF IInv, TypeOK, InvCalls, InvPhases, NoLostWakeup, MustWait,
     NobodyWaitsOnDestroyed, InCall, Closing, Threads, Ops, Places
<1> QED BY <1>1, Invariant, PTL

(* job_queue_pop answers -1 only when the queue is destroyed and everything was popped. *)
THEOREM DrainedBeforeClosed == Spec => []ClosedMeansDrained
<1>1. IInv => ClosedMeansDrained BY DEF IInv
<1> QED BY <1>1, Invariant, PTL

(* A push never overwrites, and a pop never skips, a job that is still queued. *)
THEOREM NothingOverwritten == Spec => SlotsStable
<1>1. IInv /\ [Next]_vars
        => [\A i \in Slots : (i < filled /\ ~(i = 0 /\ filled' < filled))
              => array'[(tail + i) % Size] = array[(tail + i) % Size]]_vars
  <2> SUFFICES ASSUME IInv, Next,
                      NEW i \in Slots, i < filled
               PROVE  array'[(tail + i) % Size] = array[(tail + i) % Size]
    OBVIOUS
  <2>1. ASSUME NEW t \in Threads, Store(t)
        PROVE  array'[(tail + i) % Size] = array[(tail + i) % Size]
    <3>1. filled < Size BY <2>1 DEF IInv, InvBody, Store
    <3>2. (tail + i) % Size # (tail + filled) % Size
      <4>1. tail \in Slots /\ filled \in Slots BY <3>1, SizeAssumption DEF IInv, TypeOK, Slots
      <4> QED BY <4>1, ModDistinct
    <3>3. (tail + i) % Size # head BY <3>2 DEF IInv, RingConsistent
    <3>4. (tail + i) % Size \in Slots BY NextSlot DEF IInv, TypeOK
    <3> QED BY <2>1, <3>3, <3>4 DEF Store, IInv, TypeOK
  <2>2. CASE ~\E t \in Threads : Store(t)
    <3>1. array' = array
      BY <2>2 DEF Next, Step, CallPush, CallPop, CallDestroy, BeginPush, BeginPop,
         BeginDestroy, Enter, Acquire, Mark, Wait,
         SpuriousWakeup, Proceed, GiveUp, Take, Free, Unlock, DestroyMutex, ring
    <3> QED BY <3>1
  <2> QED BY <2>1, <2>2
<1> QED BY <1>1, Invariant, PTL DEF Spec, SlotsStable
-----------------------------------------------------------------------------
(* The refinement of JobFifo.                                              *)

(* The mapped queue is a sequence of pushed jobs as long as the count says (job_queue.c:54-56). *)
LEMMA HeldSeq == IInv => Held \in Seq(Jobs) /\ Len(Held) = filled
<1> SUFFICES ASSUME IInv PROVE Held \in Seq(Jobs) /\ Len(Held) = filled OBVIOUS
<1>1. filled \in Nat BY SizeAssumption DEF IInv, TypeOK
<1>2. ASSUME NEW i \in 1 .. filled PROVE array[(tail + (i - 1)) % Size] \in Jobs
  <2>1. i - 1 \in Slots /\ i - 1 < filled BY SizeAssumption, <1>1 DEF IInv, TypeOK, Slots
  <2> QED BY <2>1 DEF IInv, RingConsistent
<1>3. Held \in [1 .. filled -> Jobs] BY <1>2 DEF Held
<1>4. Held \in Seq(Jobs) BY <1>1, <1>3, SeqDef
<1>5. Len(Held) = filled BY <1>1, <1>3, <1>4, LenProperties
<1> QED BY <1>4, <1>5

(* Storing at head appends to the mapped queue (job_queue.c:54-56). *)
LEMMA StoreAppends ==
  ASSUME IInv, IInv', NEW t \in Threads, Store(t)
  PROVE  ret[t] \in Jobs /\ filled < Size /\ Held' = Append(Held, ret[t])
<1>1. ret[t] \in Jobs /\ filled < Size
  BY DEF IInv, InvBody, InvCalls, InCall, Store
<1>2. filled \in Nat /\ tail \in Slots /\ filled \in Slots /\ tail' = tail /\ filled' = filled + 1
  BY <1>1, SizeAssumption DEF IInv, TypeOK, Slots, Store
<1>3. Held \in Seq(Jobs) /\ Len(Held) = filled BY HeldSeq
<1>4. Held' \in Seq(Jobs) /\ Len(Held') = filled + 1
  <2>1. IInv' => (Held \in Seq(Jobs) /\ Len(Held) = filled)' BY HeldSeq, PTL
  <2> QED BY <2>1, <1>2
<1>5. /\ Append(Held, ret[t]) \in Seq(Jobs)
      /\ Len(Append(Held, ret[t])) = filled + 1
      /\ \A i \in 1 .. filled + 1 : Append(Held, ret[t])[i] = IF i <= filled THEN Held[i] ELSE ret[t]
  BY <1>1, <1>2, <1>3, AppendProperties
<1>6. ASSUME NEW i \in 1 .. filled + 1
      PROVE  Held'[i] = Append(Held, ret[t])[i]
  <2>1. Held'[i] = array'[(tail + (i - 1)) % Size] BY <1>2 DEF Held
  <2>2. i - 1 \in Slots BY <1>1, <1>2, SizeAssumption DEF Slots
  <2>3. (tail + (i - 1)) % Size \in Slots BY <1>2, <2>2, NextSlot
  <2>4. CASE i = filled + 1
    <3>1. i - 1 = filled BY <2>4, <1>2
    <3>2. (tail + (i - 1)) % Size = head BY <3>1 DEF IInv, RingConsistent
    <3>3. array'[head] = ret[t] BY <2>3, <3>2 DEF Store, IInv, TypeOK
    <3> QED BY <2>1, <3>2, <3>3, <2>4, <1>5, <1>2
  <2>5. CASE i <= filled
    <3>1. (tail + (i - 1)) % Size # (tail + filled) % Size
      <4>1. i - 1 < filled BY <2>5, <1>2
      <4> QED BY <4>1, <2>2, <1>2, ModDistinct
    <3>2. (tail + (i - 1)) % Size # head BY <3>1 DEF IInv, RingConsistent
    <3>3. array'[(tail + (i - 1)) % Size] = array[(tail + (i - 1)) % Size]
      BY <2>3, <3>2 DEF Store, IInv, TypeOK
    <3>4. Held[i] = array[(tail + (i - 1)) % Size] BY <2>5, <1>2 DEF Held
    <3> QED BY <2>1, <3>3, <3>4, <2>5, <1>5, <1>2
  <2>6. i = filled + 1 \/ i <= filled BY <1>2
  <2> QED BY <2>4, <2>5, <2>6
<1>7. Held' = Append(Held, ret[t])
  BY <1>2, <1>4, <1>5, <1>6, SeqEqual
<1> QED BY <1>1, <1>7

(* Taking at tail removes the head of the mapped queue (job_queue.c:76-78). *)
LEMMA TakeRemoves ==
  ASSUME IInv, IInv', NEW t \in Threads, Take(t)
  PROVE  Held # <<>> /\ ret' = [ret EXCEPT ![t] = Head(Held)] /\ Held' = Tail(Held)
<1>1. filled \in Nat /\ filled > 0 /\ tail \in Slots /\ filled' = filled - 1
  BY SizeAssumption DEF IInv, TypeOK, InvBody, Take
<1>2. Held \in Seq(Jobs) /\ Len(Held) = filled BY HeldSeq
<1>3. Held' \in Seq(Jobs) /\ Len(Held') = filled - 1
  <2>1. IInv' => (Held \in Seq(Jobs) /\ Len(Held) = filled)' BY HeldSeq, PTL
  <2> QED BY <2>1, <1>1
<1>4. Held # <<>> BY <1>1, <1>2, EmptySeq
<1>5. Head(Held) = array[tail]
  <2>1. Head(Held) = Held[1] BY <1>2, <1>4
  <2>2. Held[1] = array[(tail + (1 - 1)) % Size] BY <1>1 DEF Held
  <2>3. tail % Size = tail BY <1>1, ModSmall
  <2>4. tail + (1 - 1) = tail BY <1>1, SizeAssumption DEF Slots
  <2> QED BY <2>1, <2>2, <2>3, <2>4
<1>6. /\ Tail(Held) \in Seq(Jobs)
      /\ Len(Tail(Held)) = filled - 1
      /\ \A i \in 1 .. filled - 1 : Tail(Held)[i] = Held[i + 1]
  BY <1>2, <1>4, HeadTailProperties
<1>7. ASSUME NEW i \in 1 .. filled - 1
      PROVE  Held'[i] = Tail(Held)[i]
  <2>1. Held'[i] = array[(tail' + (i - 1)) % Size] BY <1>1 DEF Held, Take
  <2>2. i - 1 \in Slots BY <1>1, SizeAssumption DEF Slots, IInv, TypeOK
  <2>3. (tail' + (i - 1)) % Size = (tail + ((i - 1) + 1)) % Size
    BY <2>2, <1>1, NextSlot DEF Take, After
  <2>4. Held[i + 1] = array[(tail + ((i + 1) - 1)) % Size] BY <1>1 DEF Held
  <2>5. (i - 1) + 1 = (i + 1) - 1 BY <1>1
  <2> QED BY <2>1, <2>3, <2>4, <2>5, <1>6
<1>8. Held' = Tail(Held) BY <1>1, <1>3, <1>6, <1>7, SeqEqual
<1> QED BY <1>4, <1>5, <1>8 DEF Take

(* A step that leaves array, tail and count alone leaves the mapped queue alone. *)
LEMMA HeldUnchanged ==
  ASSUME UNCHANGED <<array, tail, filled>> PROVE Held' = Held
BY DEF Held

(* Every behaviour of job_queue.c, under any client that keeps the contract of job_queue.h, is
   one of the closable bounded first-in first-out queue. *)
THEOREM Refinement == Spec => ImplementsFifo
<1> USE DEF Fifo!vars
<1>1. Init => Fifo!Init
  <2> SUFFICES ASSUME Init PROVE Fifo!Init OBVIOUS
  <2>1. IInv BY InitInv
  <2>2. Held = <<>>
    <3>1. Held \in Seq(Jobs) /\ Len(Held) = 0 BY <2>1, HeldSeq DEF Init
    <3> QED BY <3>1, EmptySeq
  <2>3. Results = [c \in Consumers |-> None] BY DEF Results, Init, Threads
  <2> QED BY <2>2, <2>3 DEF Init, Fifo!Init
<1>2. IInv /\ IInv' /\ [Next]_vars => [Fifo!Next]_(Fifo!vars)
  <2> SUFFICES ASSUME IInv, IInv', [Next]_vars PROVE [Fifo!Next]_(Fifo!vars) OBVIOUS
  <2>1. ASSUME UNCHANGED <<array, tail, filled, destroy, allocated>>, Results' = Results
        PROVE  UNCHANGED Fifo!vars
    BY <2>1, HeldUnchanged
  <2>2. ASSUME UNCHANGED <<array, tail, filled, destroy, allocated, ret>>
        PROVE  UNCHANGED Fifo!vars
    BY <2>1, <2>2 DEF Results
  <2>3. ASSUME NEW t \in Producers, NEW j \in Jobs, CallPush(t, j) PROVE UNCHANGED Fifo!vars
    <3>1. Results' = Results
      BY <2>3, ThreadAssumption DEF Results, CallPush, BeginPush, IInv, TypeOK, Threads
    <3> QED BY <2>1, <2>3, <3>1 DEF CallPush, BeginPush, Enter, ring
  <2>4. ASSUME NEW t \in Consumers, CallPop(t) PROVE UNCHANGED Fifo!vars
    BY <2>2, <2>4 DEF CallPop, BeginPop, Enter, ring
  <2>5. CASE CallDestroy(Destroyer)
    BY <2>2, <2>5 DEF CallDestroy, BeginDestroy, Enter, ring
  <2>6. ASSUME NEW t \in Threads, SpuriousWakeup(t) PROVE UNCHANGED Fifo!vars
    BY <2>2, <2>6 DEF SpuriousWakeup, ring
  <2>7. ASSUME NEW t \in Threads, Acquire(t) \/ Wait(t) \/ Proceed(t) \/ Unlock(t) \/ DestroyMutex(t)
        PROVE  UNCHANGED Fifo!vars
    BY <2>2, <2>7 DEF Acquire, Wait, Proceed, Unlock, DestroyMutex, ring
  <2>8. ASSUME NEW t \in Threads, Mark(t) PROVE Fifo!Close
    <3>1. ~destroy
      BY <2>8, ThreadAssumption DEF Mark, IInv, InvCalls, InvPhases, Threads
    <3>2. Held' = Held /\ Results' = Results BY <2>8, HeldUnchanged DEF Mark, Results
    <3> QED BY <2>8, <3>1, <3>2 DEF Mark, Fifo!Close
  <2>9. ASSUME NEW t \in Threads, GiveUp(t) PROVE \E c \in Consumers : Fifo!GetClosed(c)
    <3>1. t \in Consumers BY <2>9 DEF GiveUp, IInv, InvCalls
    <3>2. destroy /\ filled = 0 BY <2>9 DEF GiveUp, MustWait, IInv, TypeOK
    <3>3. Held = <<>> BY <3>2, HeldSeq, EmptySeq
    <3>4. Held' = Held BY <2>9, HeldUnchanged DEF GiveUp, ring
    <3>5. Results' = [Results EXCEPT ![t] = Closed]
      BY <2>9, <3>1 DEF GiveUp, Results, IInv, TypeOK, Threads
    <3>6. Fifo!GetClosed(t) BY <2>9, <3>2, <3>3, <3>4, <3>5 DEF Fifo!GetClosed, GiveUp, ring
    <3> QED BY <3>1, <3>6
  <2>10. ASSUME NEW t \in Threads, Store(t) PROVE Fifo!Put
    <3>1. ret[t] \in Jobs /\ filled < Size /\ Held' = Append(Held, ret[t])
      BY <2>10, StoreAppends
    <3>2. Len(Held) < Size BY <3>1, HeldSeq
    <3>3. ~destroy BY <2>10 DEF Store, IInv, InvCalls, InvPhases, InCall
    <3>4. Results' = Results BY <2>10 DEF Store, Results
    <3> QED BY <2>10, <3>1, <3>2, <3>3, <3>4 DEF Fifo!Put, Store
  <2>11. ASSUME NEW t \in Threads, Take(t) PROVE \E c \in Consumers : Fifo!Get(c)
    <3>1. t \in Consumers BY <2>11 DEF Take, IInv, InvCalls
    <3>2. Held # <<>> /\ ret' = [ret EXCEPT ![t] = Head(Held)] /\ Held' = Tail(Held)
      BY <2>11, TakeRemoves
    <3>3. Results' = [Results EXCEPT ![t] = Head(Held)]
      BY <3>1, <3>2 DEF Results, IInv, TypeOK, Threads
    <3>4. allocated
      <4>1. filled > 0 BY <2>11 DEF Take, IInv, InvBody
      <4> QED BY <4>1 DEF IInv, InvPhases
    <3>5. Fifo!Get(t) BY <2>11, <3>2, <3>3, <3>4 DEF Fifo!Get, Take
    <3> QED BY <3>1, <3>5
  <2>12. ASSUME NEW t \in Threads, Free(t) PROVE [Fifo!Next]_(Fifo!vars)
    <3>1. t = Destroyer /\ destroy /\ filled = 0 /\ allocated
      BY <2>12 DEF Free, IInv, TypeOK, InvCalls, InvPhases, InvBody, InCall
    <3>2. Held = <<>> BY <3>1, HeldSeq, EmptySeq
    <3>3. Held' = Held /\ Results' = Results BY <2>12, HeldUnchanged DEF Free, Results
    <3>4. Fifo!Tear BY <2>12, <3>1, <3>2, <3>3 DEF Free, Fifo!Tear
    <3> QED BY <3>4 DEF Fifo!Next
  <2>13. CASE UNCHANGED vars BY <2>2, <2>13 DEF vars
  <2> QED BY <2>3, <2>4, <2>5, <2>6, <2>7, <2>8, <2>9, <2>10, <2>11, <2>12, <2>13
          DEF Next, Step, Fifo!Next
<1>3. Spec => []IInv BY Invariant
<1> QED BY <1>1, <1>2, <1>3, PTL DEF Spec, Fifo!Spec, ImplementsFifo

-----------------------------------------------------------------------------
(* The programs on the queue: the contract.                                *)

(* The threads of a program are main and its workers (fibs.c:86-98). *)
LEMMA PoolThreads ==
  ASSUME ThreadsOfProgram
  PROVE  /\ Main \in Producers /\ Main \in Threads /\ Main \notin Workers
         /\ Threads = Workers \cup {Main} /\ None \notin Threads
         /\ \A t \in Threads : t # Main => t \in Workers
BY ThreadAssumption DEF ThreadsOfProgram, Main, Workers, Threads

(* The programs start with the invariant. *)
LEMMA InitPoolInv == InitPool => IInv /\ InvPool
<1> SUFFICES ASSUME InitPool PROVE IInv /\ InvPool OBVIOUS
<1>1. IInv BY InitInv DEF InitPool
<1>2. PoolTypes /\ MainPhase
  BY InputAssumption, PoolThreads DEF InitPool, Init, PoolTypes, MainPhase, Closing, Main
<1>3. WorkerPhase
  BY JobAssumption, PoolThreads DEF InitPool, Init, WorkerPhase
<1>4. \E w \in Workers : wpc[w] # "none" BY DEF InitPool
<1> QED BY <1>1, <1>2, <1>3, <1>4 DEF InitPool, InvPool

(* main pushes only before the destroy and destroys once, and a worker pops only while no pop
   of its has failed: every step of a program is one that the contract of job_queue.h allows. *)
LEMMA PoolStepAllowed == IInv /\ InvPool /\ [NextPool]_allVars => [Next]_vars
<1> SUFFICES ASSUME IInv, InvPool, [NextPool]_allVars PROVE [Next]_vars OBVIOUS
<1>0. ThreadsOfProgram BY DEF InvPool
<1>1. CASE MainPush
  <2>1. Head(toRead) \in Jobs BY <1>1, HeadTailProperties DEF MainPush, InvPool, PoolTypes
  <2>2. CallPush(Main, Head(toRead)) BY <1>1 DEF MainPush, CallPush, InvPool, MainPhase
  <2> QED BY <1>0, <2>1, <2>2, PoolThreads DEF Next
<1>2. CASE MainDestroy
  <2>1. \A p \in Producers : at[p] = "idle"
    BY <1>2 DEF MainDestroy, BeginDestroy, InvPool, ThreadsOfProgram
  <2>2. CallDestroy(Destroyer)
    BY <1>2, <2>1 DEF MainDestroy, CallDestroy, InvPool, MainPhase, Main
  <2> QED BY <2>2 DEF Next
<1>3. ASSUME NEW w \in Workers, WorkerPop(w) PROVE [Next]_vars
  <2>1. CallPop(w) BY <1>3 DEF WorkerPop, CallPop, InvPool, WorkerPhase
  <2> QED BY <2>1 DEF Next, Workers
<1>4. ASSUME NEW t \in Threads, QueueStep(t) \/ PoolSpurious(t) PROVE [Next]_vars
  BY <1>4 DEF QueueStep, PoolSpurious, Next
<1>5. ASSUME NEW w \in Workers, WorkerReturn(w) \/ WorkerLockStdout(w) \/ WorkerPrint(w)
      PROVE  [Next]_vars
  BY <1>5 DEF WorkerReturn, WorkerLockStdout, WorkerPrint
<1>6. CASE MainJoin \/ UNCHANGED allVars BY <1>6 DEF MainJoin, allVars
<1> QED BY <1>0, <1>1, <1>2, <1>3, <1>4, <1>5, <1>6, PoolThreads
        DEF NextPool, MainStep, WorkerStep

(* A step inside the queue by thread t moves t, and of the others it only wakes some from a
   wait; it gives an answer to t alone, and only when t is a worker that leaves its pop
   (job_queue.c:67-83). *)
LEMMA QueueStepMoves ==
  ASSUME IInv, IInv', NEW t \in Threads, Step(t) \/ SpuriousWakeup(t)
  PROVE  /\ op' = op /\ at[t] # "idle"
         /\ \A u \in Threads \ {t} :
              /\ ret'[u] = ret[u]
              /\ at'[u] = at[u] \/ (at[u] = "waiting" /\ at'[u] = "relock")
         /\ \/ /\ ret'[t] = ret[t]
               /\ (op[t] = "pop" \/ (op[t] = "push" /\ at[t] # "body"))
                    => (at[t] = "unlock" <=> at'[t] \in {"unlock", "idle"})
            \/ /\ op[t] = "pop" /\ at'[t] = "unlock"
               /\ (at[t] = "loop" /\ ret'[t] = Closed) \/ (at[t] = "body" /\ ret'[t] \in Jobs)
<1>1. TypeOK BY DEF IInv
<1>2. CASE Acquire(t) \/ Wait(t) \/ Proceed(t) \/ SpuriousWakeup(t) \/ Mark(t)
  BY <1>1, <1>2 DEF TypeOK, Acquire, Wait, Proceed, SpuriousWakeup, Mark, Broadcast, Places
<1>3. CASE GiveUp(t)
  BY <1>1, <1>3 DEF TypeOK, GiveUp, Places
<1>4. CASE Store(t) \/ Free(t)
  BY <1>1, <1>4 DEF TypeOK, Store, Free, Broadcast, Places
<1>5. CASE Take(t)
  <2>1. filled \in Nat /\ Held \in Seq(Jobs) BY HeldSeq, SizeAssumption, <1>1 DEF TypeOK
  <2>2. ret' = [ret EXCEPT ![t] = Head(Held)] /\ Head(Held) \in Jobs
    BY <1>5, <2>1, TakeRemoves, HeadTailProperties
  <2> QED BY <1>1, <1>5, <2>2 DEF TypeOK, Take, Broadcast, Places
<1>6. CASE Unlock(t) \/ DestroyMutex(t)
  BY <1>1, <1>6 DEF TypeOK, Unlock, DestroyMutex, Places, IInv, InvCalls
<1> QED BY <1>2, <1>3, <1>4, <1>5, <1>6 DEF Step

(* Every step of main, of a worker and inside the queue keeps the invariant. *)
LEMMA PoolStepInv ==
  ASSUME IInv, IInv', InvPool, [NextPool]_allVars PROVE InvPool'
<1> USE PoolThreads DEF InvPool
<1>1. TypeOK BY DEF IInv
<1>2. CASE MainPush
  <2>1. PoolTypes' BY <1>2, HeadTailProperties DEF MainPush, PoolTypes
  <2>2. MainPhase' BY <1>1, <1>2 DEF MainPush, BeginPush, Enter, MainPhase, TypeOK, Closing, Main
  <2>3. WorkerPhase'
    BY <1>1, <1>2 DEF MainPush, BeginPush, Enter, WorkerPhase, TypeOK
  <2> QED BY <1>2, <2>1, <2>2, <2>3 DEF MainPush
<1>3. CASE MainDestroy
  <2>1. PoolTypes' BY <1>3 DEF MainDestroy, PoolTypes
  <2>2. MainPhase' BY <1>1, <1>3 DEF MainDestroy, BeginDestroy, Enter, MainPhase, TypeOK, Closing, Main
  <2>3. WorkerPhase'
    BY <1>1, <1>3 DEF MainDestroy, BeginDestroy, Enter, WorkerPhase, TypeOK
  <2> QED BY <1>3, <2>1, <2>2, <2>3 DEF MainDestroy
<1>4. CASE MainJoin
  BY <1>4 DEF MainJoin, vars, PoolTypes, MainPhase, WorkerPhase, Closing
<1>5. ASSUME NEW w \in Workers, WorkerPop(w) PROVE InvPool'
  <2>1. PoolTypes' BY <1>5 DEF WorkerPop, PoolTypes
  <2>2. MainPhase'
    BY <1>1, <1>5 DEF WorkerPop, BeginPop, Enter, MainPhase, PoolTypes, TypeOK, Closing, Main
  <2>3. WorkerPhase'
    BY <1>1, <1>5 DEF WorkerPop, BeginPop, Enter, WorkerPhase, PoolTypes, TypeOK
  <2> QED BY <1>5, <2>1, <2>2, <2>3 DEF WorkerPop, PoolTypes
<1>6. ASSUME NEW w \in Workers, WorkerReturn(w) PROVE InvPool'
  <2>1. PoolTypes' BY <1>1, <1>6 DEF WorkerReturn, PoolTypes, TypeOK, WorkerPhase
  <2>2. MainPhase' BY <1>6 DEF WorkerReturn, MainPhase, PoolTypes, Closing, vars
  <2>3. WorkerPhase'
    BY <1>1, <1>6 DEF WorkerReturn, WorkerPhase, PoolTypes, TypeOK, vars
  <2> QED BY <1>6, <2>1, <2>2, <2>3 DEF WorkerReturn, PoolTypes
<1>7. ASSUME NEW w \in Workers, WorkerLockStdout(w) PROVE InvPool'
  BY <1>7 DEF WorkerLockStdout, PoolTypes, MainPhase, WorkerPhase, Closing, vars
<1>8. ASSUME NEW w \in Workers, WorkerPrint(w) PROVE InvPool'
  <2>1. PoolTypes'
    BY <1>8, AppendProperties DEF WorkerPrint, PoolTypes, WorkerPhase
  <2>2. MainPhase' BY <1>8 DEF WorkerPrint, MainPhase, PoolTypes, Closing, vars
  <2>3. WorkerPhase'
    BY <1>8 DEF WorkerPrint, WorkerPhase, PoolTypes, vars
  <2> QED BY <1>8, <2>1, <2>2, <2>3 DEF WorkerPrint, PoolTypes
<1>9. ASSUME NEW t \in Threads, QueueStep(t) \/ PoolSpurious(t) PROVE InvPool'
  <2>1. Step(t) \/ SpuriousWakeup(t) BY <1>9 DEF QueueStep, PoolSpurious
  <2>2. UNCHANGED client BY <1>9 DEF QueueStep, PoolSpurious
  <2>3. PoolTypes' BY <2>2 DEF client, PoolTypes
  <2>4. op' = op BY <2>1, QueueStepMoves
  <2>5. MainPhase' BY <2>2, <2>4 DEF client, MainPhase, Closing
  <2>6. ASSUME NEW w \in Workers PROVE
          LET answered == wpc[w] = "pop" /\ at'[w] \in {"unlock", "idle"}
          IN  /\ wpc[w] # "pop" => at'[w] = "idle"
              /\ answered => ret'[w] # None
              /\ ret'[w] = Closed => answered \/ wpc[w] = "exit"
              /\ wpc[w] = "exit" => ret'[w] = Closed
    <3>1. CASE t = w
      <4>1. at[w] # "idle" BY <2>1, <3>1, QueueStepMoves
      <4>2. wpc[w] = "pop" /\ op[w] = "pop" BY <4>1 DEF WorkerPhase
      <4>3. \/ /\ ret'[w] = ret[w]
               /\ at[w] = "unlock" <=> at'[w] \in {"unlock", "idle"}
            \/ at'[w] = "unlock" /\ ret'[w] \in Jobs \cup {Closed}
        BY <2>1, <3>1, <4>2, QueueStepMoves
      <4> QED BY <4>1, <4>2, <4>3, JobAssumption DEF WorkerPhase
    <3>2. CASE t # w
      BY <2>1, <3>2, QueueStepMoves DEF WorkerPhase
    <3> QED BY <3>1, <3>2
  <2>7. WorkerPhase' BY <2>2, <2>4, <2>6 DEF client, WorkerPhase
  <2> QED BY <2>2, <2>3, <2>5, <2>7 DEF client
<1>10. CASE UNCHANGED allVars
  BY <1>10 DEF allVars, client, vars, PoolTypes, MainPhase, WorkerPhase, Closing
<1> QED BY <1>2, <1>3, <1>4, <1>5, <1>6, <1>7, <1>8, <1>9, <1>10
        DEF NextPool, MainStep, WorkerStep

(* The invariant of the queue and of the programs holds in every reachable state of a program. *)
THEOREM PoolInvariant == SpecPool => [](IInv /\ InvPool)
<1>1. IInv /\ InvPool /\ [NextPool]_allVars => IInv' /\ InvPool'
  BY PoolStepAllowed, StepInv, PoolStepInv
<1> QED BY <1>1, InitPoolInv, PTL DEF SpecPool

(* fibs, fauxgrep-mt and fhistogram-mt use the queue only as job_queue.h allows, so that what is
   proved of the queue under its most general client holds inside every one of them. *)
THEOREM KeepsContract == SpecPool => UsesQueueAsAllowed
<1>1. InitPool => Init BY DEF InitPool
<1> QED BY <1>1, PoolInvariant, PoolStepAllowed, PTL DEF SpecPool, Spec, UsesQueueAsAllowed

-----------------------------------------------------------------------------
(* Where the jobs are.                                                     *)

(* Taking the first element of a sequence and adding one at its end, as sets. *)
LEMMA ElementsTail ==
  ASSUME NEW s \in Seq(Jobs), s # <<>>
  PROVE  Elements(s) = {Head(s)} \cup Elements(Tail(s)) /\ Len(s) = Len(Tail(s)) + 1
<1>1. /\ Len(s) \in Nat /\ Len(s) # 0 /\ DOMAIN s = 1 .. Len(s)
      /\ Tail(s) \in Seq(Jobs) /\ Len(Tail(s)) = Len(s) - 1
      /\ DOMAIN Tail(s) = 1 .. Len(s) - 1
      /\ \A i \in 1 .. Len(s) - 1 : Tail(s)[i] = s[i + 1]
  BY LenProperties, EmptySeq, HeadTailProperties
<1>2. Head(s) = s[1] BY <1>1
<1>3. ASSUME NEW i \in DOMAIN s PROVE s[i] \in {Head(s)} \cup Elements(Tail(s))
  <2>1. CASE i = 1 BY <2>1, <1>2
  <2>2. CASE i # 1
    <3>1. i - 1 \in DOMAIN Tail(s) /\ (i - 1) + 1 = i BY <2>2, <1>1
    <3> QED BY <3>1, <1>1 DEF Elements
  <2> QED BY <2>1, <2>2
<1>4. ASSUME NEW i \in DOMAIN Tail(s) PROVE Tail(s)[i] \in Elements(s)
  <2>1. i + 1 \in DOMAIN s /\ Tail(s)[i] = s[i + 1] BY <1>1
  <2> QED BY <2>1 DEF Elements
<1>5. Head(s) \in Elements(s)
  <2>1. 1 \in DOMAIN s BY <1>1
  <2> QED BY <2>1, <1>2 DEF Elements
<1>6. Elements(s) \subseteq {Head(s)} \cup Elements(Tail(s)) BY <1>3 DEF Elements
<1>7. Elements(Tail(s)) \subseteq Elements(s) BY <1>4 DEF Elements
<1> QED BY <1>1, <1>5, <1>6, <1>7

(* A job that is appended joins the jobs of a sequence and removes none. *)
LEMMA ElementsAppend ==
  ASSUME NEW s \in Seq(Jobs), NEW j \in Jobs
  PROVE  Elements(Append(s, j)) = Elements(s) \cup {j} /\ Len(Append(s, j)) = Len(s) + 1
<1>1. /\ Len(s) \in Nat /\ DOMAIN s = 1 .. Len(s)
      /\ Append(s, j) \in Seq(Jobs) /\ Len(Append(s, j)) = Len(s) + 1
      /\ DOMAIN Append(s, j) = 1 .. Len(s) + 1
      /\ \A i \in 1 .. Len(s) : Append(s, j)[i] = s[i]
      /\ Append(s, j)[Len(s) + 1] = j
  BY LenProperties, AppendProperties
<1>2. ASSUME NEW i \in DOMAIN Append(s, j) PROVE Append(s, j)[i] \in Elements(s) \cup {j}
  <2>1. i \in DOMAIN s \/ i = Len(s) + 1 BY <1>1
  <2> QED BY <2>1, <1>1 DEF Elements
<1>3. ASSUME NEW i \in DOMAIN s PROVE s[i] \in Elements(Append(s, j))
  <2>1. i \in DOMAIN Append(s, j) /\ s[i] = Append(s, j)[i] BY <1>1
  <2> QED BY <2>1 DEF Elements
<1>4. j \in Elements(Append(s, j))
  <2>1. Len(s) + 1 \in DOMAIN Append(s, j) BY <1>1
  <2> QED BY <2>1, <1>1 DEF Elements
<1>5. Elements(Append(s, j)) \subseteq Elements(s) \cup {j} BY <1>2 DEF Elements
<1>6. Elements(s) \subseteq Elements(Append(s, j)) BY <1>3 DEF Elements
<1> QED BY <1>1, <1>4, <1>5, <1>6

(* The slots that hold a job are the mapped queue of JobQueueFifo. *)
LEMMA QueuedIsHeld == IInv => Queued = Elements(Held)
<1> SUFFICES ASSUME IInv PROVE Queued = Elements(Held) OBVIOUS
<1>1. filled \in Nat /\ filled <= Size /\ DOMAIN Held = 1 .. filled
  BY SizeAssumption DEF IInv, TypeOK, Held
<1>2. ASSUME NEW k \in Slots, k < filled PROVE array[(tail + k) % Size] \in Elements(Held)
  <2>1. k + 1 \in 1 .. filled /\ (k + 1) - 1 = k BY <1>1, <1>2, SizeAssumption DEF Slots
  <2>2. Held[k + 1] = array[(tail + k) % Size] BY <2>1 DEF Held
  <2> QED BY <2>1, <2>2, <1>1 DEF Elements
<1>3. ASSUME NEW i \in 1 .. filled PROVE Held[i] \in Queued
  <2>1. i - 1 \in Slots /\ i - 1 < filled BY <1>1, SizeAssumption DEF Slots
  <2> QED BY <2>1 DEF Held, Queued
<1>4. Queued \subseteq Elements(Held) BY <1>2 DEF Queued
<1>5. Elements(Held) \subseteq Queued BY <1>1, <1>3 DEF Elements
<1> QED BY <1>4, <1>5

Holders == {w \in Workers : InHand(w) # {}}
Total == Len(toRead) + Cardinality(Pushing) + filled + Len(printed) + Cardinality(Holders)

(* The sums in EveryJobInOnePlace are of numbers. *)
LEMMA TotalTerms ==
  ASSUME IInv, InvPool
  PROVE  /\ Len(toRead) \in Nat /\ filled \in Nat /\ Len(printed) \in Nat
         /\ IsFiniteSet(Holders) /\ Cardinality(Holders) \in Nat
         /\ Pushing = {} \/ Pushing = {ret[Main]}
         /\ Cardinality({}) = 0 /\ Cardinality({ret[Main]}) = 1
         /\ Cardinality(Pushing) \in Nat
<1>1. Len(toRead) \in Nat /\ filled \in Nat /\ Len(printed) \in Nat
  BY LenProperties, SizeAssumption DEF IInv, TypeOK, InvPool, PoolTypes
<1>2. IsFiniteSet(Holders) /\ Cardinality(Holders) \in Nat
  <2>1. Holders \in SUBSET Workers BY DEF Holders
  <2>2. IsFiniteSet(Workers) BY DEF InvPool, ThreadsOfProgram
  <2> QED BY <2>1, <2>2, FS_Subset, FS_CardinalityType
<1>3. Pushing = {} \/ Pushing = {ret[Main]} BY DEF Pushing
<1>4. Cardinality({}) = 0 /\ Cardinality({ret[Main]}) = 1 BY FS_EmptySet, FS_Singleton
<1>5. Cardinality(Pushing) \in Nat
  <2>1. CASE Pushing = {} BY <2>1, <1>4
  <2>2. CASE Pushing = {ret[Main]} BY <2>2, <1>4
  <2> QED BY <2>1, <2>2, <1>3
<1> QED BY <1>1, <1>2, <1>3, <1>4, <1>5

(* A step that moves no job leaves every place as it is. *)
LEMMA NothingMoves ==
  ASSUME UNCHANGED <<toRead, printed, array, tail, filled>>, Pushing' = Pushing,
         \A w \in Workers : InHand(w)' = InHand(w)
  PROVE  (UNION Whereabouts)' = UNION Whereabouts /\ Total' = Total
<1>1. Queued' = Queued BY DEF Queued
<1>2. Holders' = Holders BY DEF Holders
<1>3. {InHand(w) : w \in Workers}' = {InHand(w) : w \in Workers} OBVIOUS
<1>4. Whereabouts' = Whereabouts BY <1>1, <1>3 DEF Whereabouts
<1> QED BY <1>2, <1>4 DEF Total

(* Only the store of a push changes what main is pushing, and only the take of a pop what a
   worker has been handed (job_queue.c:54-56 and 76-78). *)
LEMMA QueueStepKeeps ==
  ASSUME IInv, IInv', InvPool, NEW t \in Threads, Step(t) \/ SpuriousWakeup(t), UNCHANGED client
  PROVE  /\ ~Store(t) => Pushing' = Pushing
         /\ \A w \in Workers : InHand(w)' = InHand(w) \/ (Take(t) /\ w = t)
<1> USE PoolThreads DEF InvPool
<1>1. op' = op /\ at[t] # "idle" BY QueueStepMoves
<1>2. ASSUME ~Store(t) PROVE Pushing' = Pushing
  <2>1. CASE t = Main
    <3>1. CASE op[t] = "push"
      <4>1. at[t] # "body"
        <5>1. SUFFICES ASSUME at[t] = "body" PROVE FALSE OBVIOUS
        <5> QED BY <1>2, <3>1, <5>1 DEF Step, Acquire, Mark, Wait, Proceed, GiveUp, Store, Take,
               Free, Unlock, DestroyMutex, SpuriousWakeup
      <4>2. ret'[t] = ret[t] /\ (at[t] = "unlock" <=> at'[t] \in {"unlock", "idle"})
        BY <3>1, <4>1, QueueStepMoves
      <4> QED BY <1>1, <2>1, <4>2 DEF Pushing
    <3>2. CASE op[t] # "push" BY <1>1, <2>1, <3>2 DEF Pushing
    <3> QED BY <3>1, <3>2
  <2>2. CASE t # Main
    BY <1>1, <2>2, QueueStepMoves DEF Pushing
  <2> QED BY <2>1, <2>2
<1>3. ASSUME NEW w \in Workers, ~(Take(t) /\ w = t) PROVE InHand(w)' = InHand(w)
  <2>1. wpc' = wpc /\ job' = job BY DEF client
  <2>2. CASE wpc[w] # "pop" BY <2>1, <2>2 DEF InHand
  <2>3. CASE wpc[w] = "pop" /\ w # t
    BY <2>1, <2>3, QueueStepMoves DEF InHand, Delivered
  <2>4. CASE wpc[w] = "pop" /\ w = t
    <3>1. op[t] = "pop" BY <2>4 DEF WorkerPhase
    <3>2. at[t] # "body" \/ at'[t] # "unlock"
      <4>1. SUFFICES ASSUME at[t] = "body", at'[t] = "unlock" PROVE FALSE OBVIOUS
      <4>2. at[t] = "body" => at'[t] = at[t] \/ Take(t)
        BY <3>1, <4>1, <1>3, <2>4 DEF Step, Acquire, Mark, Wait, Proceed, GiveUp, Store, Take,
               Free, Unlock, DestroyMutex, SpuriousWakeup
      <4> QED BY <4>1, <4>2, <1>3, <2>4
    <3>3. \/ /\ ret'[t] = ret[t]
             /\ at[t] = "unlock" <=> at'[t] \in {"unlock", "idle"}
          \/ at[t] = "loop" /\ at'[t] = "unlock" /\ ret'[t] = Closed
      BY <3>1, <3>2, QueueStepMoves
    <3> QED BY <1>1, <2>1, <2>4, <3>3 DEF InHand, Delivered
  <2> QED BY <2>2, <2>3, <2>4
<1> QED BY <1>2, <1>3

(* A job that the push stores goes from main to the ring, and one that the pop takes goes from
   the ring to the worker that popped it. *)
LEMMA QueueStepConserves ==
  ASSUME IInv, IInv', InvPool, InvPool',
         NEW t \in Threads, Step(t) \/ SpuriousWakeup(t), UNCHANGED client
  PROVE  (UNION Whereabouts)' = UNION Whereabouts /\ Total' = Total
<1>0. ThreadsOfProgram BY DEF InvPool
<1> USE <1>0, PoolThreads
<1> DEFINE Hands == UNION {InHand(w) : w \in Workers}
<1>1. /\ UNION Whereabouts
             = Elements(toRead) \cup Pushing \cup Queued \cup Elements(printed) \cup Hands
      /\ (UNION Whereabouts)'
             = Elements(toRead) \cup Pushing' \cup Queued' \cup Elements(printed) \cup Hands'
  BY DEF Whereabouts, client
<1>2. CASE Store(t)
  <2>1. ret[t] \in Jobs /\ Held' = Append(Held, ret[t]) BY <1>2, StoreAppends
  <2>2. Queued' = Queued \cup {ret[t]}
    <3>1. Queued = Elements(Held) BY QueuedIsHeld
    <3>2. Queued' = Elements(Held)'
      <4>1. (IInv => Queued = Elements(Held))' BY QueuedIsHeld, PTL
      <4> QED BY <4>1
    <3>3. Elements(Held)' = Elements(Held') BY DEF Elements
    <3> QED BY <2>1, <3>1, <3>2, <3>3, HeldSeq, ElementsAppend
  <2>3. t = Main BY <1>2 DEF Store, IInv, InvCalls, InvPool, ThreadsOfProgram
  <2>4. Pushing = {ret[t]} BY <1>2, <2>3 DEF Pushing, Store
  <2>5. Pushing' = {}
    <3>1. at'[t] = "unlock" BY <1>2 DEF Store, Broadcast, IInv, TypeOK
    <3> QED BY <2>3, <3>1 DEF Pushing
  <2>6. \A w \in Workers : InHand(w)' = InHand(w)
    BY <2>3, QueueStepKeeps
  <2>7. Hands' = Hands /\ Holders' = Holders BY <2>6 DEF Holders
  <2>8. (UNION Whereabouts)' = UNION Whereabouts BY <1>1, <2>2, <2>4, <2>5, <2>7
  <2>9. filled' = filled + 1 BY <1>2 DEF Store
  <2>10. Total' = Total
    <3>1. Cardinality(Pushing) = 1 /\ Cardinality(Pushing)' = 0
      BY <2>3, <2>4, <2>5, TotalTerms
    <3> QED BY <2>7, <2>9, <3>1, TotalTerms DEF Total, client
  <2> QED BY <2>8, <2>10
<1>3. CASE Take(t)
  <2>1. /\ Held # <<>> /\ ret' = [ret EXCEPT ![t] = Head(Held)] /\ Held' = Tail(Held)
        /\ Head(Held) \in Jobs
    BY <1>3, TakeRemoves, HeldSeq, HeadTailProperties
  <2>2. Queued = {Head(Held)} \cup Queued'
    <3>1. Queued = Elements(Held) BY QueuedIsHeld
    <3>2. Queued' = Elements(Held)'
      <4>1. (IInv => Queued = Elements(Held))' BY QueuedIsHeld, PTL
      <4> QED BY <4>1
    <3>3. Elements(Held)' = Elements(Held') BY DEF Elements
    <3> QED BY <2>1, <3>1, <3>2, <3>3, HeldSeq, ElementsTail
  <2>3. t \in Workers BY <1>3 DEF Take, IInv, InvCalls, Workers
  <2>4. wpc[t] = "pop" /\ wpc' = wpc
    BY <1>3, <2>3 DEF Take, InvPool, WorkerPhase, client
  <2>5. InHand(t) = {} BY <1>3, <2>4 DEF InHand, Take
  <2>6. InHand(t)' = {Head(Held)}
    <3>1. ret'[t] = Head(Held) /\ at'[t] = "unlock"
      BY <1>3, <2>1 DEF Take, Broadcast, IInv, TypeOK
    <3> QED BY <2>1, <2>4, <3>1, JobAssumption DEF InHand, Delivered
  <2>7. ASSUME NEW w \in Workers, w # t PROVE InHand(w)' = InHand(w)
    BY <2>7, QueueStepKeeps
  <2>8. Pushing' = Pushing
    <3>1. ~Store(t) BY <1>3 DEF Take, Store
    <3> QED BY <3>1, QueueStepKeeps
  <2>9. Hands' = Hands \cup {Head(Held)} BY <2>3, <2>5, <2>6, <2>7
  <2>10. (UNION Whereabouts)' = UNION Whereabouts BY <1>1, <2>2, <2>8, <2>9
  <2>11. Holders' = Holders \cup {t} /\ t \notin Holders
    BY <2>3, <2>5, <2>6, <2>7 DEF Holders
  <2>12. Cardinality(Holders') = Cardinality(Holders) + 1
    BY <2>11, TotalTerms, FS_AddElement
  <2>13. filled' = filled - 1 /\ Cardinality(Pushing') \in Nat
    <3>1. Cardinality(Pushing) \in Nat BY TotalTerms
    <3> QED BY <1>3, <2>8, <3>1 DEF Take
  <2>14. Total' = Total
    BY <2>8, <2>12, <2>13, TotalTerms DEF Total, client
  <2> QED BY <2>10, <2>14
<1>4. CASE ~Store(t) /\ ~Take(t)
  <2>1. UNCHANGED <<array, tail, filled>>
    BY <1>4 DEF Step, Acquire, Mark, Wait, Proceed, GiveUp, Free, Unlock, DestroyMutex,
       SpuriousWakeup, ring
  <2>2. Pushing' = Pushing /\ \A w \in Workers : InHand(w)' = InHand(w)
    BY <1>4, QueueStepKeeps
  <2> QED BY <2>1, <2>2, NothingMoves DEF client
<1> QED BY <1>2, <1>3, <1>4

(* No step of a program loses, doubles or invents a job (fibs.c:54-71 and 107-114). *)
LEMMA PoolStepConserves ==
  ASSUME IInv, IInv', InvPool, InvPool', [NextPool]_allVars
  PROVE  (UNION Whereabouts)' = UNION Whereabouts /\ Total' = Total
<1>0. ThreadsOfProgram BY DEF InvPool
<1> USE <1>0, PoolThreads
<1> DEFINE Hands == UNION {InHand(w) : w \in Workers}
<1>1. UNION Whereabouts = Elements(toRead) \cup Pushing \cup Queued \cup Elements(printed) \cup Hands
  BY DEF Whereabouts
<1>2. (UNION Whereabouts)'
         = Elements(toRead)' \cup Pushing' \cup Queued' \cup Elements(printed)' \cup Hands'
  BY DEF Whereabouts
<1>3. TypeOK BY DEF IInv
<1>4. ASSUME UNCHANGED <<op, at, ret, wpc, job>>
      PROVE  Pushing' = Pushing /\ \A w \in Workers : InHand(w)' = InHand(w)
  BY <1>4 DEF Pushing, InHand, Delivered
<1>5. CASE MainPush
  <2>1. /\ toRead \in Seq(Jobs) /\ toRead # <<>> /\ toRead' = Tail(toRead)
        /\ Head(toRead) \in Jobs
    BY <1>5, HeadTailProperties DEF MainPush, InvPool, PoolTypes
  <2>2. Pushing = {} BY <1>5 DEF MainPush, BeginPush, Pushing
  <2>3. Pushing' = {Head(toRead)}
    <3>1. op'[Main] = "push" /\ at'[Main] \in {"blocked", "loop"} /\ ret'[Main] = Head(toRead)
      BY <1>3, <1>5 DEF MainPush, BeginPush, Enter, TypeOK
    <3> QED BY <3>1 DEF Pushing
  <2>4. ASSUME NEW w \in Workers PROVE InHand(w)' = InHand(w)
    BY <1>3, <1>5 DEF MainPush, BeginPush, Enter, TypeOK, InHand, Delivered
  <2>5. Hands' = Hands /\ Holders' = Holders BY <2>4 DEF Holders
  <2>6. Queued' = Queued /\ filled' = filled /\ printed' = printed
    BY <1>5 DEF MainPush, BeginPush, Enter, ring, Queued
  <2>7. Elements(toRead) = {Head(toRead)} \cup Elements(toRead') /\ Len(toRead) = Len(toRead') + 1
    BY <2>1, ElementsTail
  <2>8. Elements(toRead)' = Elements(toRead') /\ Elements(printed)' = Elements(printed)
    BY <2>6 DEF Elements
  <2>9. (UNION Whereabouts)' = UNION Whereabouts
    BY <1>1, <1>2, <2>2, <2>3, <2>5, <2>6, <2>7, <2>8
  <2>10. Cardinality(Pushing) = 0 /\ Cardinality(Pushing') = 1
    BY <2>2, <2>3, FS_EmptySet, FS_Singleton
  <2>11. Len(toRead') \in Nat BY <2>1, LenProperties, HeadTailProperties
  <2>12. Total' = Total BY <2>5, <2>6, <2>7, <2>10, <2>11, TotalTerms DEF Total
  <2> QED BY <2>9, <2>12
<1>6. CASE MainDestroy
  <2>1. Pushing' = Pushing
    BY <1>3, <1>6 DEF MainDestroy, BeginDestroy, Enter, Pushing, TypeOK, Main
  <2>2. \A w \in Workers : InHand(w)' = InHand(w)
    BY <1>3, <1>6 DEF MainDestroy, BeginDestroy, Enter, TypeOK, InHand, Delivered
  <2> QED BY <1>6, <2>1, <2>2, NothingMoves DEF MainDestroy, BeginDestroy, Enter, ring
<1>7. CASE MainJoin
  <2>1. UNCHANGED <<toRead, printed, array, tail, filled, op, at, ret, wpc, job>>
    BY <1>7 DEF MainJoin, vars
  <2> QED BY <2>1, <1>4, NothingMoves
<1>8. ASSUME NEW w \in Workers, WorkerPop(w)
      PROVE  (UNION Whereabouts)' = UNION Whereabouts /\ Total' = Total
  <2>1. Pushing' = Pushing
    BY <1>3, <1>8 DEF WorkerPop, BeginPop, Enter, Pushing, TypeOK
  <2>2. \A v \in Workers : InHand(v)' = InHand(v)
    BY <1>3, <1>8 DEF WorkerPop, BeginPop, Enter, TypeOK, InHand, Delivered, InvPool, PoolTypes
  <2> QED BY <1>8, <2>1, <2>2, NothingMoves DEF WorkerPop, BeginPop, Enter, ring
<1>9. ASSUME NEW w \in Workers, WorkerReturn(w)
      PROVE  (UNION Whereabouts)' = UNION Whereabouts /\ Total' = Total
  <2>1. UNCHANGED <<toRead, printed, array, tail, filled, op, at, ret>>
    BY <1>9 DEF WorkerReturn, vars
  <2>2. ret[w] # None BY <1>9 DEF WorkerReturn, InvPool, WorkerPhase
  <2>3. ASSUME NEW v \in Workers PROVE InHand(v)' = InHand(v)
    <3>1. CASE v # w
      <4>1. wpc'[v] = wpc[v] /\ job'[v] = job[v]
        BY <1>9, <3>1 DEF WorkerReturn, InvPool, PoolTypes
      <4> QED BY <2>1, <4>1 DEF InHand, Delivered
    <3>2. CASE v = w
      <4>1. InHand(w) = {ret[w]} \ {None, Closed} BY <1>9 DEF WorkerReturn, InHand, Delivered
      <4>2. CASE ret[w] = Closed
        <5>1. wpc'[w] = "exit" BY <1>9, <4>2 DEF WorkerReturn, InvPool, PoolTypes
        <5>2. InHand(w)' = {} BY <5>1 DEF InHand
        <5> QED BY <3>2, <4>1, <4>2, <5>2
      <4>3. CASE ret[w] # Closed
        <5>1. wpc'[w] = "work" /\ job'[w] = ret[w]
          BY <1>9, <4>3 DEF WorkerReturn, InvPool, PoolTypes
        <5>2. InHand(w)' = {ret[w]} BY <5>1 DEF InHand
        <5> QED BY <2>2, <3>2, <4>1, <4>3, <5>2
      <4> QED BY <4>2, <4>3
    <3> QED BY <3>1, <3>2
  <2>4. Pushing' = Pushing BY <2>1 DEF Pushing
  <2> QED BY <2>1, <2>3, <2>4, NothingMoves
<1>10. ASSUME NEW w \in Workers, WorkerLockStdout(w)
       PROVE  (UNION Whereabouts)' = UNION Whereabouts /\ Total' = Total
  <2>1. UNCHANGED <<toRead, printed, array, tail, filled, op, at, ret, job>>
    BY <1>10 DEF WorkerLockStdout, vars
  <2>2. \A v \in Workers : InHand(v)' = InHand(v)
    BY <1>10, <2>1 DEF WorkerLockStdout, InHand, Delivered, InvPool, PoolTypes
  <2>3. Pushing' = Pushing BY <2>1 DEF Pushing
  <2> QED BY <2>1, <2>2, <2>3, NothingMoves
<1>11. ASSUME NEW w \in Workers, WorkerPrint(w)
       PROVE  (UNION Whereabouts)' = UNION Whereabouts /\ Total' = Total
  <2>1. /\ UNCHANGED <<toRead, array, tail, filled, op, at, ret>>
        /\ printed' = Append(printed, job[w]) /\ job[w] \in Jobs /\ printed \in Seq(Jobs)
    BY <1>11 DEF WorkerPrint, vars, InvPool, PoolTypes, WorkerPhase
  <2>2. InHand(w) = {job[w]} /\ InHand(w)' = {}
    BY <1>11 DEF WorkerPrint, InHand, InvPool, PoolTypes
  <2>3. ASSUME NEW v \in Workers, v # w PROVE InHand(v)' = InHand(v)
    BY <1>11, <2>1, <2>3 DEF WorkerPrint, InHand, Delivered, InvPool, PoolTypes
  <2>4. Hands = Hands' \cup {job[w]} BY <2>2, <2>3
  <2>5. Elements(printed') = Elements(printed) \cup {job[w]} /\ Len(printed') = Len(printed) + 1
    BY <2>1, ElementsAppend
  <2>6. Elements(printed)' = Elements(printed') /\ Elements(toRead)' = Elements(toRead)
    BY <2>1 DEF Elements
  <2>7. Pushing' = Pushing /\ Queued' = Queued BY <2>1 DEF Pushing, Queued
  <2>8. (UNION Whereabouts)' = UNION Whereabouts
    BY <1>1, <1>2, <2>4, <2>5, <2>6, <2>7
  <2>9. w \in Holders /\ Holders' = Holders \ {w} BY <2>2, <2>3 DEF Holders
  <2>10. Cardinality(Holders') = Cardinality(Holders) - 1
    BY <2>9, TotalTerms, FS_RemoveElement
  <2>11. Cardinality(Pushing') = Cardinality(Pushing) /\ Cardinality(Pushing) \in Nat
    BY <2>7, TotalTerms
  <2>12. Total' = Total
    <3>1. Len(toRead)' = Len(toRead) /\ filled' = filled BY <2>1
    <3>2. Len(toRead) \in Nat /\ filled \in Nat /\ Len(printed) \in Nat /\ Cardinality(Holders) \in Nat
      BY TotalTerms
    <3>3. Total' = Len(toRead) + Cardinality(Pushing) + filled + (Len(printed) + 1)
                     + (Cardinality(Holders) - 1)
      BY <2>5, <2>10, <2>11, <3>1 DEF Total
    <3>4. Total = Len(toRead) + Cardinality(Pushing) + filled + Len(printed) + Cardinality(Holders)
      BY DEF Total
    <3>5. PICK before \in Int : before = Len(toRead) + Cardinality(Pushing) + filled BY <2>11, <3>2
    <3>6. PICK out \in Int : out = Len(printed) BY <3>2
    <3>7. PICK held \in Int : held = Cardinality(Holders) BY <3>2
    <3>8. Total' = before + (out + 1) + (held - 1) BY ONLY <3>3, <3>5, <3>6, <3>7
    <3>9. Total = before + out + held BY ONLY <3>4, <3>5, <3>6, <3>7
    <3>10. before + (out + 1) + (held - 1) = before + out + held BY ONLY <3>5, <3>6, <3>7
    <3> QED BY ONLY <3>8, <3>9, <3>10
  <2> QED BY <2>8, <2>12
<1>12. ASSUME NEW t \in Threads, QueueStep(t) \/ PoolSpurious(t)
       PROVE  (UNION Whereabouts)' = UNION Whereabouts /\ Total' = Total
  BY <1>12, QueueStepConserves DEF QueueStep, PoolSpurious
<1>13. CASE UNCHANGED allVars
  <2>1. UNCHANGED <<toRead, printed, array, tail, filled, op, at, ret, wpc, job>>
    BY <1>13 DEF allVars, client, vars
  <2> QED BY <2>1, <1>4, NothingMoves
<1> QED BY <1>5, <1>6, <1>7, <1>8, <1>9, <1>10, <1>11, <1>12, <1>13
        DEF NextPool, MainStep, WorkerStep

(* Before anything is read the whole input is unread (fibs.c:100-107). *)
LEMMA InitPlaces == InitPool => UNION Whereabouts = Elements(Input) /\ Total = Len(Input)
<1> SUFFICES ASSUME InitPool PROVE UNION Whereabouts = Elements(Input) /\ Total = Len(Input)
  OBVIOUS
<1>1. toRead = Input /\ printed = <<>> /\ filled = 0 BY DEF InitPool, Init
<1>2. Pushing = {} BY PoolThreads DEF InitPool, Init, Pushing
<1>3. Queued = {} BY <1>1, SizeAssumption DEF Queued, Slots
<1>4. \A w \in Workers : InHand(w) = {} BY DEF InitPool, InHand
<1>5. Elements(printed) = {} /\ Len(printed) = 0
  <2>1. DOMAIN <<>> = {} /\ Len(<<>>) = 0 OBVIOUS
  <2> QED BY <1>1, <2>1 DEF Elements
<1>6. UNION Whereabouts = Elements(Input)
  BY <1>1, <1>2, <1>3, <1>4, <1>5 DEF Whereabouts
<1>7. Holders = {} BY <1>4 DEF Holders
<1>8. Len(Input) \in Nat BY InputAssumption, LenProperties
<1>9. Total = Len(Input) BY <1>1, <1>2, <1>5, <1>7, <1>8, FS_EmptySet DEF Total
<1> QED BY <1>6, <1>9

(* Whatever the number of workers and the capacity of the queue, and however main and the
   workers interleave, each line of the input is at any time in exactly one place: unread, being
   pushed, in the ring, with one worker, or printed. *)
THEOREM OnePlace == SpecPool => []EveryJobInOnePlace
<1> DEFINE Conserved == UNION Whereabouts = Elements(Input) /\ Total = Len(Input)
<1>1. InitPool => Conserved BY InitPlaces
<1>2. IInv /\ IInv' /\ InvPool /\ InvPool' /\ Conserved /\ [NextPool]_allVars => Conserved'
  <2>1. Elements(Input)' = Elements(Input) BY DEF Elements
  <2> QED BY <2>1, PoolStepConserves
<1>3. Conserved => EveryJobInOnePlace BY DEF Total, Holders, EveryJobInOnePlace
<1> HIDE DEF Conserved
<1> QED BY <1>1, <1>2, <1>3, PoolInvariant, PTL DEF SpecPool

(* When main has joined its workers every line of the input has been printed, once: nothing is
   left in the queue or with a worker (fibs.c:114-122).  The workers stop only when a pop
   fails, and a pop fails only when the queue is destroyed and drained. *)
THEOREM AllPrintedWhenDone == SpecPool => []DonePrintsAll
<1>1. IInv /\ InvPool /\ EveryJobInOnePlace => DonePrintsAll
  <2> SUFFICES ASSUME IInv, InvPool, EveryJobInOnePlace, mpc = "done"
               PROVE  Elements(printed) = Elements(Input) /\ Len(printed) = Len(Input)
    BY DEF DonePrintsAll
  <2>1. toRead = <<>> /\ Closing BY DEF InvPool, MainPhase
  <2>2. PICK w \in Workers : wpc[w] # "none" BY DEF InvPool
  <2>3. wpc[w] = "exit" /\ ret[w] = Closed BY <2>2 DEF InvPool, MainPhase, WorkerPhase
  <2>4. filled = 0 BY <2>2, <2>3, PoolThreads DEF IInv, InvPool, ClosedMeansDrained
  <2>5. Pushing = {} BY <2>1 DEF Pushing, Closing, Main
  <2>6. \A v \in Workers : InHand(v) = {} BY DEF InHand, InvPool, MainPhase
  <2>7. Queued = {} BY <2>4, SizeAssumption DEF Queued, Slots
  <2>8. Elements(toRead) = {} /\ Len(toRead) = 0
    <3>1. DOMAIN <<>> = {} /\ Len(<<>>) = 0 OBVIOUS
    <3> QED BY <2>1, <3>1 DEF Elements
  <2>9. UNION Whereabouts = Elements(printed)
    BY <2>5, <2>6, <2>7, <2>8 DEF Whereabouts
  <2>10. {v \in Workers : InHand(v) # {}} = {} BY <2>6
  <2>11. Len(printed) \in Nat BY LenProperties DEF InvPool, PoolTypes
  <2>12. Cardinality(Pushing) = 0 /\ Cardinality({v \in Workers : InHand(v) # {}}) = 0
    BY <2>5, <2>10, FS_EmptySet
  <2>13. Len(printed) = Len(Input)
    <3>1. 0 + 0 + 0 + Len(printed) + 0 = Len(Input)
      BY <2>4, <2>8, <2>12 DEF EveryJobInOnePlace
    <3> QED BY <2>11, <3>1
  <2> QED BY <2>9, <2>13 DEF EveryJobInOnePlace
<1> QED BY <1>1, OnePlace, PoolInvariant, PTL
=============================================================================
