----------------------------- MODULE WorkerPool -----------------------------
(***************************************************************************)
(* The programs fibs, fauxgrep-mt and fhistogram-mt of A2: main creates    *)
(* its worker threads, pushes one job per input line (or file), destroys   *)
(* the queue and joins the workers; a worker pops until the pop fails, and *)
(* in between works on its job and prints the result under stdout_mutex.   *)
(* The queue is JobQueue, step by step, so that every interleaving of main *)
(* and the workers inside the queue is here too.                           *)
(*                                                                         *)
(* The -n option says how many of the workers are created.  Those exist    *)
(* from the start: main does nothing they could see between creating the   *)
(* first and the last of them.                                             *)
(***************************************************************************)
EXTENDS JobQueue, Sequences

CONSTANTS Input,        \* the jobs main pushes, in order
          MaxSpurious   \* bound on the number of spurious wakeups of a behaviour

ASSUME InputAssumption == /\ Input \in Seq(Jobs)
                          /\ \A i, j \in DOMAIN Input : Input[i] = Input[j] => i = j
ASSUME SpuriousAssumption == MaxSpurious \in Nat

Main == Destroyer
Workers == Consumers

\* The threads of a program: main alone pushes and destroys, and its workers, finitely many, pop.
ThreadsOfProgram == Producers = {Main} /\ IsFiniteSet(Workers)

VARIABLES toRead,      \* the input main has not read yet
          mpc,         \* main: "read", "join" (from the destroy on), "done"
          wpc,         \* wpc[w]: "none", "loop", "pop", "work", "print", "exit"
          job,         \* job[w]: the job worker w holds, or None
          stdoutOwner, \* the thread that has stdout_mutex, or None
          printed,     \* the results printed, in order
          spurious     \* spurious wakeups so far

client == <<toRead, mpc, wpc, job, stdoutOwner, printed>>
allVars == <<vars, client, spurious>>

InitPool == /\ ThreadsOfProgram
            /\ Init
            /\ toRead = Input /\ mpc = "read"
            /\ \E started \in (SUBSET Workers) \ {{}} :
                 wpc = [w \in Workers |-> IF w \in started THEN "loop" ELSE "none"]
            /\ job = [w \in Workers |-> None]
            /\ stdoutOwner = None /\ printed = <<>> /\ spurious = 0

-----------------------------------------------------------------------------
(* main                                                                    *)

MainPush == /\ mpc = "read" /\ toRead # <<>>
            /\ BeginPush(Main, Head(toRead))
            /\ toRead' = Tail(toRead)
            /\ UNCHANGED <<mpc, wpc, job, stdoutOwner, printed, spurious>>

\* Faulty: the queue is destroyed although there is input left, which is then pushed.
MainDestroyEarly == /\ mpc = "read"
                    /\ BeginDestroy(Main)
                    /\ UNCHANGED <<client, spurious>>

MainDestroy == /\ mpc = "read" /\ toRead = <<>>
               /\ BeginDestroy(Main)
               /\ mpc' = "join"
               /\ UNCHANGED <<toRead, wpc, job, stdoutOwner, printed, spurious>>

\* The join loop ends when every worker has returned.
MainJoin == /\ mpc = "join" /\ at[Main] = "idle"
            /\ \A w \in Workers : wpc[w] \in {"exit", "none"}
            /\ mpc' = "done"
            /\ UNCHANGED <<vars, toRead, wpc, job, stdoutOwner, printed, spurious>>

-----------------------------------------------------------------------------
(* worker                                                                  *)

WorkerPop(w) == /\ wpc[w] = "loop"
                /\ BeginPop(w)
                /\ wpc' = [wpc EXCEPT ![w] = "pop"]
                /\ UNCHANGED <<toRead, mpc, job, stdoutOwner, printed, spurious>>

\* The pop has returned: work on the job, or stop on an error.
WorkerReturn(w) ==
  /\ wpc[w] = "pop" /\ at[w] = "idle"
  /\ IF ret[w] = Closed
       THEN wpc' = [wpc EXCEPT ![w] = "exit"] /\ UNCHANGED job
       ELSE wpc' = [wpc EXCEPT ![w] = "work"] /\ job' = [job EXCEPT ![w] = ret[w]]
  /\ UNCHANGED <<vars, toRead, mpc, stdoutOwner, printed, spurious>>

\* The result is computed and stdout_mutex is taken.
WorkerLockStdout(w) == /\ wpc[w] = "work" /\ stdoutOwner = None
                       /\ stdoutOwner' = w
                       /\ wpc' = [wpc EXCEPT ![w] = "print"]
                       /\ UNCHANGED <<vars, toRead, mpc, job, printed, spurious>>

\* The result is printed, stdout_mutex is released and the job is freed.
WorkerPrint(w) == /\ wpc[w] = "print"
                  /\ printed' = Append(printed, job[w])
                  /\ stdoutOwner' = None
                  /\ job' = [job EXCEPT ![w] = None]
                  /\ wpc' = [wpc EXCEPT ![w] = "loop"]
                  /\ UNCHANGED <<vars, toRead, mpc, spurious>>

-----------------------------------------------------------------------------
QueueStep(t) == Step(t) /\ UNCHANGED <<client, spurious>>

PoolSpurious(t) == /\ spurious < MaxSpurious
                   /\ SpuriousWakeup(t)
                   /\ spurious' = spurious + 1
                   /\ UNCHANGED client

MainStep == MainPush \/ MainDestroy \/ MainJoin \/ QueueStep(Main)
WorkerStep(w) == \/ WorkerPop(w) \/ WorkerReturn(w) \/ WorkerLockStdout(w) \/ WorkerPrint(w)
                 \/ QueueStep(w)

NextPool == \/ MainStep
            \/ \E w \in Workers : WorkerStep(w)
            \/ \E t \in Threads : PoolSpurious(t)

SpecPool == InitPool /\ [][NextPool]_allVars

\* Every thread is scheduled as long as it can run.  Nothing more is assumed of the mutexes:
\* a thread may lose the race for a lock as often as others take it.
FairSpecPool == SpecPool /\ WF_allVars(MainStep) /\ \A w \in Workers : WF_allVars(WorkerStep(w))

-----------------------------------------------------------------------------
(* Correctness.                                                            *)

Elements(s) == {s[i] : i \in DOMAIN s}

\* The jobs pop has handed to a worker that has not picked up the result yet.
Delivered(w) == {ret[w]} \ {None, Closed}
InHand(w) == CASE wpc[w] = "pop" /\ (at[w] \in {"unlock", "idle"}) -> Delivered(w)
               [] wpc[w] \in {"work", "print"} -> {job[w]}
               [] OTHER -> {}

Pushing == IF op[Main] = "push" /\ at[Main] \notin {"idle", "unlock"} THEN {ret[Main]} ELSE {}
Queued == {array[(tail + i) % Size] : i \in {k \in Slots : k < filled}}

\* Where the jobs of the input can be.
Whereabouts == {Elements(toRead), Pushing, Queued, Elements(printed)}
                 \cup {InHand(w) : w \in Workers}

\* Every line of the input is in exactly one place at any time: still unread, being pushed,
\* in the ring, with one worker, or printed (fibs.c:54-71 and 107-109).  No job is lost,
\* given to two workers or printed twice, whatever the interleaving and the shutdown.
EveryJobInOnePlace ==
  /\ UNION Whereabouts = Elements(Input)
  /\ Len(toRead) + Cardinality(Pushing) + filled + Len(printed)
       + Cardinality({w \in Workers : InHand(w) # {}}) = Len(Input)

\* When main is past its join loop, and so about to exit, nothing is left to print
\* (fibs.c:114-122).
DonePrintsAll == mpc = "done" => Elements(printed) = Elements(Input) /\ Len(printed) = Len(Input)

\* Every input line is eventually printed, however many workers.
AllPrinted == <>[](Len(printed) = Len(Input))

\* With the default single worker main gets past its join loop, so the program ends
\* (fibs.c:79 and 114-120).
Terminates == Cardinality({w \in Workers : wpc[w] # "none"}) = 1 => <>(mpc = "done")

\* job_queue.h:34-36: a pop that is blocked when job_queue_destroy is called returns.
BlockedPopReturns == \A w \in Workers : (destroy /\ at[w] # "idle") ~> (at[w] = "idle")

\* The programs keep the contract of job_queue.h: no push after the destroy, one destroy, no
\* pop after a pop that failed.
UsesQueueAsAllowed == Spec

-----------------------------------------------------------------------------
(* The inductive invariant behind EveryJobInOnePlace and the contract.     *)

PoolTypes == /\ toRead \in Seq(Jobs) /\ printed \in Seq(Jobs)
             /\ mpc \in {"read", "join", "done"}
             /\ wpc \in [Workers -> {"none", "loop", "pop", "work", "print", "exit"}]
             /\ job \in [Workers -> Jobs \cup {None}]

\* main has begun the destroy exactly when it is past its read loop, with nothing unread.
MainPhase == /\ mpc = "read" <=> ~Closing
             /\ mpc # "read" => toRead = <<>>
             /\ mpc = "done" => \A w \in Workers : wpc[w] \in {"exit", "none"}

\* A worker is inside the queue only from its pop; the pop has answered when it is leaving it.
WorkerPhase ==
  \A w \in Workers :
    LET answered == wpc[w] = "pop" /\ at[w] \in {"unlock", "idle"}
    IN  /\ wpc[w] = "pop" => op[w] = "pop"
        /\ wpc[w] # "pop" => at[w] = "idle"
        /\ answered => ret[w] # None
        /\ ret[w] = Closed => answered \/ wpc[w] = "exit"
        /\ wpc[w] = "exit" => ret[w] = Closed
        /\ wpc[w] \in {"work", "print"} => job[w] \in Jobs

InvPool == /\ ThreadsOfProgram /\ PoolTypes /\ MainPhase /\ WorkerPhase
           /\ \E w \in Workers : wpc[w] # "none"
=============================================================================
