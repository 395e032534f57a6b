# Specifications of the CompSys assignments (A0 - A6)

The repository holds seven independent programming assignments in C and Python. This
directory models the parts in which something can go wrong that a test would hardly reach,
checks the models with TLC on small instances, and proves the most important results for every
size with TLAPS. `PROJECT.json` lists the components, the runs, the line ranges each definition
stands for, the hazards and the theorems; this file explains them.

1. [The system](#1-the-system)
2. [Modules and the code they model](#2-modules-and-the-code-they-model)
3. [The runs](#3-the-runs)
4. [Fairness](#4-fairness)
5. [What is proved](#5-what-is-proved)
6. [Where the code deviates from what it promises](#6-where-the-code-deviates-from-what-it-promises)
7. [What is not modelled](#7-what-is-not-modelled)
8. [Plan](#8-plan)

To repeat a run: `tlc -config <cfg> <module>`; to check the proofs: `tlapm <module>Proofs.tla`.

## 1. The system

### Inventory

| part | state | operations | interaction | hard behaviour |
|---|---|---|---|---|
| A0 `file.c` | position, bytes a character still lacks | classify a byte stream | none | boundaries of the byte ranges, truncated sequences |
| A1 `record.c`, `id_query*.c` | an array of records that grows, an index on it | read, sort, scan, binary search | calls | the array's end, a comparison cut to an int, rows with too few columns |
| A1 `coord_query*.c` | the array, or a k-d tree made of it in place | sort parts, scan, walk | calls | comparisons cut to degrees, records the walk never looks at |
| A2 `job_queue.c` | ring buffer, flag, mutex, three condition variables | init, push, pop, destroy | shared memory: main and the workers | lost wakeups, shutdown with pops in progress, use after free, destruction of a mutex in use |
| A2 `fibs.c`, `fauxgrep-mt.c`, `fhistogram-mt.c` | input, worker threads, output | main loop, worker loop | push, pop, destroy, join, `stdout_mutex` | termination, jobs lost or done twice |
| A2 `histogram.h`, `fhistogram*.c` | one global and one local histogram per worker | update, merge, print | shared memory without a lock | lost additions, merging the same bytes twice |
| A3 `server.py`, `client.py` | table of users, files | register, log in, retrieve | TCP, one handler thread per connection | check-then-act on the table, blocks out of order, short reads |
| A3 `networking.c` (C client) | blocks received, its copy of each file | register, retrieve | TCP to `server.py` | a connection left before its reply is read, refusals taken for files |
| A3, A4 `compsys_helpers.c` | a read buffer, its pointer and count | read and write all of n bytes, read a line | called by the C client and the C peer | short transfers, interrupted calls, a connection that ends early |
| A4 `peer.py` (membership) | network list, its mutex | register, inform, time out | TCP between peers; client thread, server thread, handler threads | unreachable peers, stale entries, restarts, exceptions under a mutex |
| A4 `peer.py` (files) | files on disk, list of files being fetched | fetch, serve | as above | serving half a file, two peers waiting for each other |
| A4 `peer.c` (C peer) | table of peers, its copies | register, pick a peer, fetch | TCP to `peer.py` | holes in the table, old copies, peers that die; its server side is empty |
| A5 `assembly.c` | hash table | set, get, grow | called by the loader and the log | entries hidden by collisions, growth inside a growth |
| A5 `memory.c` | 2^16 pages | read, write of words, halfwords, bytes | called by the loader and the simulator | boundaries, partial writes |
| A5 `main.c`, `read_exec.c` | command line, listing | pass arguments, read lines | fill memory and table | character columns read as data, refused command lines |
| A5 `simulate.c` | 32 registers, PC | decode, execute | memory | encodings of immediates, unreachable branches, instructions that never advance |
| A6 `radix.c` | radix tree, input entry, output batch | add, take, release | calls the allocator | splitting and merging of nodes, partial takes |
| A6 `lib.c` | free lists | allocate, release | called by `radix.c` | a block on a list twice, or on none |

### What makes each part correct

* **File classifier.** Well-formed UTF-8 text is called UTF-8, and ASCII and ISO-8859 are told apart, from
  wherever the deciding byte is.
* **Searches.** Reading and searching stay in the array; a record with the id is returned exactly if the
  file has one; the tree is ordered; the record returned is the nearest of those looked at.
* **Job queue.** One thread at a time is inside; the array is not touched after it was freed;
  the three numbers head, tail and filled agree; a sleeping thread is one with a reason to sleep;
  nobody sleeps on what is torn down; a pop fails only once everything has been handed out. In one
  sentence: it is a bounded FIFO that can be closed, and drains before it closes.
* **Programs on it.** Each line of the input is printed exactly once; the program ends; the programs
  keep to the contract under which the queue is correct.
* **Histogram.** What has been merged and what is still in hand add up to what was counted. With
  several workers the code only guarantees one side of that.
* **File server and clients.** A file the Python client writes is the file the server has; what the C
  client writes is the file or the text of one refusal, never a mixture; only users who registered are
  served; a name that is taken is refused; a request ends.
* **Peers, membership.** No duplicates in a list; in an undisturbed network any two members are
  connected in one direction at least, and a member has somebody to ask; the mutex of the list is
  released and registrations end whatever fails.
* **Peers, files.** Fetches end, nothing is left in the list of files being fetched, and no partial
  file is served (which does not hold, see 6). The C peer's table has no hole and no peer twice; a copy it
  reports as right is what the other peer read; it ends.
* **Buffered reading.** Every byte is delivered once and in order, however reads and writes are cut.
* **Assembly table.** It is the map of `assembly.h`, whatever collisions and growths it has been
  through, and growing ends.
* **Loader and simulator.** Memory holds what the listing shows; the instructions do what RISC-V
  says (for a part of them, see 6); a program of such instructions ends.
* **Radix sort.** What is taken out are the smallest numbers in order; the tree is well formed; every
  block is in the tree once, or free.

## 2. Modules and the code they model

```
A2   JobFifo <== JobQueue (JobQueueFifo is the mapping)
                 JobQueue <-- WorkerPool <-- MCWorkerPool
                 JobQueueFifo, WorkerPool --> JobQueueProofs
     Histogram <-- MCHistogram              Histogram --> HistogramProofs
A3   FileServer <-- MCFileServer            FileServer --> FileServerProofs
A4   PeerNetwork <-- MCPeerNetwork          PeerNetwork --> PeerNetworkProofs
     RetrieveFile <-- CPeer <-- MCRetrieveFile               CPeer --> CPeerProofs
A5   TextMap <== AssemblyTable --> AssemblyTableProofs
     Words <-- RiscvMemory <-- Loader <-- Simulator <-- MCSimulator
                 RiscV is what Simulator is compared with     Simulator --> SimulatorProofs
A6   SortedNumbers <== RadixTree          BlockHeap <-- RadixTree
A0, A1, A3/A4, A6   IdQuery, CoordQuery, FileType, BufferedIo, RadixTree --> SequentialProofs
     MCSequential extends RadixTree, IdQuery, CoordQuery, FileType and BufferedIo
```

`A <== B`: B is shown to implement A by a refinement mapping. `A <-- B`: B extends A.
`A --> B`: B has the proofs about A.

Some definitions have a faulty variant next to them, such as `MustWaitNotFull` above `MustWait` or
`ReceiveAnyStatus` above `Receive`. No specification uses these. `PROJECT.json` pairs each property
with one of them ("mutants"): with the variant in the place of the definition the property fails, so
it does depend on the code being right there.

### A0: FileType

`CheckType` byte by byte, on the seven classes of bytes it tells apart (`ReadByte`, `EndOfBytes`), with
the counter of bytes a UTF-8 character still lacks. The reference is `Utf8`, a definition of well-formed
text, in which every byte has its place in one character.

### A1: IdQuery, CoordQuery

`IdQuery` is a program that looks up ids: `Open` and `ReadRow` fill the array as `read_records` does,
growing it by `realloc` when it is full (new memory holds any id, and a row with too few columns keeps
the one that was there); `KeepOrder` (naive, indexed) or `Sort` (binsort) makes the index; `Ask` is
an id typed, `Scan` and `Search` one comparison each, `Reply` the print. `Comp` cuts the difference of
two ids to an int; if that is no order `qsort` may leave the records in any order.

`CoordQuery` is the same for coordinates. The k-d tree of a part of the array has the part's middle for
its root, so the tree is the array, the parts whose root was made (`nodes`) and those still to sort
(`parts`): `Build` is one call of `generate_tree`, `Walk` one call of `kdtree_walk` and `ScanNext` one turn of the naive loop. The
comparators cut a difference to whole degrees, which `Whole` does with a degree of `Unit` parts.

### A2: JobQueue, JobFifo, JobQueueFifo, WorkerPool

`JobQueue` has the fields of `struct job_queue` as variables (`array`, `head`, `tail`, `filled`,
`destroy`, `allocated` for `array != NULL`), the mutex as the thread that has its lock word
(`owner`) and whether it still exists (`mutexLive`), and for each thread the call it is in (`op`),
its place in it (`at`) and the value in hand (`ret`). A call is cut where other threads can
tell: the call itself (`CallPush`, `CallPop`, `CallDestroy`), getting the lock (`Acquire`), the test
of the while loop (`Wait`, `Proceed`, `GiveUp`), the data movement with its broadcasts (`Store`,
`Take`, `Free`; `Mark` for the flag and broadcast at the start of the destruction), `Unlock`, and
`DestroyMutex`. `SpuriousWakeup` lets a condition wait return for no reason, as POSIX allows.

The threads are the most general callers `job_queue.h` allows: any number of producers and
consumers, one destruction, no push after it or during it, no pop after a failed pop. Pops may
be in progress or begin at any time, before, during and after the destruction.

The pthread calls are modelled as glibc behaves, because the code's fate after
`pthread_mutex_destroy` depends on it: a lock first tests the kind of the mutex and then contends
for the lock word. A thread that calls after the destruction gets EINVAL (which the code ignores)
and runs on without the lock; a thread that was already contending gets the lock word, but its
unlock fails with EINVAL and leaves the word taken; destroying a mutex that has an owner or waiters
fails with EBUSY. POSIX leaves all of this undefined.

`JobFifo` is the abstract queue: a sequence, closed once, that answers `Closed` only when closed and
empty. `JobQueueFifo` maps the ring's segment from `tail` on to that sequence: a push takes effect at
`Store`, a pop at `Take` or `GiveUp`, the destruction at `Mark` and again at `Free`.

`WorkerPool` composes the queue, step by step, with main and the worker functions of the three
programs, which have the same shape: `MainPush`, `MainDestroy`, `MainJoin`; `WorkerPop`,
`WorkerReturn`, `WorkerLockStdout`, `WorkerPrint`. Any non-empty subset of the workers is started
(the option `-n`). What is done with a job is one step.

### A2: Histogram

The workers of `fhistogram-mt.c` as they share `global_histogram`: a byte is the set of bins it
counts in; every `Period` bytes (200000 in the code) and at the end of a file the local histogram is
merged. `merge_histogram` does `to[i] += from[i]` without a lock, so for each bin the load, the
store and the clearing of the local bin are separate actions (`Load`, `Store`, `Clear`). The print in
the loop holds `stdout_mutex`, the one at the end of a file does not (`LockStdout`, `Printed`). A file
that cannot be opened is skipped (`OpenFails`). The queue is the abstract FIFO, which JobQueue was
shown to implement. `fhistogram.c` is the case of one worker.

### A3: FileServer

`server.py` with one handler thread per connection over the unlocked table of users, and clients
that run `client.py` or the C program. `CheckName` and `Insert` are the two halves of a registration,
`ReadHash` and `Login` the two reads of the table in a log-in; `SendBlock` sends the blocks of a reply
in random order as the server does on purpose, and `Close` ends the thread. A read that returns less
than the request is the malformed request the server can meet: `CutHeader`, which ends in one reply,
and `CutPath`, which is answered as malformed and then handled all the same, on a path that was cut.
Hashes and signatures are represented by whose they are.

The Python client: `Ask` sends a registration first and then files or registrations; `Receive` collects
blocks until none is missing; `Write` writes the file; `ShortRead` is a `recv` that returns less than was
asked for; `EndOfReply` is the connection closed on a client that still waits (an empty file has no
block, so its client always ends there). The C program: `Register` leaves its registration on a
connection of its own, `Late[p]`, which the server handles while the program goes on; `GetFile` empties
its copy and asks; `CReceive` counts blocks without a look at status or checksum and writes them when
there are as many as the last one says; `CShortRead` is a read that returned too little, after which the
program dies or writes anything. `get_file` copies eight times the size of its buffer
(`networking.c:177-180`); the model has what the program does as the Makefile builds it, where its
stack has room for that.

### A4: PeerNetwork, RetrieveFile, CPeer

`PeerNetwork` has, for each peer, its list with the state of each timestamp, the holder of
`network_mutex`, whether its server socket is open (`listening`, which comes after the client
thread has started), its client thread, and for each connection the state of the handler that
serves it. Handlers: `Refresh` (the head of `handle`), `Register`, `ReplyRegistered`,
`ReplyExists`, `InformBegin`, `Tell`, `InformEnd`, `AddToNetwork`, `HandleGet`, and `ReplyFailed` (the
except clause). Client: `ClientRegister`, `ClientRegistered`, `ClientGet`, `ClientGot`,
`ClientDropped`. Environment: `Boot`, `Listen`, `Crash` (a peer can boot again after one), `Tick` (more
than 60 seconds pass). A section that takes and gives back the mutex with nothing remote in
between is one action; the informing loop connects to other peers under the mutex and is one
action per peer. A send to a peer that has gone may or may not raise, as TCP has it.

`RetrieveFile` has a file on disk as absent, partly written, whole, or an older copy that is longer;
the list `currently_retreiving` with its mutex; and the client thread and handler of each fetch. `Ask`
puts the file on the list, `Connect`, `Receive` takes it off, `Truncate` (`open(..., "wb")`) and `Write`. At
the other peer `CheckPath` refuses a file that is not there without a look at the list, `Check` takes
`retrieving_mutex` and looks, `Refuse` sends the refusal with the mutex held and gives it back, `Serve`
reads and sends. `Broken`, `Crash`, `Restart` are the environment's. The block transfer is one step (its
reordering is FileServer's subject, and the two share that code's shape). `second_peer/peer.py` is the
same program.

`CPeer` adds peers that run `peer.c`. `CRegister` is the registration with the contact and the table made
of the reply (`Table`, in which an entry whose address and first four digits of the port are this peer's
own is left out, `Alike`); `Fetch` picks a peer at random and asks it for the next of two files;
`SomeBlocks` and `LastBlock` write the blocks at their places in a copy that is never cut, and compare it
with the hash of all the data; `FetchFails` is a refusal or a connection that ended; `PickFails` the
peer with nobody to pick, which divides by zero; `Done` the end of the program. It serves nobody.

### A3, A4: BufferedIo

A connection with the functions of `compsys_helpers.c` at its ends: `writen` (`Writen`, `WriteSome`,
`CloseEnd`), and a reader that uses `readn` (`ReadPlain`), or `readnb` and `readlineb`, which share a
buffer (`Refill`, `Copy`). Each step transfers some of what it could; `Interrupted` is EINTR, `ReadEnds` a
failure or the end of the connection. The bytes are numbered, so that order, loss and repetition show.

### A5: AssemblyTable, TextMap, Words, RiscvMemory, Loader, Simulator, RiscV

`AssemblyTable` has the table, and while it grows the old one with the loop index. `Set` is
`assembly_set` (`Replace`, `Insert` or `StartGrowing`), and each turn of the loop in
`assembly_grow_and_rehash` is a step: `Move`, `Collide` (an entry has no room: the attempt is thrown
away and the next size tried), `Finish` (which stores the pending entry or grows again). `TextMap` is
what `assembly.h` promises.

`Words` has 32-bit words as functions from bits to 0 and 1, with the arithmetic of the machine.
`RiscvMemory` is `memory.c`, byte and halfword accesses as masks in words. `Loader` is main up to
the call of `simulate` and `read_exec.c`: a line of the listing is a record of what the `sscanf` calls
can tell apart, including the characters behind the bytes of a data line that happen to be read as
one more group (`junk`). `Simulator` has one action per opcode with the tests of the code
in the code's order, so branches behind a repeated condition are not reached, and an instruction that
no branch matches leaves PC where it is and is executed for ever. `RiscV` is the reference, the
instruction set that `opgave.md` asks for: immediates by format, memory byte by byte.

### A6: RadixTree, BlockHeap, SortedNumbers

`RadixTree` keeps the program's memory as it is: nodes in blocks, reached through the places that point
to them (`Root`, or a side of an interior node). `add_number` is one step for each turn of its loop, with
`parent` and `bit_pos` as its variables: `AddLeaf`, `AddNode`, `Descend`, `Count`. `take_numbers_2` and
`release_tree` walk over the tree in the same recursion, which is a stack: `calls` has the places the
calls in progress were made for, and `back` says that the innermost is about to return. `CallOnNull`, `FirstSide`
and `SecondSide` are the walk, `TakeNumber`, `LeaveLeaf` and `LeaveNode` what the one does on it,
`ReleaseLeaf` and `ReleaseNode` the other. main's loop is `ReadNumber`, `ReadTake`, `TakeReturns`,
`WriteBatch`, `End`.

`BlockHeap` is the allocator for one block size (the only one `radix.c` uses): the list of free blocks
in their first words, chunks cut into blocks when it is empty, and the size as the mark of a block in use.
There are as many chunks as are asked for. `SortedNumbers` is the abstract program: it keeps how
often it has each number, and takes the smallest one at a time until the batch is full or nothing is left. Its
counts are those of the leaves (`Counts`), so a removal that loses a number, or a walk in the
wrong order, is no step of it.

## 3. The runs

Deadlock checking is off in every run: all of these systems may stop (a program ends, a user types
nothing more, a bound is used up). That they do not stop too early is what the liveness properties
say. All runs but `peers` are exhaustive within the constants given; `peers` has a state constraint.

| run | instance | question and answer | states |
|---|---|---|---|
| `job_queue` | 2 producers, one of them also the destroyer, 2 consumers, 2 jobs, ring of 2 | Are exclusion, memory safety, ring, wakeups and shutdown right in every interleaving, and is the whole a closable bounded FIFO? Yes | 382,614 |
| `pool` | main, 1 or 2 workers, 3 jobs, ring of 2, 1 spurious wakeup | Is every job in one place, and printed in the end? Yes; with one worker the program ends; main and the workers keep the queue's contract | 20,381 |
| `pool_hang` | 2 workers, 2 jobs | Does a pop that is blocked when the queue is destroyed return? No | violation |
| `histogram` | 1 or 2 workers, 0 to 2 files of up to 3 bytes, 2 bins, merge every 2 bytes | Exact with one worker, never too much with two? Yes | 239,001 |
| `file_server` | a Python client and a C program of one user name, files of 0 and 3 blocks and a missing one, 2 requests each, 1 short read on either side | Are the Python client's files whole and the C program's whole or one refusal, only registered users served, taken names refused, and do requests end? Yes | 447,463 |
| `peers` | 3 peers, 6 connections, at most two of: a crash, a time-out, a file request | Are there duplicates, or members that do not know each other or know nobody? No, apart from networks disturbed by crash or time-out | 1,860,742 |
| `peers_faults` | 3 peers, 5 connections, 1 crash | Is the mutex released and does a registration end, whenever a peer crashes? Yes | 190,687 |
| `retrieve` | 2 Python peers and a C peer, 2 files, 2 fetches by the Python peers, 1 crash | Does each fetch end, is nothing left on the list, is the C peer's table complete, what it reports right as served, and does it end? Yes | 133,931 |
| `retrieve_part` | 3 Python peers, 1 file, 3 fetches, no crash | Is only a whole file served? No | violation |
| `assembly` | 6 addresses, 2 texts | Is the table the map, and does growing end? Yes | 31,329 |
| `simulator` | 311 command lines and programs | Is memory as listed, do the covered instructions follow RISC-V, do programs of them end? Yes | 6,288 |
| `sequential` | *radix*: numbers of 3 bits, 5 entries, takes of up to 3, batches of 2, chunks of 3; *id*: ids 0, 1, 2, 5 with ints from -4 to 3, 3 rows, an array of 2 at first; *coord*: 4 points, degrees of 2 parts, 3 records; *file*: 4 bytes; *io*: a buffer of 2, reads of up to 3, 5 bytes in all | For each sequential program on every input within the bounds: is the tree well formed, memory accounted for, output sorted; do the searches stay in the array and find what is there; is the k-d tree ordered and the nearest of the records seen returned; does a file get its type; does reading deliver the stream? Yes | 728,715 |

Why the bounds let the interesting cases happen:

* *Ring of 2* is the smallest in which the indices wrap at a different time than the count reaches its
  limits, with both "full" and "partly full" possible; a ring of one, where head and tail are always
  equal, and every other size are covered by the proofs. Two threads on each side are enough for two
  threads of a kind to be woken by one broadcast and for one of them to find its condition false
  again. In `job_queue` the jobs are pushed without limit.
* `MaxSpurious` = 1 bounds spurious wakeups in `pool` only: without it a behaviour in which a sleeper
  wakes and sleeps for ever is fair. In `job_queue` they are unbounded.
* *Three jobs* in `pool` are one more than the ring holds, so main blocks in a push. `pool_hang` needs
  only two.
* *Histogram*: one file ends right after a merge in the loop (a last merge with nothing to merge),
  one between two merges, one is empty. Two bins tell a merge in progress from one that is done.
* *File server*: three blocks can arrive in an order in which the last one is not the last to come; one
  name is the case in which registrations collide. Requests are two: a registration, then a
  file or another registration. The table's races need no more clients than two; the C program has two
  connections, one of them left. One short read reaches each of the reads, and the proofs have any number.
* *Files of peers*: the C peer has an old copy of one file that is longer than what it will be sent, and
  none of the other. Two fetches let the two Python peers ask each other, while the C peer asks both. One
  crash hits the contact before or after the registration, the peer that serves, or the C peer itself,
  which registers again.
* *Peers*: `Conns` is as large as the behaviours of the run need: with six connections in `peers` and
  five in `peers_faults` there is no reachable state in which all are in use and somebody wants one
  more (with fewer the model would hold a thread up where the program does not). With three peers the contact informs one of the other. The two
  peers other than the contact are interchangeable (symmetry; the run checks invariants only).
* *Peers with faults* has no symmetry because it checks liveness, and leaves out time-outs and file
  requests, which neither take the mutex for longer than a step nor register.
* *Assembly*: 0, 19, 38, 57, 76 share their slot modulo 19 and collide in the table of that
  size; together with 9 they make the table grow from 4 through 9 and 19 to 39, with a growth that
  meets a collision and one that has to be followed by another before the pending entry is stored.
* *Simulator*: each program has one instruction of interest, every opcode with every funct3 and
  funct7 the code tests, on four pairs of operands, among them zero, equal values
  and values of either sign; loads and stores at aligned and unaligned addresses; jumps forwards and
  backwards; the division that traps; listings with junk in their character column and with two sections
  at one address; command lines with no
  and with two arguments, one of them empty, with a log file, with another option, and two that main
  refuses.
* *Searches by id*: 0 and 5 differ by more than an int of the model holds, so that the comparator cuts
  their difference; three rows make an array of two grow; an id may be typed that is larger than all, less
  than all, or between two. The proofs of the sequential programs have every size.
* *Coordinates*: of the four points two are closer than a degree along one axis, and three records make a
  tree with a root and two sides, of which the walk takes one.
* *File types*: four bytes are one longest character of UTF-8, or an ASCII byte and one shorter.
* *Reading*: a read of three does not fit into a buffer of two, so that one call refills it; lines end
  within a buffer and across two.
* *Radix*: eight numbers give three positions, so an interior node can be injected above, between and
  below others; five entries fill more than one chunk, and released blocks are used again; three taken with
  a buffer of two take two batches, and a batch can leave one side of a node. `MaxReads` and `MaxTake` bound
  the input only.

## 4. Fairness

Weak fairness is assumed of each thread's own steps, because the operating system schedules a
thread that can run: `MainStep` and each `WorkerStep` in `WorkerPool`; handler and client threads in
`FileServer`, `PeerNetwork`, `RetrieveFile` and `CPeer` (`CReceive` is the C program's one thread while it
waits, `CClient` the C peer's); `Grow` in `AssemblyTable` (the loop of one call);
`Next` in `Simulator` (a single thread, which nothing stops). It is weak and per thread: a thread
that competes for a mutex may lose it as often as others take it, since pthread mutexes and Python's
locks are not fair. Nothing is assumed of users (they need not start a peer or ask for a file), of
crashes, restarts, short reads, time-outs or spurious wakeups. `JobQueue`, `Histogram` and the programs
of `MCSequential` are checked for safety only.

`AllPrinted` holds in `pool` under that fairness for either number of workers; that the whole program ends, `Terminates`, is stated for one worker, because with two it does not (6).

## 5. What is proved

For every value of the constants. The assumptions are those the modules name:

* job queue: `SizeAssumption` (the capacity is at least one), `ThreadAssumption` (consumers are neither
  producers nor the destroyer, as in the three programs), `JobAssumption`;
* programs on it: `InputAssumption` (the lines of the input are told apart), `SpuriousAssumption` (the bound
  on spurious wakeups is a number). That main alone pushes and that the workers are finitely many is
  part of `InitPool` (`ThreadsOfProgram`), since the queue by itself has any callers;
* histogram: `BinsAssumption` (a merge comes after at least one byte), `FilesAssumption`,
  `WorkersAssumption` (finitely many);
* file server: `NameAssumption` (each connection has one user name), `ConnsAssumption` (the connections of
  different clients differ), `FilesAssumption`, `CFilesAssumption` (the server has the files the C program
  asks for, which `server.py:310-314` checks at its start);
* membership: `ContactAssumption` (the contact is a peer), `ConnsAssumption` (connections are numbered, and
  finitely many at a time), `BoundsAssumption`;
* files of peers: `HeldAssumption`, `CPeersAssumption`, `ContactAssumption` (the contact is a Python peer),
  `GetsAssumption`, `AlikeAssumption`, `NoneAssumption`, `ReportAssumption`;
* simulator: `InputsAssumption` (a command line is a sequence of strings, a file one of lines, and a line has
  words where `sscanf` reads words, and no more bytes than its four groups have room for). Nothing is
  assumed of what the program does;
* assembly table: `AddrsAssumption` (addresses are natural numbers), `TextsAssumption`, `EmptyAssumption`;
* searches: `IdsAssumption` (ids are integers), `HalfIntAssumption`, `FirstSizeAssumption`,
  `PointsAssumption` (coordinates are integers), `UnitAssumption`;
* classifier and reading: `MaxBytesAssumption`, `TypesAssumption`, `IoAssumption` (a buffer has room for a byte);
* radix sort: `RadixAssumption` (the highest bit is a power of two, which is said as: all its divisors
  but 1 are even; a batch has room for a number), `HeapAssumption` (a chunk has at least one
  block, and the mark of a block in use is no address).

Marker values such as `None` are assumed to be none of the data.

| module | theorem | statement |
|---|---|---|
| `JobQueueProofs` | `Invariant` | the inductive invariant `IInv` of the job queue |
| | `Exclusion`, `ArraySafe` | `MutualExclusion`, `NoUseAfterFree` |
| | `RingCorrect`, `WakeupsNotLost`, `DrainedBeforeClosed`, `TeardownQuiet` | `RingConsistent`, `NoLostWakeup`, `ClosedMeansDrained`, `NobodyWaitsOnDestroyed`: the first three are parts of `IInv`, which run `job_queue` checks, the fourth follows from it |
| | `NothingOverwritten` | the action property `SlotsStable` |
| | `Refinement` | `JobQueue` implements `JobFifo` |
| | `PoolInvariant` | the queue's `IInv` in every program, with `InvPool` |
| | `KeepsContract` | the programs call the queue only as its header allows: `UsesQueueAsAllowed` |
| | `OnePlace`, `AllPrintedWhenDone` | `EveryJobInOnePlace`; `DonePrintsAll`: when main has joined its workers every line is printed, once |
| `HistogramProofs` | `HistogramInvariant` | the inductive invariant `InvHistogram` |
| | `NothingInvented`, `AloneExact` | `NeverOvercounts`, `ExactWithOne` |
| `FileServerProofs` | `OnlyRegisteredServed`, `TakenRefused` | `ServedOnlyRegistered`, `TakenNameRefused` |
| | `PythonWritesWhole`, `CWritesWholeOrReply` | `WrittenIsWhole`, `CopyIsWholeOrReply` |
| `PeerNetworkProofs` | `BaseInvariant`, `NetInvariant` | what holds whatever fails (`InvBase`), and the order of registrations until something does (`InvNet`) |
| | `NothingTwice` | `NoDuplicates`, with any crashes and time-outs |
| | `JoinedInOrder`, `JoinedNotAlone` | `OneKnowsOther`, `JoinedKnowsSomebody` |
| `CPeerProofs` | `NothingListed`, `TableIsFilled`, `RightCopies` | `NothingListedAtPrompt`, `TableFilled`, `RightIsServed` |
| `AssemblyTableProofs` | `Invariant` | every entry is in the one place where probing finds it, also during a growth |
| | `Refinement` | `AssemblyTable` implements `TextMap` |
| `SimulatorProofs` | `SimulatorTypeCorrect` | registers, PC and memory hold words, whatever is loaded and run |
| | `SimulatorMemoryReady` | `MemoryReady`: when the listing has been read, memory holds what it shows, unless a later line replaces it, and the arguments, for every listing and command line |
| | `SimulatorFollowsISA` | the action property `FollowsISA`: a step for a covered instruction is a step of `RiscV`, for each of the 2^32 instruction words, all operands and all contents of memory |
| `SequentialProofs` | `StaysInArray`, `SearchesRight` | `ReadsAllocated`, `AnswerRight` |
| | `NearestAnswered`, `TreeIsOrdered` | `AnswerNearest`, `TreeOrdered` |
| | `ClassifiedRight`, `StreamRead` | `Classified`, `ReadsStream` |
| | `RadixInvariant` | the inductive invariant `InvRadix` of the radix sort and its allocator, which has `TypeOK` in it (`RadixTypeCorrect`) |
| | `TreeWellFormed`, `NoBlockLost` | `WellFormed`, `NoLeak` |
| | `TakesTheSmallest` | `RadixTree` implements `SortedNumbers`: `TakesSmallest` |

**The job queue's invariant.** None of the interesting properties is inductive alone: that the array
is not used after it was freed depends on who is inside, which depends on the mutex, which itself is
destroyed. `IInv` therefore adds to the type invariant: `InvCalls`, which threads can be in which
call, so that there is one destruction and no push once it has begun; `InvPhases`, how far the
destruction has come, told by where the destroyer is (flag, array, mutex go in that order);
`InvLock`, which is the crux: while the mutex lives, its lock word says who is inside, and once it is
gone everyone who is inside is a pop with nothing left to do; `InvBody`, what the loop test has
established at the data movement. With these, `RingConsistent`, `NoLostWakeup` and
`ClosedMeansDrained` are inductive too. There is one lemma per action, with one step per conjunct it
can disturb; the arithmetic of the ring (`NextSlot`, `ModDistinct`) is proved once, without induction,
by the two cases in which an index wraps or does not.

**The refinement to the FIFO** takes three facts about the sequence the ring stands for: a store
appends to it, a take removes its head, every other step leaves it (`StoreAppends`, `TakeRemoves`,
`HeldUnchanged`).

**The programs on the queue.** `InvPool` says where main and each worker are between their calls
(`MainPhase`, `WorkerPhase`): main destroys the queue only when it has nothing more to push, and a worker
whose pop failed does not call again. That is what the queue's most general client was allowed, so every
step of a program is a step of `JobQueue` or leaves it alone, and `IInv` holds inside the programs without
being proved anew. `OnePlace` adds that a job moves from the input to the ring, to a worker's hands and to the
output, and that two places never hold the same: a store and a take change the ring by one job at
its ends. With `ClosedMeansDrained` of the queue, the end of all workers means that nothing is left.

**The histogram's invariant.** `NeverOvercounts` is not inductive, since a worker that has loaded
`to[i]` will store its sum whatever was stored between. `LoadedOK` is the same bound for the value that
was loaded: it too leaves room for all that is still in the workers' hands (`Pending`). The counts in hand are
a set of pairs of worker and number, so that sums over the workers are cardinalities, and the step of
one worker adds or removes pairs of its own (`HandsFacts`, `Quiet`). `AloneOK` is that bound as an equation, for the
one worker that was started.

**The assembly table's invariant** is `Reachable` (an entry is in one of the four slots of its
address, and an address in one slot only) for the table, and during a growth `Moved`: the old table is
reachable too, the new one holds exactly the entries of the old one before the loop index, and
neither has the pending address. The lemma `PutNew` says that storing a new address in a free slot of its
window keeps a table reachable, `PutOver` that replacing an entry does; `AllMoved` that at the end
of the loop both tables attach the same texts, so that the growth is invisible to `assembly_get`; the
refinement follows, with the step that stores the pending entry as the abstract `Set`.

**The file server's invariant**, `InvServer`, is about the handler threads alone: the table holds only
users whose own registration was accepted and never loses a name (`InvUsers`), and a handler about to
insert serves a request whose name was free when it came (`InvPlaces`). The two reads of a log-in may see
different entries, so it matters that both are compared with the client's own.

**The copies' invariant**, `InvCopies`, follows a reply from the handler to the file. While a client waits
its connection is in one of two states: `Straight`, in which every block on its way belongs to the reply to
what was asked and carries its count (`Fits`), or `Refused`, in which the first thing on its way says that
the request was malformed, and whatever the handler sends for the path that was cut is thrown away with
the connection. That as many different blocks as the reply has are all of them is counting
(`WholeCounted`, `AllReceived`).

**The membership's invariant** has two parts. `InvBase` holds whatever crashes or falls silent: a handler that
runs is one of a peer that is up, a client waits exactly when it has a connection, and neither a list
nor a list on its way to a newcomer has an address twice (`InvDistinct`: what is received replaces the list,
and what is added was looked for under the same mutex). `InvOrder` holds until
something is disturbed. The contact adds newcomers one by one, and each is told the list as it was
with itself in it; so of two in the contact's list the later one is told of the earlier (`OrderOK`),
where `Told` is its list, or the reply it has yet to read. That the reply is read, and is the one of the registration,
is `ClientsOK`; that each registration is answered once and from the contact, `InformsOK`. One lemma for each
handler and client step shows what it does to connections, and `HandlerOrder` and `ClientOrder` that this
keeps the order of all others.

**The invariant of the peers' files**, `InvFetch`, says where client threads can be (`InvType`), that a peer's list has
exactly the file it is fetching, from the request to the reply (`InvListed`), that the contact's list has
no peer twice, and with it that the C peer's table is complete: the reply ends with the C peer itself, so
that the entry it leaves out is the one its own place at the front makes up for (`InvTable`,
`TableComplete`). `InvRight`: after a copy was reported right nobody serves that peer until its next fetch.

**The simulator**. `FollowsISA` is a property of steps: an instruction is executed from registers and memory
that can hold anything, so all it needs of the states before is that they hold words (`TypeOK`, which for the
loader says that whatever is written on the way is a word too). What is left is one lemma for each opcode of
`simulate`'s switch (`RegisterFollows`, `ImmediateFollows`, `LoadFollows`, `StoreFollows`, `BranchFollows`,
`JalrFollows`, `UpperFollows`; `OthersFollow` for the rest). They rest on facts about words of 32 bits:

* the two specifications cut the same fields out of a word and add, compare and multiply alike
  (`SameField` to `SameQuotient`); the immediates of `calculate_immediate` are those of RISC-V in the formats I
  and S (`SameImmediates`), and in the formats B and U for the words `Faithful` covers (in `BranchFollows`
  and `UpperFollows`).
* words that differ are told apart by what is computed from them: by their fields (`FieldTells`), by what is
  added to one address (`AddTells`), by the number they are written for (`OfIntTells`). So the bytes at an
  address and the ones after it are different bytes (`PlaceTells`).
* the memory of `memory.c` has pages of words, that of `RiscV` has bytes. `BytesTogether` says which word and
  which of its bits four, two or one bytes are if the address is aligned; with it a read by mask and shift
  gives the bytes (`LoadedIs`), and a write by mask, the other bits of the word being kept, changes those bytes
  and no others (`BytesChanged`, `BytesWritten`).

`MemoryReady` is about a state that many writes have led to. Not all that a listing shows is in memory in the
end: what a line stores may be replaced by a later one, and it is in the listings of the repository, whose sections
`.comment` and `.riscv.attributes` both begin at address 0 (the run has this too). So it asks, byte by byte, that
no later line stores something else there (`Lasting`), and of the arguments that no line is for where they
are (`Apart`). A line may store more than it shows, when characters behind its bytes are taken for
hexadecimal digits; nothing is asked of these bytes when a later line shows them, or none does. The invariant (`Loading`) says of every state before
the first instruction that the lines read so far are in memory with what they show and what lasts, and that the bytes
of the arguments are as `WriteArgs` left them in the empty memory. It rests on three facts:

* what is written byte by byte is read back at each byte's own address, and elsewhere memory is as before
  (`BytesStored`, `WordPut`, `StringPut`); a word is what its four bytes say (`WordOfBytes`).
* numbers up to 2^31 - 1 are different words and are added as numbers (`NaturalTells`, `NaturalPlus`), so the
  pointers and strings of the arguments, laid out one behind the other, do not overlap (`AddressesApart`, `ArgsPlaced`,
  by the least argument that is not in its place). This is why `Apart` asks for an end below 2^31.
* what lasts of the lines read so far stays as it is under the next one (`LastingKept`, `ApartKept`, `LoadedNext`).

**The searches' invariant**, `InvQuery`: the array has room for one more record than were read, the
records hold the ids of the file and no others, they are in order if the ids are `Close`, and what is
outside the range the search has left is too small or too large. `MidInRange` says that the division towards
zero puts the middle of an empty range at the element behind it, `CutExact` and `CloseIsOrder` that
the comparator is an order for ids that are close.

**The searches by coordinates**, `InvCoord`: each record the scan or the walk has met is no nearer
than the one it holds, and the scan has met all up to its place (`CoordLookup`). For the tree (`CoordTree`): the parts
that are left are disjoint and each is on one side of every node that is made, or apart from it (`Apart`), and
every record is the middle of one node or in a part that is left. Sorting a part moves records within it
only, so a node made before keeps separating its sides (`MoveKeepsNode`); the node made now separates its
sides because the part is in order (`SortedSeparates`), which takes that the comparator is an order if
coordinates differ by whole degrees (`WholeOrder`). When no part is left this is `TreeOrdered`.

**The classifier**, `InvFileType`: until a type is found all bytes were ASCII or above it, or a first character of
several bytes has begun and lacks as many bytes as its length says. **The stream**, `InvIo`: what the caller
has, what is in the buffer and what is in the pipe are consecutive parts of what was written
(`IoOrder`), which a short, interrupted or failed transfer leaves as they are.

**The radix sort**, `InvRadix`. `WellFormed` and `NoLeak` speak of one memory at a time, and neither is
inductive: whether a node may be released depends on who points to it, and whether the walk is
still in the tree on what its calls have removed. The invariant has, from the bottom up:

* the allocator (`HeapOK` in `NodesOK`): the list of free blocks has each of them once and ends. `Allocate`
  takes the first, `Release` puts one in front, and a new chunk is a list of its own (`AllocateUses`,
  `ReleaseFrees`).
* the tree (`Shaped`): the two halves of `WellFormed`. What a node stands for is a range of numbers
  (`Covers`), and what is below a place is what a search through it finds (`Through`). Two ranges are nested
  or apart, which is arithmetic of powers of two. From it follows that no two places point to one node
  (`PointedOnce`) and that one does (`PointedAtAll`). No path through the tree is mentioned, so that a step
  of the program changes what is said of one node and one place.
* the links (`Linked`): every place points to a node or nowhere; while the tree is released, the places
  that were left may point to free blocks, and no others (`Gone`).
* adding (`Adding`): the search for the number goes through `parent`, and `bit_pos` is the highest
  position at which the number may still differ from the nodes below. Then the new leaf is
  where a search for it goes, and an interior node injected above a subtree covers it and the number
  (`Extended`).
* walking (`Stacked`): each call on the stack is for a side of the node that the call before it was for.
  `LeftOver` says what a removal leaves: the calls below the one that returns are still places of the tree.
* emptiness (`Cleared`, `Filled`): while a batch has room, everything on the left of the walk is empty,
  and a node without numbers is one that a call has yet to come back from. This gives
  both that no empty node is left when the walk is over, and that the number that is taken is
  the smallest: nothing smaller has a leaf, because it would be on the left (`LeafSmallest`).
* the numbers asked for and taken (`Asked`).

The refinement needs one fact more: two numbers that differ in the last bit have at most one leaf, so what is counted
of a number is a field of one node, which an `AddLeaf`, `AddNode` or `Count` raises by one, a `TakeNumber`
lowers by one, and nothing else changes. A batch that has room when the walk is over has visited the whole tree,
so nothing is kept any more, which `Full` of `SortedNumbers` asks for.

**Induction.** The provers cannot instantiate the library's induction theorems, whose parameter is an
operator. Where a proof needs more than steps of the program it argues from the least counterexample: a set
of numbers that is not empty has a least element (`Least`, `LeastNumber`), because among the intervals from
0 to its elements one contains no other, which is a theorem of the library about finite sets. Some
definitions are recursive functions on numbers. In `Words` they compute fields, sums with a carry, numbers
and products bit by bit, in `Loader` what is written byte by byte: that such a function exists is proved
once for all of them (`StepsExist`), and what holds of each value by the least one it might not hold of
(`UpTo`). `Only` of `PeerNetwork`, the list comprehension that drops entries, exists for every length and
picks entries in order (`KeepsExists`, `Picks`); `FreeAt` of `BlockHeap`, the walk along the free list,
reaches the blocks in the order the proof names (`ListIsOK`). The tree has two arguments of this kind: of
the places on the way to a node the lowest one points to it (`PointedAtAll`), and the first call on the
stack whose node does not cover a leaf tells on which side of the one before it the leaf is
(`LeafSmallest`).

**Only model-checked**: liveness under fairness, which is out of TLAPS's reach. Every invariant and action
property of the runs that pass is a theorem.

## 6. Where the code deviates from what it promises

Two runs are expected to find a violation:

* **`pool_hang`** (`BlockedPopReturns`). `job_queue.h:34-36` promises that a pop returns -1 once the
  queue is destroyed, also if it blocked before. `job_queue_destroy` unlocks and at once destroys
  the mutex (`job_queue.c:40-41`). With two pops contending for it at that time the first gets the
  lock word and cannot give it back, because its unlock fails, and the second waits for
  ever; main waits for it in `pthread_join`. With one worker there is no second contender.
* **`retrieve_part`** (`ServesOnlyWhole`). `peer.py:567-568` says the list of files being fetched
  ensures that no incomplete file is served. The file leaves the list before it is opened for
  writing (lines 586-589, 622-623), so a handler can read it while it is empty or partly written.

Others are in the models and not stated as properties, or excluded from one by its condition:

* Two workers that merge histograms at once lose additions (`fhistogram-mt.c:47`), against
  `histogram.h:50-51`. `ExactWithOne` is conditional on that.
* `coord_query_kdtree.c:102` walks right only when it did not walk left, and the walk begins with a record
  that was never initialised: the record returned need not be the nearest, nor in the file.
  `AnswerNearest` is about those the walk has met. Records closer than a degree are not ordered
  (`TreeOrdered` is conditional on `WholeDegrees`).
* `id_query_binsort.c:18` returns a difference of 64 bits as an int, so that records far apart end up in any
  order and are not found (`AnswerRight` is conditional on `Close`). Line 41 reads the element behind
  the last record when the id is larger than all, and the one at 0 when there is none; if that memory happens to
  hold the id, a record that is not in the file is returned.
* The C client leaves the connection of its registration before the reply (`networking.c:132`); if its
  registration is refused, or handled later than its request, the text of a refusal becomes its file.
* After the reply to a malformed request `server.py:79` goes on and handles the request as well.
* The C peer compares four digits of a port (`peer.c:340-377`), so that a peer at its own address
  with a similar port leaves a hole in its table (`TableFilled` is conditional on `Alike` being empty). A C peer the
  contact still knows gets no list, has nobody to pick and divides by zero. It never truncates an
  old copy, so a longer one never becomes right.
* Two registrations of one name at once are both accepted by `server.py`, and the later one replaces
  the entry; an empty file is answered by no block at all, so the client ends with an exception.
* `peer.py:131` assigns to an element of a tuple, which raises and is swallowed: timestamps are never
  refreshed, and the message of a peer that is in the list removes nobody. A peer is dropped when
  its entry is 60 seconds old and a message comes from one that is not in the list.
* A peer that restarts is told that it exists and gets no list (`peer.py:213`).
* A peer that cannot be reached ends the informing of those after it (`peer.py:257`). A reply
  that cannot be sent to a peer that exists already releases a mutex this thread does not hold
  (`peer.py:209-214`).
* `simulate.c` deviates from the RISC-V specification that `opgave.md:70-92` asks for. `Faithful` in
  `Simulator` lists what is covered by `FollowsISA`, and thereby what is not: x0 can be
  written; `slt`, `sra`, `srai` and `rem` are behind tests that never match and the simulator stays at
  them for ever; `mulhsu` and `mulhu` give 0; a shift by an immediate uses four bits of it; bits 4 to 1
  of a branch's offset are taken from bits 31 to 28 (line 182); `jal` sets bit 0, so the next fetch exits;
  `lui` and `auipc` shift their operand twice; loads and stores are relative to PC; `lb` and `lh` are
  not sign extended; `div` and `divu` by zero never advance, `remu` by zero and the smallest number
  divided by -1 trap on the host; `ecall` exits whatever a7 holds, and since `simulate` never returns
  the summary of the option `-s` is never written.
* `read_exec.c:80` counts groups of hexadecimal digits over the character column too; what it writes in excess
  is overwritten by later lines of a listing by ascending addresses, and otherwise stays in memory
  (`MemoryReady` says what is not harmed by it).

## 7. What is not modelled

* **A2 `fauxgrep.c`**, and `fibs.c` without threads: one loop, no shared state.
* **Support code given out with the assignments**, other than buffered reading: opening connections is the
  operating system's, the checks of a configuration file have no state, SHA-256 is third-party code. The
  models have hashes as equality of contents.
* **A5 sample programs, A6 scripts and binaries**: programs for the simulators, scripts that call a compile server.
* **A6 `lib.c`**: system calls in inline assembly, text conversions, and block sizes other than the one
  `radix.c` uses.
* In `FileServer`, malformed requests other than those a short read makes: the clients in the repository
  do not send any. The two are `CutHeader` and `CutPath`.
* Rounding: `CoordQuery` has integers for coordinates and squares for distances.
* Freeing at the end of a program (`memory_delete`, `assembly_delete`), output formats and logs.

## 8. Plan

Done so far, in this order: job queue, programs on it, histogram (A2); membership and files (A4);
file server (A3); assembly table, memory, loader, simulator (A5); radix tree and allocator (A6); the proofs
of the job queue and of the assembly table with their refinements; searches (A1), file types (A0); C client
(A3), C peer (A4), buffered reading; the proofs of the file server and its clients' copies, of the peers' files,
of the programs on the queue, of the histogram, of the membership, and of all sequential programs,
the radix sort with its allocator and its refinement of the sorted numbers among them; the proofs
that the simulator follows RISC-V and that its memory is ready when the listing has been read.

Next, to model: the C peer in the network of `PeerNetwork`, where several peers register at once, instead of
beside a contact whose list is given.
