------------------------------ MODULE IdQuery -------------------------------
(***************************************************************************)
(* The programs of A1 that look up records by id: a file is read into an   *)
(* array that grows (record.c), an index is made of it, and ids typed by   *)
(* the user are looked up (id_query.c) by a scan (id_query_naive.c and     *)
(* id_query_indexed.c) or by binary search (id_query_binsort.c).           *)
(*                                                                         *)
(* A record is its id.  Memory that was never written holds any id.  The   *)
(* difference of two ids is cut to an int when they are compared.          *)
(***************************************************************************)
EXTENDS Integers, Sequences

CONSTANTS Ids,       \* the ids in files, in memory and typed by users
          HalfInt,   \* an int is at least -HalfInt and less than HalfInt
          FirstSize, \* the capacity of the array at first
          MaxRows    \* bound on the rows of a file

ASSUME IdsAssumption == Ids \subseteq Int
ASSUME HalfIntAssumption == HalfInt \in Nat \ {0}
ASSUME FirstSizeAssumption == FirstSize \in Nat \ {0}
ASSUME MaxRowsAssumption == MaxRows \in Nat

VARIABLES pc,       \* "open", "read", "index", "prompt", "scan", "scanned", "end";
                    \* "sorted", "search", "searched" for the program that sorts
          rs,       \* the array of records
          n,        \* the number of records read
          capacity, \* the length of rs
          needle, low, high,
          answer,   \* the index of the record returned, -1 for NULL
          rows      \* the ids read so far (history)

query == <<needle, low, high, answer>>
qvars == <<pc, rs, n, capacity, query, rows>>

QInit == /\ pc = "open"
         /\ rs = <<>> /\ n = 0 /\ capacity = 0
         /\ needle = 0 /\ low = 0 /\ high = 0 /\ answer = -1
         /\ rows = {}

-----------------------------------------------------------------------------
\* read_records: the file is opened and the array allocated, or there are no records at all.
Open == /\ pc = "open"
        /\ \/ pc' = "end" /\ UNCHANGED <<rs, capacity>>
           \/ /\ pc' = "read"
              /\ capacity' = FirstSize
              /\ rs' \in [0 .. FirstSize - 1 -> Ids]
        /\ UNCHANGED <<n, query, rows>>

\* Faulty: the array grows when a record does not fit any more, which is one record late.
StoreGrowLate(id) ==
  /\ n' = n + 1
  /\ rows' = rows \cup {id}
  /\ IF n = capacity
       THEN /\ capacity' = 2 * capacity
            /\ \E new \in [0 .. 2 * capacity - 1 -> Ids] :
                 /\ \A k \in 0 .. capacity - 1 : new[k] = rs[k]
                 /\ rs' = [new EXCEPT ![n] = id]
       ELSE rs' = [rs EXCEPT ![n] = id] /\ UNCHANGED capacity

\* A record is stored at rs[n]; if the array is then full it is made twice as long.
Store(id) ==
  /\ n' = n + 1
  /\ rows' = rows \cup {id}
  /\ IF n + 1 = capacity
       THEN /\ capacity' = 2 * capacity
            /\ \E new \in [0 .. 2 * capacity - 1 -> Ids] :
                 /\ \A k \in 0 .. capacity - 1 : new[k] = IF k = n THEN id ELSE rs[k]
                 /\ rs' = new
       ELSE rs' = [rs EXCEPT ![n] = id] /\ UNCHANGED capacity

\* read_record: a row with an id, or one with too few columns, whose record keeps the id that
\* memory held.
ReadRow == /\ pc = "read" /\ n < MaxRows
           /\ (\E id \in Ids : Store(id)) \/ Store(rs[n])
           /\ UNCHANGED <<pc, query>>

EndOfFile == pc = "read" /\ pc' = "index" /\ UNCHANGED <<rs, n, capacity, query, rows>>

-----------------------------------------------------------------------------
\* mk_naive and mk_indexed keep the order of the records.
KeepOrder == pc = "index" /\ pc' = "prompt" /\ UNCHANGED <<rs, n, capacity, query, rows>>

Cut(d) == ((d + HalfInt) % (2 * HalfInt)) - HalfInt

\* comp: the difference as an int.
Comp(a, b) == Cut(a - b)

\* An order that qsort can sort by; by any other the records end up anyhow.
IsOrder == \A i, j, k \in 0 .. n - 1 :
             /\ Comp(rs[i], rs[j]) < 0 <=> Comp(rs[j], rs[i]) > 0
             /\ Comp(rs[i], rs[j]) <= 0 /\ Comp(rs[j], rs[k]) <= 0 => Comp(rs[i], rs[k]) <= 0

\* mk_binsort: qsort puts the records in order.
Sort == /\ pc = "index"
        /\ \E f \in [0 .. n - 1 -> 0 .. n - 1] :
             /\ \A k \in 0 .. n - 1 : \E j \in 0 .. n - 1 : f[j] = k
             /\ IsOrder => \A i, j \in 0 .. n - 1 : i < j => Comp(rs[f[i]], rs[f[j]]) <= 0
             /\ rs' = [k \in 0 .. capacity - 1 |-> IF k < n THEN rs[f[k]] ELSE rs[k]]
        /\ pc' = "sorted"
        /\ UNCHANGED <<n, capacity, query, rows>>

-----------------------------------------------------------------------------
\* id_query_loop: an id is typed, or the input ends and everything is freed.
Ask == \E id \in Ids :
  /\ pc \in {"prompt", "sorted"}
  /\ pc' = IF pc = "prompt" THEN "scan" ELSE "search"
  /\ needle' = id /\ low' = 0 /\ high' = n - 1 /\ answer' = -1
  /\ UNCHANGED <<rs, n, capacity, rows>>

Quit == pc \in {"prompt", "sorted"} /\ pc' = "end" /\ UNCHANGED <<rs, n, capacity, query, rows>>

Return(k, s) == answer' = k /\ pc' = s /\ UNCHANGED <<low, high>>

\* lookup_naive and lookup_indexed: the first record with the id.
Scan == /\ pc = "scan"
        /\ \/ low = n /\ Return(-1, "scanned")
           \/ low # n /\ rs[low] = needle /\ Return(low, "scanned")
           \/ low # n /\ rs[low] # needle /\ low' = low + 1 /\ UNCHANGED <<pc, high, answer>>
        /\ UNCHANGED <<rs, n, capacity, needle, rows>>

\* Division by 2 towards zero.
Half(d) == IF d < 0 THEN -((-d) \div 2) ELSE d \div 2
Mid == low + Half(high - low)

\* Faulty: the wrong half is kept.
SearchOtherHalf ==
  /\ pc = "search"
  /\ \/ rs[Mid] = needle /\ Return(Mid, "searched")
     \/ rs[Mid] # needle /\ high < low /\ Return(-1, "searched")
     \/ rs[Mid] < needle /\ high >= low /\ high' = Mid - 1 /\ UNCHANGED <<pc, low, answer>>
     \/ rs[Mid] > needle /\ high >= low /\ low' = Mid + 1 /\ UNCHANGED <<pc, high, answer>>
  /\ UNCHANGED <<rs, n, capacity, needle, rows>>

\* lookup_binsort: the element in the middle is read before low and high are compared.
Search ==
  /\ pc = "search"
  /\ \/ rs[Mid] = needle /\ Return(Mid, "searched")
     \/ rs[Mid] # needle /\ high < low /\ Return(-1, "searched")
     \/ rs[Mid] > needle /\ high >= low /\ high' = Mid - 1 /\ UNCHANGED <<pc, low, answer>>
     \/ rs[Mid] < needle /\ high >= low /\ low' = Mid + 1 /\ UNCHANGED <<pc, high, answer>>
  /\ UNCHANGED <<rs, n, capacity, needle, rows>>

\* The record or "not found" is printed.
Reply == /\ pc \in {"scanned", "searched"}
         /\ pc' = IF pc = "scanned" THEN "prompt" ELSE "sorted"
         /\ UNCHANGED <<rs, n, capacity, query, rows>>

QNext == \/ Open \/ ReadRow \/ EndOfFile \/ KeepOrder \/ Sort \/ Ask \/ Quit
         \/ Scan \/ Search \/ Reply

QSpec == QInit /\ [][QNext]_qvars

-----------------------------------------------------------------------------
(* Correctness.                                                            *)

\* id_query_binsort.c:41: the search reads rs[n] when the id is larger than all, and rs[0] when
\* there is no record; the array has such an element, since it grows as soon as it is full
\* (record.c:155-158).
ReadsAllocated == /\ pc = "read" => n < capacity
                  /\ pc = "search" => Mid \in 0 .. capacity - 1

\* The ids of the file are so close that their differences are ints.
Close == \A a, b \in rows : a - b < HalfInt

\* What the lookup returns is a record with the id, and it is NULL only if the file has none;
\* but memory behind the last record that happens to hold the id is returned as well.  The
\* binary search promises this for ids that are close (id_query_binsort.c:18).
AnswerRight ==
  pc \in {"scanned", "searched"} /\ (pc = "searched" => Close) =>
    /\ answer = -1 => needle \notin rows
    /\ answer # -1 => /\ answer \in 0 .. capacity - 1 /\ rs[answer] = needle
                      /\ needle \in rows => answer < n
                      /\ needle \notin rows => pc = "searched" /\ answer = n
=============================================================================
