--------------------------- MODULE SequentialProofs ---------------------------
(* Proofs about programs without threads: the searches by id and by        *)
(* coordinates of A1, the classifier of A0, the reads and writes of the C  *)
(* programs of A3 and A4, and the radix sort of A6 with its allocator.     *)
(* They hold for files, integers, buffers, requests and trees of any size. *)
EXTENDS IdQuery, CoordQuery, FileType, BufferedIo, RadixTree, SequenceTheorems, FiniteSetTheorems, TLAPS

-----------------------------------------------------------------------------
(* A1, the searches by id: no element that was not allocated is read, and  *)
(* the answers are right.                                                  *)

Loaded == pc \notin {"open", "end"}

\* Where the program is, and the numbers it counts with.
InvType == /\ pc \in {"open", "read", "index", "prompt", "sorted", "scan", "scanned",
                      "search", "searched", "end"}
           /\ n \in Nat /\ capacity \in Nat /\ low \in Int /\ high \in Int /\ answer \in Int
           /\ pc = "open" => n = 0 /\ rows = {}

\* The array has room for one record more than were read, and those that were read are in it.
InvRows == Loaded => /\ n < capacity /\ rs \in [0 .. capacity - 1 -> Ids] /\ rows \subseteq Ids
                     /\ \A k \in 0 .. n - 1 : rs[k] \in rows
                     /\ \A id \in rows : \E k \in 0 .. n - 1 : rs[k] = id

\* The array is in order for the binary search.
InvSorted == (pc \in {"sorted", "search", "searched"} /\ Close) =>
               \A i, j \in 0 .. n - 1 : i < j => rs[i] <= rs[j]

\* The range that is left, and what was ruled out.
InvScan == pc = "scan" => needle \in Ids /\ low \in 0 .. n /\ \A k \in 0 .. low - 1 : rs[k] # needle
InvRange == pc = "search" => needle \in Ids /\ 0 <= low /\ low <= high + 1 /\ high < n
InvSearch == (pc = "search" /\ Close) =>
               \A k \in 0 .. n - 1 : (k < low => rs[k] < needle) /\ (k > high => rs[k] > needle)

InvQuery == InvType /\ InvRows /\ InvSorted /\ InvScan /\ InvRange /\ InvSearch /\ AnswerRight

-----------------------------------------------------------------------------
\* The division cuts towards zero, so that the middle of a range is in it, and the middle of an
\* empty one is the element behind it (id_query_binsort.c:41).
LEMMA MidInRange ==
  ASSUME low \in Int, high \in Int, low <= high + 1
  PROVE  /\ Mid \in Int /\ low <= Mid
         /\ low <= high => Mid <= high
         /\ high < low => Mid = low
<1>1. CASE low <= high
  <2>1. high - low >= 0 /\ (high - low) \div 2 >= 0 /\ (high - low) \div 2 <= high - low
    BY <1>1, SMT
  <2> QED BY <1>1, <2>1, SMT DEF Mid, Half
<1>2. CASE high < low
  <2>1. high - low = -1 /\ 1 \div 2 = 0 BY <1>2, SMT
  <2> QED BY <1>2, <2>1, SMT DEF Mid, Half
<1> QED BY <1>1, <1>2, SMT

\* The comparison of ids whose difference is an int is exact (id_query_binsort.c:18).
LEMMA CutExact ==
  ASSUME NEW d \in Int, -HalfInt < d, d < HalfInt
  PROVE  Cut(d) = d
<1>1. HalfInt \in Nat /\ HalfInt > 0 BY HalfIntAssumption, SMT
<1>2. d + HalfInt >= 0 /\ d + HalfInt < 2 * HalfInt BY <1>1, SMT
<1>3. (d + HalfInt) % (2 * HalfInt) = d + HalfInt BY <1>1, <1>2, SMT
<1> QED BY <1>1, <1>3, SMT DEF Cut

\* So qsort is given an order when the ids are close.
LEMMA CloseIsOrder ==
  ASSUME InvType, InvRows, Loaded, Close
  PROVE  /\ \A i, j \in 0 .. n - 1 : Comp(rs[i], rs[j]) = rs[i] - rs[j]
         /\ IsOrder
<1>1. \A i \in 0 .. n - 1 : rs[i] \in Int /\ rs[i] \in rows
  BY IdsAssumption DEF InvRows
<1>2. ASSUME NEW i \in 0 .. n - 1, NEW j \in 0 .. n - 1
      PROVE  Comp(rs[i], rs[j]) = rs[i] - rs[j]
  <2>1. rs[i] \in Int /\ rs[j] \in Int BY <1>1
  <2>2. rs[i] - rs[j] < HalfInt /\ rs[j] - rs[i] < HalfInt BY <1>1 DEF Close
  <2>3. rs[i] - rs[j] \in Int /\ -HalfInt < rs[i] - rs[j]
    BY <2>1, <2>2, HalfIntAssumption, SMT
  <2> QED BY <2>2, <2>3, CutExact DEF Comp
<1>3. ASSUME NEW i \in 0 .. n - 1, NEW j \in 0 .. n - 1, NEW k \in 0 .. n - 1
      PROVE  /\ Comp(rs[i], rs[j]) < 0 <=> Comp(rs[j], rs[i]) > 0
             /\ Comp(rs[i], rs[j]) <= 0 /\ Comp(rs[j], rs[k]) <= 0 => Comp(rs[i], rs[k]) <= 0
  <2>1. rs[i] \in Int /\ rs[j] \in Int /\ rs[k] \in Int BY <1>1
  <2>2. /\ Comp(rs[i], rs[j]) = rs[i] - rs[j] /\ Comp(rs[j], rs[i]) = rs[j] - rs[i]
        /\ Comp(rs[j], rs[k]) = rs[j] - rs[k] /\ Comp(rs[i], rs[k]) = rs[i] - rs[k]
    BY <1>2
  <2> QED BY <2>1, <2>2, SMT
<1> QED BY <1>2, <1>3 DEF IsOrder

-----------------------------------------------------------------------------
\* What a step must keep of the rows, when it reads one and when it does not.
LEMMA StoreKeeps ==
  ASSUME InvType, InvRows, pc = "read", NEW id \in Ids, Store(id), UNCHANGED <<pc, query>>
  PROVE  InvType' /\ InvRows'
<1> DEFINE last == capacity' - 1
<1>1. /\ n \in Nat /\ capacity \in Nat /\ n < capacity /\ n' = n + 1 /\ rows' = rows \cup {id}
      /\ rs \in [0 .. capacity - 1 -> Ids] /\ rows \subseteq Ids
      /\ \A k \in 0 .. n - 1 : rs[k] \in rows
      /\ \A r \in rows : \E k \in 0 .. n - 1 : rs[k] = r
  BY DEF InvType, InvRows, Loaded, Store
<1>2. /\ capacity' \in Nat /\ n' < capacity' /\ rs' \in [0 .. last -> Ids]
      /\ rs'[n] = id /\ \A k \in 0 .. n - 1 : rs'[k] = rs[k]
  <2>1. CASE n + 1 = capacity
    <3>1. capacity' = 2 * capacity BY <2>1 DEF Store
    <3>2. PICK new \in [0 .. 2 * capacity - 1 -> Ids] :
            /\ \A k \in 0 .. capacity - 1 : new[k] = IF k = n THEN id ELSE rs[k]
            /\ rs' = new
      BY <2>1 DEF Store
    <3>3. n' < capacity' /\ capacity' \in Nat BY <1>1, <2>1, <3>1, SMT
    <3>4. n \in 0 .. capacity - 1 /\ \A k \in 0 .. n - 1 : k \in 0 .. capacity - 1 /\ k # n
      BY <1>1, SMT
    <3> QED BY <3>1, <3>2, <3>3, <3>4
  <2>2. CASE n + 1 # capacity
    <3>1. capacity' = capacity /\ rs' = [rs EXCEPT ![n] = id] BY <2>2 DEF Store
    <3>2. n' < capacity' /\ n \in 0 .. capacity - 1 BY <1>1, <2>2, <3>1, SMT
    <3>3. \A k \in 0 .. n - 1 : k \in 0 .. capacity - 1 /\ k # n BY <1>1, SMT
    <3> QED BY <1>1, <3>1, <3>2, <3>3
  <2> QED BY <2>1, <2>2
<1>3. \A k \in 0 .. n' - 1 : k = n \/ k \in 0 .. n - 1 BY <1>1, SMT
<1>4. n \in 0 .. n' - 1 /\ \A k \in 0 .. n - 1 : k \in 0 .. n' - 1 BY <1>1, SMT
<1>5. \A k \in 0 .. n' - 1 : rs'[k] \in rows' BY <1>1, <1>2, <1>3
<1>6. \A r \in rows' : \E k \in 0 .. n' - 1 : rs'[k] = r BY <1>1, <1>2, <1>4
<1>7. InvRows' BY <1>1, <1>2, <1>5, <1>6 DEF InvRows
<1>8. InvType' BY <1>1, <1>2 DEF InvType, query
<1> QED BY <1>7, <1>8

\* mk_binsort: the records are the same, and in order if their ids are close.
LEMMA SortKeeps ==
  ASSUME InvType, InvRows, Sort
  PROVE  InvType' /\ InvRows' /\ InvSorted'
<1>1. PICK f \in [0 .. n - 1 -> 0 .. n - 1] :
        /\ \A k \in 0 .. n - 1 : \E j \in 0 .. n - 1 : f[j] = k
        /\ IsOrder => \A i, j \in 0 .. n - 1 : i < j => Comp(rs[f[i]], rs[f[j]]) <= 0
        /\ rs' = [k \in 0 .. capacity - 1 |-> IF k < n THEN rs[f[k]] ELSE rs[k]]
  BY DEF Sort
<1>2. /\ pc = "index" /\ Loaded /\ pc' = "sorted"
      /\ UNCHANGED <<n, capacity, query, rows, low, high, answer>>
  BY DEF Sort, Loaded, query
<1>3. /\ n \in Nat /\ capacity \in Nat /\ n < capacity
      /\ rs \in [0 .. capacity - 1 -> Ids] /\ rows \subseteq Ids
      /\ \A k \in 0 .. n - 1 : rs[k] \in rows
      /\ \A r \in rows : \E k \in 0 .. n - 1 : rs[k] = r
  BY <1>2 DEF InvType, InvRows
<1>4. \A k \in 0 .. n - 1 : k \in 0 .. capacity - 1 /\ k < n /\ f[k] \in 0 .. n - 1
  BY <1>3, SMT
<1>5. \A k \in 0 .. n - 1 : rs'[k] = rs[f[k]] BY <1>1, <1>4
<1>6. rs' \in [0 .. capacity - 1 -> Ids]
  <2>1. \A k \in 0 .. capacity - 1 : k < n => f[k] \in 0 .. capacity - 1 BY <1>3, <1>4, SMT
  <2> QED BY <1>1, <1>3, <2>1
<1>7. InvRows'
  <2>1. \A k \in 0 .. n - 1 : rs'[k] \in rows BY <1>3, <1>4, <1>5
  <2>2. ASSUME NEW r \in rows PROVE \E k \in 0 .. n - 1 : rs'[k] = r
    <3>1. PICK m \in 0 .. n - 1 : rs[m] = r BY <1>3
    <3>2. PICK k \in 0 .. n - 1 : f[k] = m BY <1>1
    <3> QED BY <1>5, <3>1, <3>2
  <2> QED BY <1>2, <1>3, <1>6, <2>1, <2>2 DEF InvRows
<1>8. InvSorted'
  <2>1. SUFFICES ASSUME Close, NEW i \in 0 .. n - 1, NEW j \in 0 .. n - 1, i < j
                 PROVE  rs'[i] <= rs'[j]
    BY <1>2 DEF InvSorted, Close
  <2>2. Comp(rs[f[i]], rs[f[j]]) <= 0 BY <1>1, <1>2, <2>1, CloseIsOrder
  <2>3. rs[f[i]] - rs[f[j]] <= 0 BY <1>2, <1>4, <2>1, <2>2, CloseIsOrder
  <2>4. rs[f[i]] \in Int /\ rs[f[j]] \in Int
    <3>1. f[i] \in 0 .. n - 1 /\ f[j] \in 0 .. n - 1 BY <1>4
    <3>2. rs[f[i]] \in Ids /\ rs[f[j]] \in Ids BY <1>3, <3>1
    <3> QED BY <3>2, IdsAssumption
  <2>5. rs[f[i]] <= rs[f[j]] BY <2>3, <2>4, SMT
  <2> QED BY <1>5, <2>5
<1>9. InvType' BY <1>2 DEF InvType
<1> QED BY <1>7, <1>8, <1>9

\* The scan: what it has passed does not have the id.
LEMMA ScanKeeps ==
  ASSUME InvQuery, Scan
  PROVE  InvQuery'
<1>1. /\ pc = "scan" /\ Loaded /\ UNCHANGED <<rs, n, capacity, needle, rows, high>>
      /\ n \in Nat /\ capacity \in Nat /\ n < capacity /\ low \in 0 .. n /\ needle \in Ids
      /\ \A k \in 0 .. n - 1 : rs[k] \in rows
      /\ \A r \in rows : \E k \in 0 .. n - 1 : rs[k] = r
      /\ \A k \in 0 .. low - 1 : rs[k] # needle
  BY DEF InvQuery, InvType, InvRows, InvScan, Loaded, Scan, Return
<1>2. CASE low = n /\ Return(-1, "scanned")
  <2>1. pc' = "scanned" /\ answer' = -1 /\ low' = low BY <1>2 DEF Return
  <2>2. needle \notin rows BY <1>1, <1>2
  <2>3. AnswerRight' BY <1>1, <2>1, <2>2 DEF AnswerRight
  <2> QED BY <1>1, <2>1, <2>3
          DEF InvQuery, InvType, InvRows, InvSorted, InvScan, InvRange, InvSearch, Loaded
<1>3. CASE low # n /\ rs[low] = needle /\ Return(low, "scanned")
  <2>1. pc' = "scanned" /\ answer' = low /\ low' = low BY <1>3 DEF Return
  <2>2. low \in 0 .. n - 1 /\ low \in 0 .. capacity - 1 /\ low # -1 BY <1>1, <1>3, SMT
  <2>3. needle \in rows BY <1>1, <1>3, <2>2
  <2>4. AnswerRight' BY <1>1, <1>3, <2>1, <2>2, <2>3 DEF AnswerRight
  <2> QED BY <1>1, <2>1, <2>2, <2>4
          DEF InvQuery, InvType, InvRows, InvSorted, InvScan, InvRange, InvSearch, Loaded
<1>4. CASE /\ low # n /\ rs[low] # needle
           /\ low' = low + 1 /\ UNCHANGED <<pc, high, answer>>
  <2>1. low' \in 0 .. n /\ rs[low] # needle BY <1>1, <1>4, SMT
  <2>2. \A k \in 0 .. low' - 1 : k = low \/ k \in 0 .. low - 1 BY <1>1, <1>4, SMT
  <2>3. \A k \in 0 .. low' - 1 : rs[k] # needle BY <1>1, <2>1, <2>2
  <2> QED BY <1>1, <1>4, <2>1, <2>3
          DEF InvQuery, InvType, InvRows, InvSorted, InvScan, InvRange, InvSearch, AnswerRight, Loaded
<1> QED BY <1>1, <1>2, <1>3, <1>4 DEF Scan

\* The binary search: what is outside the range is smaller or larger than the id, and the range
\* gets smaller without leaving the array.
LEMMA SearchKeeps ==
  ASSUME InvQuery, Search
  PROVE  InvQuery'
<1>1. /\ pc = "search" /\ Loaded /\ UNCHANGED <<rs, n, capacity, needle, rows>>
      /\ n \in Nat /\ capacity \in Nat /\ n < capacity /\ needle \in Ids
      /\ low \in Int /\ high \in Int /\ 0 <= low /\ low <= high + 1 /\ high < n
      /\ rs \in [0 .. capacity - 1 -> Ids]
      /\ \A k \in 0 .. n - 1 : rs[k] \in rows
      /\ \A r \in rows : \E k \in 0 .. n - 1 : rs[k] = r
  BY DEF InvQuery, InvType, InvRows, InvRange, Loaded, Search
<1>2. /\ Mid \in Int /\ low <= Mid /\ (low <= high => Mid <= high) /\ (high < low => Mid = low)
  BY <1>1, MidInRange
<1>3. Mid \in 0 .. capacity - 1 /\ Mid <= n /\ (low <= high => Mid \in 0 .. n - 1)
  BY <1>1, <1>2, SMT
<1>4. rs[Mid] \in Int /\ needle \in Int
  <2>1. rs[Mid] \in Ids BY <1>1, <1>3
  <2> QED BY <1>1, <2>1, IdsAssumption
<1>5. \A k \in 0 .. n - 1 : rs[k] \in Int
  <2>1. \A k \in 0 .. n - 1 : k \in 0 .. capacity - 1 BY <1>1, SMT
  <2> QED BY <1>1, <2>1, IdsAssumption
<1>6. Close => /\ \A i, j \in 0 .. n - 1 : i < j => rs[i] <= rs[j]
               /\ \A k \in 0 .. n - 1 : (k < low => rs[k] < needle) /\ (k > high => rs[k] > needle)
  BY <1>1 DEF InvQuery, InvSorted, InvSearch
<1>7. Close' = Close BY <1>1 DEF Close
<1>8. ASSUME Close, high < low PROVE needle \notin rows
  <2>1. ASSUME NEW k \in 0 .. n - 1 PROVE rs[k] # needle
    <3>1. k < low \/ k > high BY <1>1, <1>8, SMT
    <3> QED BY <1>4, <1>5, <1>6, <1>8, <3>1, SMT
  <2> QED BY <1>1, <2>1
<1>9. CASE rs[Mid] = needle /\ Return(Mid, "searched")
  <2>1. pc' = "searched" /\ answer' = Mid /\ low' = low /\ high' = high BY <1>9 DEF Return
  <2>2. Mid # -1 BY <1>3, SMT
  <2>3. ASSUME Close, needle \in rows PROVE Mid < n
    <3>1. low <= high BY <1>1, <1>8, <2>3, SMT
    <3> QED BY <1>1, <1>3, <3>1, SMT
  <2>4. ASSUME needle \notin rows PROVE Mid = n
    <3>1. ~ (Mid \in 0 .. n - 1) BY <1>1, <1>9, <2>4
    <3> QED BY <1>1, <1>3, <3>1, SMT
  <2>5. AnswerRight' BY <1>1, <1>3, <1>7, <1>9, <2>1, <2>2, <2>3, <2>4 DEF AnswerRight
  <2> QED BY <1>1, <1>2, <1>6, <1>7, <2>1, <2>5
          DEF InvQuery, InvType, InvRows, InvSorted, InvScan, InvRange, InvSearch, Loaded
<1>10. CASE rs[Mid] # needle /\ high < low /\ Return(-1, "searched")
  <2>1. pc' = "searched" /\ answer' = -1 /\ low' = low /\ high' = high BY <1>10 DEF Return
  <2>2. AnswerRight' BY <1>1, <1>7, <1>8, <1>10, <2>1 DEF AnswerRight
  <2> QED BY <1>1, <1>6, <1>7, <2>1, <2>2
          DEF InvQuery, InvType, InvRows, InvSorted, InvScan, InvRange, InvSearch, Loaded
<1>11. CASE rs[Mid] > needle /\ high >= low /\ high' = Mid - 1 /\ UNCHANGED <<pc, low, answer>>
  <2>1. Mid \in 0 .. n - 1 BY <1>1, <1>3, <1>11, SMT
  <2>2. high' \in Int /\ low' <= high' + 1 /\ high' < n BY <1>1, <1>2, <2>1, <1>11, SMT
  <2>3. ASSUME Close, NEW k \in 0 .. n - 1, k > high' PROVE rs[k] > needle
    <3>1. k = Mid \/ Mid < k BY <1>2, <1>11, <2>3, SMT
    <3>2. rs[Mid] <= rs[k] BY <1>4, <1>6, <2>1, <2>3, <3>1, SMT
    <3> QED BY <1>4, <1>5, <1>11, <3>2, SMT
  <2>4. InvSearch' BY <1>1, <1>6, <1>7, <1>11, <2>3 DEF InvSearch
  <2> QED BY <1>1, <1>6, <1>7, <1>11, <2>2, <2>4
          DEF InvQuery, InvType, InvRows, InvSorted, InvScan, InvRange, AnswerRight, Loaded
<1>12. CASE rs[Mid] < needle /\ high >= low /\ low' = Mid + 1 /\ UNCHANGED <<pc, high, answer>>
  <2>1. Mid \in 0 .. n - 1 BY <1>1, <1>3, <1>12, SMT
  <2>2. low' \in Int /\ 0 <= low' /\ low' <= high' + 1 BY <1>1, <1>2, <2>1, <1>12, SMT
  <2>3. ASSUME Close, NEW k \in 0 .. n - 1, k < low' PROVE rs[k] < needle
    <3>1. k = Mid \/ k < Mid BY <1>2, <1>12, <2>3, SMT
    <3>2. rs[k] <= rs[Mid] BY <1>4, <1>6, <2>1, <2>3, <3>1, SMT
    <3> QED BY <1>4, <1>5, <1>12, <3>2, SMT
  <2>4. InvSearch' BY <1>1, <1>6, <1>7, <1>12, <2>3 DEF InvSearch
  <2> QED BY <1>1, <1>6, <1>7, <1>12, <2>2, <2>4
          DEF InvQuery, InvType, InvRows, InvSorted, InvScan, InvRange, AnswerRight, Loaded
<1> QED BY <1>9, <1>10, <1>11, <1>12 DEF Search

-----------------------------------------------------------------------------
\* The searches by id begin with the invariant.
LEMMA QueryInit == QInit => InvQuery
BY SMT DEF QInit, InvQuery, InvType, InvRows, InvSorted, InvScan, InvRange, InvSearch, AnswerRight, Loaded

\* Every step keeps the invariant: one part per action.
LEMMA QueryStep == InvQuery /\ [QNext]_qvars => InvQuery'
<1> SUFFICES ASSUME InvQuery, [QNext]_qvars PROVE InvQuery' OBVIOUS
<1> USE DEF query
<1>1. CASE Open
  <2>1. CASE pc' = "end" /\ UNCHANGED <<rs, capacity>>
    BY <1>1, <2>1 DEF InvQuery, InvType, InvRows, InvSorted, InvScan, InvRange, InvSearch,
                      AnswerRight, Loaded, Open
  <2>2. CASE pc' = "read" /\ capacity' = FirstSize /\ rs' \in [0 .. FirstSize - 1 -> Ids]
    <3>1. /\ n' = 0 /\ rows' = {} /\ UNCHANGED <<low, high, answer>>
      BY <1>1 DEF InvQuery, InvType, Open
    <3>2. InvRows' BY <2>2, <3>1, FirstSizeAssumption, SMT DEF InvRows
    <3> QED BY <2>2, <3>1, <3>2, FirstSizeAssumption
            DEF InvQuery, InvType, InvSorted, InvScan, InvRange, InvSearch, AnswerRight
  <2> QED BY <1>1, <2>1, <2>2 DEF Open
<1>2. CASE ReadRow
  <2>1. PICK id \in Ids : Store(id)
    <3>1. CASE \E id \in Ids : Store(id) BY <3>1
    <3>2. CASE Store(rs[n])
      <4>1. n \in 0 .. capacity - 1 /\ rs \in [0 .. capacity - 1 -> Ids]
        BY <1>2, SMT DEF InvQuery, InvType, InvRows, Loaded, ReadRow
      <4> QED BY <3>2, <4>1
    <3> QED BY <1>2, <3>1, <3>2 DEF ReadRow
  <2>2. pc = "read" /\ UNCHANGED <<pc, query>> BY <1>2 DEF ReadRow
  <2>3. InvType' /\ InvRows' BY <2>1, <2>2, StoreKeeps DEF InvQuery
  <2> QED BY <2>2, <2>3 DEF InvQuery, InvSorted, InvScan, InvRange, InvSearch, AnswerRight
<1>3. CASE EndOfFile \/ KeepOrder \/ Quit
  <2>1. /\ pc' \in {"index", "prompt", "end"} /\ pc \in {"read", "index", "prompt", "sorted"}
        /\ UNCHANGED <<rs, n, capacity, query, rows>>
    BY <1>3 DEF EndOfFile, KeepOrder, Quit
  <2> QED BY <2>1 DEF InvQuery, InvType, InvRows, InvSorted, InvScan, InvRange, InvSearch,
                      AnswerRight, Loaded
<1>4. CASE Sort
  <2>1. InvType' /\ InvRows' /\ InvSorted' BY <1>4, SortKeeps DEF InvQuery
  <2> QED BY <1>4, <2>1 DEF Sort, InvQuery, InvScan, InvRange, InvSearch, AnswerRight
<1>5. CASE Ask
  <2>1. PICK id \in Ids :
          /\ pc \in {"prompt", "sorted"}
          /\ pc' = IF pc = "prompt" THEN "scan" ELSE "search"
          /\ needle' = id /\ low' = 0 /\ high' = n - 1 /\ answer' = -1
          /\ UNCHANGED <<rs, n, capacity, rows>>
    BY <1>5 DEF Ask
  <2>2. n \in Nat /\ InvType' BY <2>1, SMT DEF InvQuery, InvType
  <2>3. InvRows' /\ InvSorted'
    BY <2>1 DEF InvQuery, InvRows, InvSorted, Close, Loaded
  <2>4. InvScan' /\ InvRange' /\ InvSearch' /\ AnswerRight'
    BY <2>1, <2>2, SMT DEF InvScan, InvRange, InvSearch, AnswerRight
  <2> QED BY <2>2, <2>3, <2>4 DEF InvQuery
<1>6. CASE Scan BY <1>6, ScanKeeps
<1>7. CASE Search BY <1>7, SearchKeeps
<1>8. CASE Reply
  <2>1. /\ pc \in {"scanned", "searched"} /\ pc' = IF pc = "scanned" THEN "prompt" ELSE "sorted"
        /\ UNCHANGED <<rs, n, capacity, query, rows>>
    BY <1>8 DEF Reply
  <2> QED BY <2>1 DEF InvQuery, InvType, InvRows, InvSorted, InvScan, InvRange, InvSearch,
                      AnswerRight, Loaded, Close
<1>9. CASE UNCHANGED qvars
  BY <1>9 DEF qvars, InvQuery, InvType, InvRows, InvSorted, InvScan, InvRange, InvSearch,
              AnswerRight, Loaded, Close
<1> QED BY <1>1, <1>2, <1>3, <1>4, <1>5, <1>6, <1>7, <1>8, <1>9 DEF QNext

\* The reader and the searches stay inside the array, for files of any length
\* (record.c:153-162, id_query_binsort.c:37-55).
THEOREM StaysInArray == QSpec => []ReadsAllocated
<1>1. InvQuery => ReadsAllocated
  <2>1. SUFFICES ASSUME InvQuery, pc = "search" PROVE Mid \in 0 .. capacity - 1
    BY DEF InvQuery, InvRows, ReadsAllocated, Loaded
  <2>2. /\ low \in Int /\ high \in Int /\ n \in Nat /\ capacity \in Nat /\ n < capacity
        /\ 0 <= low /\ low <= high + 1 /\ high < n
    BY <2>1 DEF InvQuery, InvType, InvRows, InvRange, Loaded
  <2>3. Mid \in Int /\ low <= Mid /\ (low <= high => Mid <= high) /\ (high < low => Mid = low)
    BY <2>2, MidInRange
  <2> QED BY <2>2, <2>3, SMT
<1> QED BY <1>1, QueryInit, QueryStep, PTL DEF QSpec

\* The scan and the binary search find an id that the file has, and nothing the file does not have
\* but what memory holds behind the last record (id_query_naive.c:28-36, id_query_binsort.c:37-55).
THEOREM SearchesRight == QSpec => []AnswerRight
<1>1. InvQuery => AnswerRight BY DEF InvQuery
<1> QED BY <1>1, QueryInit, QueryStep, PTL DEF QSpec

-----------------------------------------------------------------------------
(* A0, the classifier.                                                     *)

\* Until the file has a type, no character has begun yet, or the first one lacks bytes: as many as
\* its length says, if the file is UTF-8.
InvReading == type = None /\ pos > 0 =>
  /\ pos <= Len(buffer) + 1
  /\ byteMissing = 0 => \A i \in 1 .. pos - 1 : buffer[i] \in {"ascii", "high"}
  /\ byteMissing # 0 => \E h \in 1 .. pos - 1 :
       buffer[h] \in Heads /\ (Utf8(buffer) => pos = h + Length(buffer[h]) - byteMissing)

InvFileType == /\ buffer \in Seq(Bytes) /\ pos \in Nat /\ byteMissing \in 0 .. 3
               /\ type \in Types \cup {None} /\ (pos = 0 => byteMissing = 0 /\ type = None)
               /\ InvReading /\ Classified

\* A character of several bytes has two to four (file.c:81-106).
LEMMA Lengths == ASSUME NEW b \in Heads PROVE Length(b) \in 2 .. 4
BY DEF Heads, Length

\* A byte that does not continue the first character, while the character lacks one, spoils the
\* file as UTF-8, and so does the end of the file (file.c:100-118).
LEMMA Continues ==
  ASSUME InvFileType, type = None, pos > 0, byteMissing # 0, Utf8(buffer)
  PROVE  pos \in DOMAIN buffer /\ buffer[pos] \in Continuations
<1>1. PICK h \in 1 .. pos - 1 : buffer[h] \in Heads /\ pos = h + Length(buffer[h]) - byteMissing
  BY DEF InvFileType, InvReading
<1>2. /\ buffer \in Seq(Bytes) /\ pos \in Nat /\ byteMissing \in 0 .. 3 /\ pos <= Len(buffer) + 1
  BY DEF InvFileType, InvReading
<1>3. h \in DOMAIN buffer BY <1>2, SMT
<1>4. Length(buffer[h]) \in 2 .. 4 BY <1>1, Lengths
<1>5. pos \in h + 1 .. h + Length(buffer[h]) - 1
  <2>1. PICK l : l = Length(buffer[h]) OBVIOUS
  <2>2. h \in Int /\ pos \in Int /\ l \in Int /\ byteMissing \in Int BY <1>2, <1>4, <2>1
  <2>3. h < pos /\ byteMissing >= 1 BY <1>2
  <2>4. pos = h + l - byteMissing BY ONLY <1>1, <2>1
  <2>5. pos \in h + 1 .. h + l - 1 BY ONLY <2>2, <2>3, <2>4
  <2> QED BY ONLY <2>1, <2>5
<1> QED BY <1>1, <1>3, <1>5 DEF Utf8

\* In UTF-8 a byte that continues a character has the beginning of one before it.
LEMMA HeadBefore ==
  ASSUME InvFileType, type = None, pos \in DOMAIN buffer, byteMissing = 0, Utf8(buffer)
  PROVE  buffer[pos] \notin Continuations
<1> SUFFICES ASSUME buffer[pos] \in Continuations PROVE FALSE OBVIOUS
<1>1. PICK h \in DOMAIN buffer : h < pos /\ buffer[h] \in Heads BY DEF Utf8
<1>2. buffer \in Seq(Bytes) /\ pos \in Nat /\ pos > 0 BY SMT DEF InvFileType
<1>3. h \in 1 .. pos - 1 BY <1>1, <1>2, SMT
<1>4. buffer[h] \in {"ascii", "high"} BY <1>2, <1>3 DEF InvFileType, InvReading
<1> QED BY <1>1, <1>4 DEF Heads

\* One turn of the loop.
LEMMA ByteKeeps == ASSUME InvFileType, ReadByte PROVE InvFileType'
<1> DEFINE b == buffer[pos]
<1>1. /\ pos \in DOMAIN buffer /\ type = None /\ Byte(b) /\ pos' = pos + 1 /\ buffer' = buffer
      /\ buffer \in Seq(Bytes) /\ pos \in Nat /\ pos > 0 /\ byteMissing \in 0 .. 3 /\ pos <= Len(buffer)
  BY SMT DEF ReadByte, InvFileType
<1>2. b \in Bytes BY <1>1, ElementOfSeq, SMT
<1>3. pos' \in Nat /\ pos' > 0 /\ pos' <= Len(buffer) + 1 /\ \A i \in 1 .. pos' - 1 : i \in 1 .. pos - 1 \/ i = pos
  BY <1>1, SMT
<1>4. Utf8(buffer)' = Utf8(buffer) BY <1>1 DEF Utf8
<1>5. pos \in 1 .. pos' - 1 /\ \A i \in 1 .. pos - 1 : i \in 1 .. pos' - 1 BY <1>1, SMT
<1>6. \A S : b \in S => Has(S) BY <1>1 DEF Has
<1>7. CASE b = "nul"
  <2>1. type' = "data" /\ byteMissing' = byteMissing BY <1>1, <1>7 DEF Byte, Heads
  <2>2. ~ Utf8(buffer) BY <1>1, <1>7 DEF Utf8
  <2> QED BY <1>1, <1>3, <1>4, <2>1, <2>2, TypesAssumption DEF InvFileType, InvReading, Classified, Types
<1>8. CASE b = "cont1"
  <2>1. type' = "UTF" /\ byteMissing' = byteMissing BY <1>1, <1>8 DEF Byte, Heads
  <2> QED BY <1>1, <1>3, <1>4, <2>1, TypesAssumption DEF InvFileType, InvReading, Classified, Types
<1>9. CASE b = "cont2" /\ byteMissing = 0
  <2>1. type' = "ISO" /\ byteMissing' = byteMissing BY <1>1, <1>9 DEF Byte, Heads
  <2>2. ~ Utf8(buffer) BY <1>1, <1>9, HeadBefore DEF Continuations
  <2>3. Has(Heads \cup Continuations)' BY <1>1, <1>9 DEF Has, Continuations
  <2> QED BY <1>1, <1>3, <1>4, <2>1, <2>2, <2>3, TypesAssumption DEF InvFileType, InvReading, Classified, Types
<1>10. CASE b \in Heads /\ byteMissing # 0
  <2>1. type' = "ISO" /\ byteMissing' = byteMissing BY <1>1, <1>10 DEF Byte, Heads
  <2>2. ~ Utf8(buffer) BY <1>1, <1>10, Continues DEF Heads, Continuations
  <2>3. Has(Heads \cup Continuations)' BY <1>1, <1>10 DEF Has
  <2> QED BY <1>1, <1>3, <1>4, <2>1, <2>2, <2>3, TypesAssumption DEF InvFileType, InvReading, Classified, Types
<1>11. CASE b \in Heads /\ byteMissing = 0
  <2>1. type' = None /\ byteMissing' = Length(b) - 1 BY <1>1, <1>11 DEF Byte, Heads
  <2>2. Length(b) \in 2 .. 4 BY <1>11, Lengths
  <2>3. byteMissing' \in 1 .. 3 /\ pos' = pos + Length(b) - byteMissing' BY <1>1, <2>1, <2>2, SMT
  <2>4. \E h \in 1 .. pos' - 1 : buffer[h] \in Heads /\ pos' = h + Length(buffer[h]) - byteMissing'
    BY <1>5, <1>11, <2>3
  <2>5. InvReading' BY <1>1, <1>3, <2>3, <2>4 DEF InvReading
  <2>6. Classified' BY <2>1, TypesAssumption DEF Classified, Types
  <2> QED BY <1>1, <1>3, <2>1, <2>3, <2>5, <2>6 DEF InvFileType
<1>12. CASE b = "cont2" /\ byteMissing # 0
  <2>1. byteMissing' = byteMissing - 1 /\ type' = IF byteMissing = 1 THEN "UTF" ELSE None
    BY <1>1, <1>12 DEF Byte, Heads
  <2>2. byteMissing' \in 0 .. 3 BY <1>1, <1>12, <2>1, SMT
  <2>3. CASE byteMissing = 1
    BY <1>1, <1>3, <1>4, <2>1, <2>2, <2>3, TypesAssumption DEF InvFileType, InvReading, Classified, Types
  <2>4. CASE byteMissing # 1
    <3>1. type' = None /\ byteMissing' # 0 BY <1>1, <1>12, <2>1, <2>4, SMT
    <3>2. PICK h \in 1 .. pos - 1 :
            buffer[h] \in Heads /\ (Utf8(buffer) => pos = h + Length(buffer[h]) - byteMissing)
      BY <1>1, <1>12 DEF InvFileType, InvReading
    <3>3. Length(buffer[h]) \in 2 .. 4 BY <3>2, Lengths
    <3>4. ASSUME Utf8(buffer) PROVE pos' = h + Length(buffer[h]) - byteMissing'
      <4>1. pos = h + Length(buffer[h]) - byteMissing BY <3>2, <3>4
      <4>2. /\ pos' = pos + 1 /\ byteMissing' = byteMissing - 1 /\ byteMissing \in 0 .. 3
            /\ pos \in Nat /\ h \in 1 .. pos - 1
        BY <1>1, <2>1
      <4> QED BY <3>3, <4>1, <4>2
    <3>5. InvReading' BY <1>1, <1>3, <1>4, <1>5, <3>1, <3>2, <3>4 DEF InvReading
    <3>6. Classified' BY <3>1, TypesAssumption DEF Classified, Types
    <3> QED BY <1>1, <1>3, <2>2, <3>1, <3>5, <3>6 DEF InvFileType
  <2> QED BY <2>3, <2>4
<1>13. CASE b \in {"ascii", "high"}
  <2>1. type' = None /\ byteMissing' = byteMissing BY <1>1, <1>13 DEF Byte, Heads
  <2>2. CASE byteMissing = 0
    <3>1. \A i \in 1 .. pos - 1 : buffer[i] \in {"ascii", "high"}
      BY <1>1, <2>2 DEF InvFileType, InvReading
    <3>2. InvReading' BY <1>1, <1>3, <1>13, <2>1, <2>2, <3>1 DEF InvReading
    <3>3. Classified' BY <2>1, TypesAssumption DEF Classified, Types
    <3> QED BY <1>1, <1>3, <2>1, <3>2, <3>3 DEF InvFileType
  <2>3. CASE byteMissing # 0
    <3>1. ~ Utf8(buffer) BY <1>1, <1>13, <2>3, Continues DEF Continuations
    <3>2. \E h \in 1 .. pos - 1 : buffer[h] \in Heads BY <1>1, <2>3 DEF InvFileType, InvReading
    <3>3. InvReading' BY <1>1, <1>3, <1>4, <1>5, <2>1, <2>3, <3>1, <3>2 DEF InvReading
    <3>4. Classified' BY <2>1, TypesAssumption DEF Classified, Types
    <3> QED BY <1>1, <1>3, <2>1, <3>3, <3>4 DEF InvFileType
  <2> QED BY <2>2, <2>3
<1> QED BY <1>2, <1>7, <1>8, <1>9, <1>10, <1>11, <1>12, <1>13 DEF Bytes, Continuations

\* Every step of the classifier keeps its invariant.
LEMMA FileTypeStep == InvFileType /\ [FNext]_fvars => InvFileType'
<1> SUFFICES ASSUME InvFileType, [FNext]_fvars PROVE InvFileType' OBVIOUS
<1>1. CASE OpenFile
  <2>1. PICK len \in 0 .. MaxBytes : buffer' \in [1 .. len -> Bytes] BY <1>1 DEF OpenFile
  <2>2. buffer' \in Seq(Bytes) /\ Len(buffer') = len BY <2>1, MaxBytesAssumption, SMT
  <2>3. pos' = 1 /\ byteMissing' = 0 /\ type' = IF buffer' = <<>> THEN "empty" ELSE None
    BY <1>1 DEF OpenFile, InvFileType
  <2>4. ASSUME buffer' = <<>> PROVE ~ Has(Heads)'
    BY <2>4 DEF Has
  <2>5. Classified' BY <2>3, <2>4, TypesAssumption DEF Classified, Types
  <2>6. InvReading' BY <2>2, <2>3, SMT DEF InvReading
  <2> QED BY <2>2, <2>3, <2>5, <2>6 DEF InvFileType, Types
<1>2. CASE ReadByte BY <1>2, ByteKeeps
<1>3. CASE EndOfBytes
  <2>1. /\ pos > Len(buffer) /\ pos > 0 /\ type = None
        /\ type' = IF byteMissing # 0 THEN "ISO" ELSE "ASCII"
        /\ buffer' = buffer /\ pos' = pos /\ byteMissing' = byteMissing
        /\ buffer \in Seq(Bytes) /\ pos \in Nat /\ byteMissing \in 0 .. 3
    BY <1>3 DEF EndOfBytes, InvFileType
  <2>2. Utf8(buffer)' = Utf8(buffer) BY <2>1 DEF Utf8
  <2>3. CASE byteMissing # 0
    <3>1. ~ Utf8(buffer)
      <4>1. pos \notin DOMAIN buffer BY <2>1, SMT
      <4> QED BY <2>1, <2>3, <4>1, Continues
    <3>2. PICK h \in 1 .. pos - 1 : buffer[h] \in Heads BY <2>1, <2>3 DEF InvFileType, InvReading
    <3>3. h \in DOMAIN buffer BY <2>1, <3>2, SMT DEF InvFileType, InvReading
    <3>4. Has(Heads \cup Continuations)' BY <2>1, <3>2, <3>3 DEF Has
    <3>5. Classified' BY <2>1, <2>2, <2>3, <3>1, <3>4 DEF Classified
    <3> QED BY <2>1, <2>3, <3>5, TypesAssumption DEF InvFileType, InvReading, Types
  <2>4. CASE byteMissing = 0
    <3>1. \A i \in DOMAIN buffer : i \in 1 .. pos - 1 BY <2>1, SMT
    <3>2. \A i \in DOMAIN buffer : buffer[i] \in {"ascii", "high"}
      BY <2>1, <2>4, <3>1 DEF InvFileType, InvReading
    <3>3. ~ Has(Heads \cup Continuations \cup {"nul"})' /\ ~ Has(Heads)'
      BY <2>1, <3>2 DEF Has, Heads, Continuations
    <3>4. Classified' BY <2>1, <2>4, <3>3 DEF Classified
    <3> QED BY <2>1, <2>4, <3>4, TypesAssumption DEF InvFileType, InvReading, Types
  <2> QED BY <2>3, <2>4
<1>4. CASE UNCHANGED fvars
  BY <1>4 DEF fvars, InvFileType, InvReading, Classified, Has, Utf8
<1> QED BY <1>1, <1>2, <1>3, <1>4 DEF FNext

\* Text in UTF-8 that is not all ASCII is recognised as such; what is called ASCII or ISO-8859 has
\* none or some of the bytes above (file.c:63-123); for files of any length.
THEOREM ClassifiedRight == FSpec => []Classified
<1>1. FInit => InvFileType
  BY TypesAssumption DEF FInit, InvFileType, InvReading, Classified, Types
<1>2. InvFileType => Classified BY DEF InvFileType
<1> QED BY <1>1, <1>2, FileTypeStep, PTL DEF FSpec

-----------------------------------------------------------------------------
(* A3 and A4, reading and writing.                                         *)

\* The bytes handed out so far, and those in the buffer.
Given == base + Len(usrbuf)
Held == IF cnt > 0 THEN cnt ELSE 0

IoType == /\ pipe \in Seq(Nat) /\ usrbuf \in Seq(Nat) /\ base \in Nat
          /\ written \in Nat /\ wbufp \in 0 .. written /\ wstate \in {"open", "closed", "failed"}
          /\ ibuf \in [0 .. BufSize - 1 -> Nat] /\ bufptr \in Nat /\ cnt \in Int
          /\ call \in [may : SUBSET UNION Calls, name : {"none"} \cup UNION Calls, n : Nat]
          /\ result \in Int

\* The buffer and then the pipe hold what comes next.
IoOrder == /\ bufptr + Held <= BufSize
           /\ \A i \in 1 .. Held : ibuf[bufptr + i - 1] = Given + i
           /\ Len(pipe) = wbufp - Given - Held
           /\ \A i \in 1 .. Len(pipe) : pipe[i] = Given + Held + i

\* A call goes on as long as it was given too little, and reads without buffer leave it empty.
IoCalls == /\ wstate = "closed" => wbufp = written
           /\ "readn" \in call.may => cnt = 0
           /\ call.name # "none" => call.may \in Calls
           /\ result = Running =>
                /\ Len(usrbuf) < call.n /\ call.name \in call.may
                /\ call.name = "readlineb" => \A i \in DOMAIN usrbuf : usrbuf[i] \notin Newlines

InvIo == IoType /\ IoOrder /\ IoCalls /\ ReadsStream

\* The smaller of what is asked for and what there is bounds what is transferred.
LEMMA LeastIs ==
  ASSUME NEW a \in Int, NEW b \in Int
  PROVE  Least(a, b) \in Int /\ Least(a, b) <= a /\ Least(a, b) <= b /\ Least(a, b) \in {a, b}
BY DEF Least

\* Bytes that are the next ones are given to the caller, and the call returns when it has enough
\* (compsys_helpers.c:102-138).
LEMMA GiveKeeps ==
  ASSUME InvIo, result = Running, NEW bytes \in Seq(Nat), Give(bytes), Len(bytes) > 0,
         Len(usrbuf) + Len(bytes) <= call.n, call.name = "readlineb" => Len(bytes) = 1,
         \A i \in 1 .. Len(bytes) : bytes[i] = Given + i
  PROVE  /\ usrbuf' \in Seq(Nat) /\ Given' = Given + Len(bytes) /\ result' \in Int
         /\ UNCHANGED <<written, wbufp, wstate, call, base>>
         /\ ReadsStream'
         /\ result' = Running => /\ Len(usrbuf') < call.n
                                 /\ call.name = "readlineb" => \A i \in DOMAIN usrbuf' : usrbuf'[i] \notin Newlines
<1>1. /\ usrbuf \in Seq(Nat) /\ base \in Nat /\ call.n \in Nat
      /\ Len(usrbuf) \in Nat /\ Len(bytes) \in Nat /\ DOMAIN usrbuf = 1 .. Len(usrbuf)
  <2>1. usrbuf \in Seq(Nat) /\ base \in Nat /\ call.n \in Nat BY DEF InvIo, IoType
  <2> QED BY <2>1, LenProperties
<1>2. usrbuf' = usrbuf \o bytes /\ UNCHANGED <<written, wbufp, wstate, call, base>>
  BY DEF Give, writer
<1>3. /\ usrbuf' \in Seq(Nat) /\ Len(usrbuf') = Len(usrbuf) + Len(bytes)
      /\ \A i \in 1 .. Len(usrbuf) + Len(bytes) :
           usrbuf'[i] = IF i <= Len(usrbuf) THEN usrbuf[i] ELSE bytes[i - Len(usrbuf)]
  BY <1>1, <1>2, ConcatProperties, Zenon
<1>4. DOMAIN usrbuf' = 1 .. Len(usrbuf) + Len(bytes) BY <1>3, LenProperties
<1>5. Given' = Given + Len(bytes) BY <1>1, <1>2, <1>3 DEF Given
<1>6. \A i \in DOMAIN usrbuf' : usrbuf'[i] = base' + i
  <2> SUFFICES ASSUME NEW i \in 1 .. Len(usrbuf) + Len(bytes) PROVE usrbuf'[i] = base + i
    BY <1>2, <1>4
  <2>1. CASE i <= Len(usrbuf)
    <3>1. i \in DOMAIN usrbuf BY <1>1, <2>1
    <3> QED BY <1>3, <2>1, <3>1 DEF InvIo, ReadsStream
  <2>2. CASE i > Len(usrbuf)
    <3>1. i - Len(usrbuf) \in 1 .. Len(bytes) BY <1>1, <2>2
    <3>2. bytes[i - Len(usrbuf)] = Given + (i - Len(usrbuf)) BY <3>1
    <3>3. usrbuf'[i] = bytes[i - Len(usrbuf)] BY <1>3, <2>2
    <3>4. PICK k : k = Len(usrbuf) OBVIOUS
    <3>5. k \in Int /\ base \in Int /\ i \in Int BY <1>1, <3>4
    <3>6. usrbuf'[i] = base + k + (i - k) BY ONLY <3>2, <3>3, <3>4 DEF Given
    <3> QED BY ONLY <3>5, <3>6
  <2> QED BY <1>1, <2>1, <2>2
<1> DEFINE endOfLine == call.name = "readlineb" /\ usrbuf'[Len(usrbuf')] \in Newlines
<1>7. result' = IF Len(usrbuf') = call.n \/ endOfLine THEN Len(usrbuf') ELSE Running
  BY <1>2 DEF Give
<1>8. ASSUME call.name = "readlineb"
      PROVE  /\ Len(usrbuf') = Len(usrbuf) + 1
             /\ \A i \in 1 .. Len(usrbuf) : usrbuf'[i] \notin Newlines
  <2>1. Len(usrbuf') = Len(usrbuf) + 1 BY <1>3, <1>8
  <2>2. \A i \in 1 .. Len(usrbuf) : usrbuf[i] \notin Newlines BY <1>1, <1>8 DEF InvIo, IoCalls
  <2>3. ASSUME NEW i \in 1 .. Len(usrbuf) PROVE usrbuf'[i] = usrbuf[i]
    <3>1. i \in 1 .. Len(usrbuf) + Len(bytes) /\ i <= Len(usrbuf) BY <1>1
    <3> QED BY <1>3, <3>1
  <2> QED BY <2>1, <2>2, <2>3
<1>9. Len(usrbuf') \in Nat /\ Len(usrbuf') > 0 /\ Len(usrbuf') <= call.n BY <1>1, <1>3
<1>10. ReadsStream'
  <2>1. \A i \in 1 .. Len(usrbuf') - 1 : call.name = "readlineb" => usrbuf'[i] \notin Newlines
    <3> SUFFICES ASSUME call.name = "readlineb", NEW i \in 1 .. Len(usrbuf') - 1
                 PROVE  usrbuf'[i] \notin Newlines
      OBVIOUS
    <3>1. i \in 1 .. Len(usrbuf) BY <1>1, <1>8
    <3> QED BY <1>8, <3>1
  <2>2. ASSUME result' # Running PROVE result' = Len(usrbuf') /\ (result' < call.n => endOfLine)
    BY <1>7, <1>9, <2>2
  <2>3. usrbuf' # <<>> BY <1>3, <1>9, EmptySeq
  <2> QED BY <1>2, <1>6, <2>1, <2>2, <2>3 DEF ReadsStream
<1>11. ASSUME result' = Running
       PROVE  /\ Len(usrbuf') < call.n
              /\ call.name = "readlineb" => \A i \in DOMAIN usrbuf' : usrbuf'[i] \notin Newlines
  <2>1. Len(usrbuf') # call.n /\ ~ endOfLine BY <1>7, <1>9, <1>11 DEF Running
  <2>2. Len(usrbuf') < call.n BY <1>1, <1>9, <2>1
  <2>3. ASSUME call.name = "readlineb", NEW i \in DOMAIN usrbuf' PROVE usrbuf'[i] \notin Newlines
    <3>1. i \in 1 .. Len(usrbuf) \/ i = Len(usrbuf') BY <1>1, <1>4, <1>8, <2>3
    <3> QED BY <1>8, <2>1, <2>3, <3>1
  <2> QED BY <2>2, <2>3
<1>12. result' \in Int BY <1>7, <1>9 DEF Running
<1> HIDE DEF endOfLine
<1> QED BY <1>2, <1>3, <1>5, <1>10, <1>11, <1>12

\* The bytes at the beginning of the pipe are taken out of it.
LEMMA TakeFromPipe ==
  ASSUME InvIo, NEW k \in Nat, k > 0, k <= Len(pipe), cnt <= 0
  PROVE  /\ SubSeq(pipe, 1, k) \in Seq(Nat) /\ Len(SubSeq(pipe, 1, k)) = k
         /\ \A i \in 1 .. k : pipe[i] = Given + i /\ SubSeq(pipe, 1, k)[i] = Given + i
         /\ SubSeq(pipe, k + 1, Len(pipe)) \in Seq(Nat)
         /\ Len(SubSeq(pipe, k + 1, Len(pipe))) = wbufp - Given - k
         /\ \A i \in 1 .. wbufp - Given - k : SubSeq(pipe, k + 1, Len(pipe))[i] = Given + k + i
<1>1. /\ pipe \in Seq(Nat) /\ Len(pipe) \in Nat /\ cnt \in Int
      /\ base \in Nat /\ wbufp \in Nat /\ Len(usrbuf) \in Nat
      /\ \A i \in 1 .. Len(pipe) : pipe[i] \in Nat
  <2>1. pipe \in Seq(Nat) /\ usrbuf \in Seq(Nat) /\ base \in Nat /\ cnt \in Int /\ wbufp \in Nat
    BY DEF InvIo, IoType
  <2> QED BY <2>1, LenProperties, ElementOfSeq
<1>2. Held = 0 /\ Given \in Nat BY <1>1 DEF Held, Given
<1>3. Len(pipe) = wbufp - Given /\ \A i \in 1 .. Len(pipe) : pipe[i] = Given + i
  BY <1>1, <1>2 DEF InvIo, IoOrder
<1>4. \A i \in 1 .. k : i \in 1 .. Len(pipe) BY <1>1
<1>5. /\ SubSeq(pipe, 1, k) \in Seq(Nat) /\ Len(SubSeq(pipe, 1, k)) = k
      /\ \A i \in 1 .. k : SubSeq(pipe, 1, k)[i] = pipe[i]
  <2>1. \A i \in 1 .. k : pipe[i] \in Nat BY <1>1, <1>4
  <2>2. /\ SubSeq(pipe, 1, k) \in Seq(Nat)
        /\ Len(SubSeq(pipe, 1, k)) = IF 1 <= k THEN k - 1 + 1 ELSE 0
        /\ \A i \in 1 .. k - 1 + 1 : SubSeq(pipe, 1, k)[i] = pipe[1 + i - 1]
    BY <2>1, SubSeqProperties
  <2>3. k - 1 + 1 = k /\ 1 <= k /\ \A i \in 1 .. k : 1 + i - 1 = i OBVIOUS
  <2> QED BY <2>2, <2>3
<1>6. /\ SubSeq(pipe, k + 1, Len(pipe)) \in Seq(Nat)
      /\ Len(SubSeq(pipe, k + 1, Len(pipe))) = Len(pipe) - k
      /\ \A i \in 1 .. Len(pipe) - k : SubSeq(pipe, k + 1, Len(pipe))[i] = pipe[k + i]
  <2>1. \A i \in k + 1 .. Len(pipe) : pipe[i] \in Nat BY <1>1
  <2>2. /\ SubSeq(pipe, k + 1, Len(pipe)) \in Seq(Nat)
        /\ Len(SubSeq(pipe, k + 1, Len(pipe))) = IF k + 1 <= Len(pipe) THEN Len(pipe) - (k + 1) + 1 ELSE 0
        /\ \A i \in 1 .. Len(pipe) - (k + 1) + 1 : SubSeq(pipe, k + 1, Len(pipe))[i] = pipe[(k + 1) + i - 1]
    <3>1. k + 1 \in Int /\ Len(pipe) \in Int BY <1>1
    <3> QED BY <2>1, <3>1, SubSeqProperties
  <2>3. Len(pipe) - (k + 1) + 1 = Len(pipe) - k /\ \A i \in 1 .. Len(pipe) - k : (k + 1) + i - 1 = k + i
    BY <1>1
  <2>4. ~ (k + 1 <= Len(pipe)) => Len(pipe) - k = 0 BY <1>1
  <2> QED BY <2>2, <2>3, <2>4
<1>7. Len(pipe) - k = wbufp - Given - k BY <1>1, <1>2, <1>3
<1>8. \A i \in 1 .. wbufp - Given - k : pipe[k + i] = Given + k + i
  <2> SUFFICES ASSUME NEW i \in 1 .. wbufp - Given - k PROVE pipe[k + i] = Given + k + i OBVIOUS
  <2>1. k + i \in 1 .. Len(pipe) BY <1>1, <1>2, <1>3
  <2> QED BY <1>2, <1>3, <2>1
<1> QED BY <1>3, <1>4, <1>5, <1>6, <1>7, <1>8

\* What is sent later comes behind what is on its way (compsys_helpers.c:64-83).
LEMMA WriteKeeps == ASSUME InvIo, Writen \/ WriteSome \/ CloseEnd PROVE InvIo'
<1>1. /\ pipe \in Seq(Nat) /\ Len(pipe) \in Nat /\ usrbuf \in Seq(Nat) /\ Len(usrbuf) \in Nat /\ base \in Nat
      /\ Given \in Nat /\ Held \in Nat /\ written \in Nat /\ wbufp \in Nat /\ wbufp <= written /\ cnt \in Int
  <2>1. /\ pipe \in Seq(Nat) /\ usrbuf \in Seq(Nat) /\ base \in Nat /\ cnt \in Int
        /\ written \in Nat /\ wbufp \in 0 .. written
    BY DEF InvIo, IoType
  <2>2. Len(usrbuf) \in Nat /\ Len(pipe) \in Nat BY <2>1, LenProperties
  <2> QED BY <2>1, <2>2 DEF Given, Held
<1>2. CASE Writen
  <2>1. PICK n_ \in 1 .. MaxTotal - written : written' = written + n_ BY <1>2 DEF Writen
  <2>2. written' \in Nat /\ wbufp \in 0 .. written' BY <1>1, <2>1, IoAssumption
  <2>3. /\ UNCHANGED <<pipe, wbufp, wstate, ibuf, bufptr, cnt, call, usrbuf, base, result>> /\ wstate = "open"
    BY <1>2 DEF Writen, state
  <2> QED BY <2>2, <2>3 DEF InvIo, IoType, IoOrder, IoCalls, ReadsStream, Given, Held
<1>3. CASE WriteSome
  <2>1. PICK k \in 1 .. written - wbufp :
          /\ wstate = "open" /\ pipe' = pipe \o [i \in 1 .. k |-> wbufp + i] /\ wbufp' = wbufp + k
          /\ UNCHANGED <<written, wstate, ibuf, bufptr, cnt, call, usrbuf, base, result>>
    BY <1>3 DEF WriteSome, state
  <2>2. PICK new : new = [i \in 1 .. k |-> wbufp + i] OBVIOUS
  <2>3. k \in Nat /\ new \in Seq(Nat) /\ Len(new) = k /\ \A i \in 1 .. k : new[i] = wbufp + i
    <3>1. k \in Nat /\ \A i \in 1 .. k : wbufp + i \in Nat BY <1>1
    <3>2. new \in [1 .. k -> Nat] BY <2>2, <3>1
    <3>3. new \in Seq(Nat) BY <3>1, <3>2
    <3>4. Len(new) \in Nat /\ DOMAIN new = 1 .. Len(new) /\ DOMAIN new = 1 .. k
      BY <3>2, <3>3, LenProperties
    <3> QED BY <2>2, <3>1, <3>3, <3>4
  <2>4. /\ pipe' \in Seq(Nat) /\ Len(pipe') = Len(pipe) + k
        /\ \A i \in 1 .. Len(pipe) + k : pipe'[i] = IF i <= Len(pipe) THEN pipe[i] ELSE new[i - Len(pipe)]
    <3>1. pipe' = pipe \o new BY <2>1, <2>2
    <3> QED BY <1>1, <2>3, <3>1, ConcatProperties, Zenon
  <2>5. wbufp' \in 0 .. written BY <1>1, <2>1
  <2>6. /\ bufptr + Held <= BufSize
        /\ \A i \in 1 .. Held : ibuf[bufptr + i - 1] = Given + i
        /\ Len(pipe) = wbufp - Given - Held
        /\ \A i \in 1 .. Len(pipe) : pipe[i] = Given + Held + i
    BY DEF InvIo, IoOrder
  <2>7. Given' = Given /\ Held' = Held BY <2>1 DEF Given, Held
  <2>8. Len(pipe') = wbufp' - Given - Held BY <1>1, <2>1, <2>3, <2>4, <2>6
  <2>9. ASSUME NEW i \in 1 .. Len(pipe) + k PROVE pipe'[i] = Given + Held + i
    <3>1. CASE i <= Len(pipe)
      <4>1. i \in 1 .. Len(pipe) BY <1>1, <3>1
      <4> QED BY <2>4, <2>6, <3>1, <4>1
    <3>2. CASE i > Len(pipe)
      <4>1. i - Len(pipe) \in 1 .. k BY <1>1, <2>3, <3>2
      <4>2. new[i - Len(pipe)] = wbufp + (i - Len(pipe)) BY <2>3, <4>1
      <4> QED BY <1>1, <2>4, <2>6, <3>2, <4>2
    <3> QED BY <1>1, <2>3, <3>1, <3>2
  <2>10. IoOrder' BY <2>1, <2>4, <2>6, <2>7, <2>8, <2>9 DEF IoOrder
  <2>11. IoType' BY <2>1, <2>4, <2>5 DEF InvIo, IoType
  <2>12. IoCalls' /\ ReadsStream' BY <2>1 DEF InvIo, IoCalls, ReadsStream
  <2> QED BY <2>10, <2>11, <2>12 DEF InvIo
<1>4. CASE CloseEnd
  <2>1. /\ wstate = "open" /\ wstate' = IF wbufp < written THEN "failed" ELSE "closed"
        /\ UNCHANGED <<pipe, written, wbufp, ibuf, bufptr, cnt, call, usrbuf, base, result>>
    BY <1>4 DEF CloseEnd, state
  <2>2. wstate' = "closed" => wbufp = written BY <1>1, <2>1
  <2> QED BY <2>1, <2>2 DEF InvIo, IoType, IoOrder, IoCalls, ReadsStream, Given, Held
<1> QED BY <1>2, <1>3, <1>4

\* The unbuffered read (compsys_helpers.c:40-59).
LEMMA PlainKeeps == ASSUME InvIo, ReadPlain PROVE InvIo'
<1>1. /\ pipe \in Seq(Nat) /\ Len(pipe) \in Nat /\ Len(usrbuf) \in Nat /\ base \in Nat
      /\ Given \in Nat /\ wbufp \in Nat /\ cnt \in Int /\ call.n \in Nat
  <2>1. pipe \in Seq(Nat) /\ usrbuf \in Seq(Nat) /\ base \in Nat /\ cnt \in Int /\ wbufp \in Nat /\ call.n \in Nat
    BY DEF InvIo, IoType
  <2>2. Len(usrbuf) \in Nat /\ Len(pipe) \in Nat BY <2>1, LenProperties
  <2> QED BY <2>1, <2>2 DEF Given
<1>2. PICK k \in 1 .. Least(Wants, Len(pipe)) :
        /\ Active({"readn"}) /\ Give(SubSeq(pipe, 1, k))
        /\ pipe' = SubSeq(pipe, k + 1, Len(pipe)) /\ UNCHANGED <<ibuf, bufptr, cnt>>
  BY DEF ReadPlain, state
<1>3. result = Running /\ call.name = "readn" /\ cnt = 0 BY <1>2 DEF Active, InvIo, IoCalls
<1>4. Wants = call.n - Len(usrbuf) BY <1>3 DEF Wants
<1>5. k \in Nat /\ k > 0 /\ k <= Len(pipe) /\ Len(usrbuf) + k <= call.n
  <2>1. Wants \in Int BY <1>1, <1>4
  <2>2. /\ Least(Wants, Len(pipe)) \in Int /\ Least(Wants, Len(pipe)) <= Wants
        /\ Least(Wants, Len(pipe)) <= Len(pipe)
    BY <1>1, <2>1, LeastIs
  <2>3. PICK m : m = Least(Wants, Len(pipe)) OBVIOUS
  <2>4. PICK l : l = Len(usrbuf) OBVIOUS
  <2>5. m \in Int /\ m <= call.n - l /\ m <= Len(pipe) BY ONLY <1>4, <2>2, <2>3, <2>4
  <2>6. k \in 1 .. m BY <2>3
  <2>7. l \in Int /\ call.n \in Int /\ Len(pipe) \in Int BY <1>1, <2>4
  <2>8. k \in Nat /\ k > 0 /\ k <= Len(pipe) /\ l + k <= call.n BY ONLY <2>5, <2>6, <2>7
  <2> QED BY ONLY <2>4, <2>8
<1>6. PICK bytes : bytes = SubSeq(pipe, 1, k) OBVIOUS
<1>7. /\ bytes \in Seq(Nat) /\ Len(bytes) = k
      /\ \A i \in 1 .. k : bytes[i] = Given + i
      /\ pipe' \in Seq(Nat) /\ Len(pipe') = wbufp - Given - k
      /\ \A i \in 1 .. wbufp - Given - k : pipe'[i] = Given + k + i
  BY <1>2, <1>3, <1>5, <1>6, TakeFromPipe
<1>8. /\ usrbuf' \in Seq(Nat) /\ Given' = Given + k /\ result' \in Int
      /\ UNCHANGED <<written, wbufp, wstate, call, base>>
      /\ ReadsStream'
      /\ result' = Running => /\ Len(usrbuf') < call.n
                              /\ call.name = "readlineb" => \A i \in DOMAIN usrbuf' : usrbuf'[i] \notin Newlines
  BY <1>2, <1>3, <1>5, <1>6, <1>7, GiveKeeps
<1>9. Held' = 0 /\ Held = 0 BY <1>2, <1>3 DEF Held
<1>10. IoOrder'
  <2>1. Len(pipe') = wbufp' - Given' - Held' BY <1>1, <1>5, <1>7, <1>8, <1>9
  <2>2. \A i \in 1 .. Len(pipe') : pipe'[i] = Given' + Held' + i
    BY <1>1, <1>5, <1>7, <1>8, <1>9
  <2>3. bufptr + Held <= BufSize BY DEF InvIo, IoOrder
  <2>4. \A i \in 1 .. Held' : FALSE BY <1>9
  <2> QED BY <1>2, <1>9, <2>1, <2>2, <2>3, <2>4 DEF IoOrder
<1>11. IoType' BY <1>2, <1>7, <1>8 DEF InvIo, IoType
<1>12. IoCalls' BY <1>2, <1>3, <1>8 DEF InvIo, IoCalls
<1> QED BY <1>8, <1>10, <1>11, <1>12 DEF InvIo

\* The buffer is filled when it is empty (compsys_helpers.c:15-25).
LEMMA RefillKeeps == ASSUME InvIo, Refill PROVE InvIo'
<1>1. /\ pipe \in Seq(Nat) /\ Len(pipe) \in Nat /\ Len(usrbuf) \in Nat /\ base \in Nat
      /\ Given \in Nat /\ wbufp \in Nat /\ cnt \in Int /\ BufSize \in Nat
      /\ ibuf \in [0 .. BufSize - 1 -> Nat] /\ \A i \in 1 .. Len(pipe) : pipe[i] \in Nat
  <2>1. pipe \in Seq(Nat) /\ usrbuf \in Seq(Nat) /\ base \in Nat /\ cnt \in Int /\ wbufp \in Nat
        /\ ibuf \in [0 .. BufSize - 1 -> Nat]
    BY DEF InvIo, IoType
  <2>2. Len(usrbuf) \in Nat /\ Len(pipe) \in Nat BY <2>1, LenProperties
  <2> QED BY <2>1, <2>2, IoAssumption, ElementOfSeq DEF Given
<1>2. PICK k \in 1 .. Least(BufSize, Len(pipe)) :
        /\ Buffered /\ cnt <= 0
        /\ ibuf' = [i \in DOMAIN ibuf |-> IF i < k THEN pipe[i + 1] ELSE ibuf[i]]
        /\ bufptr' = 0 /\ cnt' = k
        /\ pipe' = SubSeq(pipe, k + 1, Len(pipe))
        /\ UNCHANGED <<written, wbufp, wstate, call, usrbuf, base, result>>
  BY DEF Refill, writer
<1>3. k \in Nat /\ k > 0 /\ k <= BufSize /\ k <= Len(pipe)
  <2>1. /\ Least(BufSize, Len(pipe)) \in Int /\ Least(BufSize, Len(pipe)) <= BufSize
        /\ Least(BufSize, Len(pipe)) <= Len(pipe)
    BY <1>1, LeastIs
  <2> QED BY <1>1, <2>1
<1>4. /\ \A i \in 1 .. k : pipe[i] = Given + i
      /\ pipe' \in Seq(Nat) /\ Len(pipe') = wbufp - Given - k
      /\ \A i \in 1 .. wbufp - Given - k : pipe'[i] = Given + k + i
  BY <1>2, <1>3, TakeFromPipe
<1>5. Given' = Given /\ Held' = k BY <1>2, <1>3 DEF Given, Held
<1>6. ibuf' \in [0 .. BufSize - 1 -> Nat] /\ \A i \in 1 .. k : ibuf'[i - 1] = pipe[i]
  <2>1. \A i \in 0 .. BufSize - 1 : i < k => i + 1 \in 1 .. Len(pipe) BY <1>1, <1>3
  <2>2. \A i \in 1 .. k : i - 1 \in 0 .. BufSize - 1 /\ i - 1 < k /\ (i - 1) + 1 = i BY <1>1, <1>3
  <2>3. DOMAIN ibuf = 0 .. BufSize - 1 BY <1>1
  <2>4. ibuf' \in [0 .. BufSize - 1 -> Nat] BY <1>1, <1>2, <2>1, <2>3
  <2>5. ASSUME NEW i \in 1 .. k PROVE ibuf'[i - 1] = pipe[i]
    BY <1>2, <2>2, <2>3
  <2> QED BY <2>4, <2>5
<1>7. IoOrder'
  <2>1. bufptr' + Held' <= BufSize BY <1>2, <1>3, <1>5
  <2>2. ASSUME NEW i \in 1 .. k PROVE ibuf'[bufptr' + i - 1] = Given' + i
    <3>1. bufptr' + i - 1 = i - 1 BY <1>2
    <3> QED BY <1>4, <1>5, <1>6, <3>1
  <2>3. /\ Len(pipe') = wbufp' - Given' - Held'
        /\ \A i \in 1 .. Len(pipe') : pipe'[i] = Given' + Held' + i
    BY <1>2, <1>4, <1>5
  <2> QED BY <1>5, <2>1, <2>2, <2>3 DEF IoOrder
<1>8. IoType'
  <2>1. pipe' \in Seq(Nat) /\ ibuf' \in [0 .. BufSize - 1 -> Nat] /\ bufptr' \in Nat /\ cnt' \in Int
    BY <1>2, <1>3, <1>4, <1>6
  <2>2. /\ usrbuf' = usrbuf /\ base' = base /\ written' = written /\ wbufp' = wbufp /\ wstate' = wstate
        /\ call' = call /\ result' = result
    BY <1>2
  <2> QED BY <2>1, <2>2 DEF InvIo, IoType
<1>9. IoCalls'
  <2>1. "readn" \notin call.may
    <3>1. result = Running /\ call.name \in {"readnb", "readlineb"} /\ call.name \in call.may
      BY <1>2 DEF Buffered, Active, InvIo, IoCalls
    <3> QED BY <3>1 DEF InvIo, IoCalls, Calls
  <2> QED BY <1>2, <2>1 DEF InvIo, IoCalls
<1>10. ReadsStream' BY <1>2 DEF InvIo, ReadsStream
<1> QED BY <1>7, <1>8, <1>9, <1>10 DEF InvIo

\* What is asked for is copied from the buffer, as far as it goes (compsys_helpers.c:27-34).
LEMMA CopyKeeps == ASSUME InvIo, Copy PROVE InvIo'
<1>1. /\ Len(usrbuf) \in Nat /\ base \in Nat /\ Given \in Nat /\ cnt \in Nat /\ cnt > 0 /\ Held = cnt
      /\ bufptr \in Nat /\ BufSize \in Nat /\ call.n \in Nat /\ ibuf \in [0 .. BufSize - 1 -> Nat]
      /\ bufptr + cnt <= BufSize
      /\ \A i \in 1 .. cnt : ibuf[bufptr + i - 1] = Given + i
      /\ result = Running /\ Len(usrbuf) < call.n /\ wbufp \in Nat
  <2>1. /\ usrbuf \in Seq(Nat) /\ base \in Nat /\ cnt \in Int /\ bufptr \in Nat /\ call.n \in Nat
        /\ ibuf \in [0 .. BufSize - 1 -> Nat] /\ wbufp \in Nat
    BY DEF InvIo, IoType
  <2>2. Len(usrbuf) \in Nat BY <2>1, LenProperties
  <2>3. cnt > 0 /\ result = Running BY DEF Copy, Buffered, Active
  <2>4. Held = cnt /\ cnt \in Nat BY <2>1, <2>3 DEF Held
  <2>5. /\ bufptr + cnt <= BufSize /\ \A i \in 1 .. cnt : ibuf[bufptr + i - 1] = Given + i
    BY <2>4 DEF InvIo, IoOrder
  <2> QED BY <2>1, <2>2, <2>3, <2>4, <2>5, IoAssumption DEF Given, InvIo, IoCalls
<1>2. PICK c : c = Least(Wants, cnt) OBVIOUS
<1>3. PICK bytes : bytes = [i \in 1 .. c |-> ibuf[bufptr + i - 1]] OBVIOUS
<1>4. /\ Give(bytes) /\ bufptr' = bufptr + c /\ cnt' = cnt - c /\ pipe' = pipe /\ ibuf' = ibuf
  BY <1>2, <1>3 DEF Copy
<1>5. Wants \in Int /\ Wants > 0 /\ Wants <= call.n - Len(usrbuf) /\ (call.name = "readlineb" => Wants = 1)
  <2>1. CASE call.name = "readlineb" BY <1>1, <2>1 DEF Wants
  <2>2. CASE call.name # "readlineb" BY <1>1, <2>2 DEF Wants
  <2> QED BY <2>1, <2>2
<1>6. c \in Nat /\ c > 0 /\ c <= cnt /\ Len(usrbuf) + c <= call.n /\ (call.name = "readlineb" => c = 1)
  <2>1. c \in Int /\ c <= Wants /\ c <= cnt /\ c \in {Wants, cnt} BY <1>1, <1>2, <1>5, LeastIs
  <2> HIDE DEF Wants
  <2> QED BY <1>1, <1>5, <2>1
<1>7. bytes \in Seq(Nat) /\ Len(bytes) = c /\ \A i \in 1 .. c : bytes[i] = Given + i
  <2>1. \A i \in 1 .. c : i \in 1 .. cnt /\ ibuf[bufptr + i - 1] = Given + i /\ Given + i \in Nat
    BY <1>1, <1>6
  <2>2. bytes \in [1 .. c -> Nat] /\ \A i \in 1 .. c : bytes[i] = Given + i BY <1>3, <2>1
  <2>3. bytes \in Seq(Nat) BY <1>6, <2>2
  <2>4. Len(bytes) \in Nat /\ DOMAIN bytes = 1 .. Len(bytes) /\ DOMAIN bytes = 1 .. c
    BY <2>2, <2>3, LenProperties
  <2> QED BY <1>6, <2>2, <2>3, <2>4
<1>8. /\ usrbuf' \in Seq(Nat) /\ Given' = Given + c /\ result' \in Int
      /\ UNCHANGED <<written, wbufp, wstate, call, base>>
      /\ ReadsStream'
      /\ result' = Running => /\ Len(usrbuf') < call.n
                              /\ call.name = "readlineb" => \A i \in DOMAIN usrbuf' : usrbuf'[i] \notin Newlines
  <2>1. Len(usrbuf) + Len(bytes) <= call.n /\ Len(bytes) > 0 /\ (call.name = "readlineb" => Len(bytes) = 1)
    BY <1>6, <1>7
  <2>2. \A i \in 1 .. Len(bytes) : bytes[i] = Given + i BY <1>7
  <2> QED BY <1>1, <1>4, <1>7, <2>1, <2>2, GiveKeeps
<1>9. Held' = cnt - c BY <1>1, <1>4, <1>6 DEF Held
<1>10. IoOrder'
  <2>1. bufptr' + Held' <= BufSize BY <1>1, <1>4, <1>6, <1>9
  <2>2. ASSUME NEW i \in 1 .. cnt - c PROVE ibuf'[bufptr' + i - 1] = Given' + i
    <3>1. c + i \in 1 .. cnt /\ bufptr + (c + i) - 1 = (bufptr + c) + i - 1 BY <1>1, <1>6
    <3>2. ibuf[bufptr + (c + i) - 1] = Given + (c + i) BY <1>1, <3>1
    <3>3. Given + (c + i) = (Given + c) + i BY <1>1, <1>6
    <3> QED BY <1>4, <1>8, <3>1, <3>2, <3>3
  <2>3. Len(pipe) = wbufp - Given - Held /\ \A i \in 1 .. Len(pipe) : pipe[i] = Given + Held + i
    BY DEF InvIo, IoOrder
  <2>4. Given' + Held' = Given + Held BY <1>1, <1>6, <1>8, <1>9
  <2>5. wbufp' - Given' - Held' = wbufp - Given - Held BY <1>1, <1>6, <1>8, <1>9
  <2> QED BY <1>4, <1>8, <1>9, <2>1, <2>2, <2>3, <2>4, <2>5 DEF IoOrder
<1>11. IoType' BY <1>1, <1>4, <1>6, <1>8 DEF InvIo, IoType
<1>12. IoCalls'
  <2>1. "readn" \notin call.may BY <1>1 DEF InvIo, IoCalls
  <2> QED BY <1>1, <1>8, <2>1 DEF InvIo, IoCalls
<1> QED BY <1>8, <1>10, <1>11, <1>12 DEF InvIo

\* A call begins; a read is interrupted, meets the end of the connection or fails
\* (compsys_helpers.c:15-22).
LEMMA CallKeeps == ASSUME InvIo, ReadCall \/ Interrupted \/ ReadEnds PROVE InvIo'
<1>1. /\ Len(usrbuf) \in Nat /\ base \in Nat /\ Given \in Nat /\ cnt \in Int /\ wbufp \in Nat /\ written \in Nat
      /\ call \in [may : SUBSET UNION Calls, name : {"none"} \cup UNION Calls, n : Nat]
  <2>1. /\ usrbuf \in Seq(Nat) /\ base \in Nat /\ cnt \in Int /\ wbufp \in 0 .. written /\ written \in Nat
        /\ call \in [may : SUBSET UNION Calls, name : {"none"} \cup UNION Calls, n : Nat]
    BY DEF InvIo, IoType
  <2>2. Len(usrbuf) \in Nat BY <2>1, LenProperties
  <2> QED BY <2>1, <2>2 DEF Given
<1>2. CASE ReadCall
  <2>1. PICK may \in Calls : \E name \in call.may, n_ \in 0 .. MaxAsk :
          /\ name \in may /\ call' = [may |-> may, name |-> name, n |-> n_]
          /\ base' = base + Len(usrbuf) /\ usrbuf' = <<>> /\ result' = IF n_ = 0 THEN 0 ELSE Running
          /\ UNCHANGED <<pipe, written, wbufp, wstate, ibuf, bufptr, cnt>>
    BY <1>2 DEF ReadCall, writer, state
  <2>2. PICK name \in call.may, n_ \in 0 .. MaxAsk :
          /\ name \in may /\ call' = [may |-> may, name |-> name, n |-> n_]
          /\ base' = base + Len(usrbuf) /\ usrbuf' = <<>> /\ result' = IF n_ = 0 THEN 0 ELSE Running
          /\ UNCHANGED <<pipe, written, wbufp, wstate, ibuf, bufptr, cnt>>
    BY <2>1
  <2>3. n_ \in Nat /\ may \subseteq UNION Calls /\ name \in UNION Calls BY <2>2, IoAssumption
  <2>4. usrbuf' \in Seq(Nat) /\ Len(usrbuf') = 0 /\ DOMAIN usrbuf' = {} BY <2>2
  <2>5. Given' = Given /\ Held' = Held BY <1>1, <2>2, <2>4 DEF Given, Held
  <2>6. IoType'
    <3>1. call' \in [may : SUBSET UNION Calls, name : {"none"} \cup UNION Calls, n : Nat]
      BY <2>2, <2>3
    <3> QED BY <1>1, <2>2, <2>4, <3>1 DEF InvIo, IoType, Running
  <2>7. IoOrder' BY <2>2, <2>5 DEF InvIo, IoOrder
  <2>8. "readn" \in may => cnt = 0
    <3>1. ASSUME "readn" \in may PROVE name = "readn" BY <2>2, <3>1 DEF Calls
    <3> QED BY <2>2, <3>1 DEF InvIo, IoCalls
  <2>9. IoCalls' BY <2>2, <2>3, <2>4, <2>8 DEF InvIo, IoCalls, Running
  <2>10. ReadsStream' BY <2>2, <2>3, <2>4 DEF ReadsStream, Running
  <2> QED BY <2>6, <2>7, <2>9, <2>10 DEF InvIo
<1>3. CASE Interrupted
  <2>1. /\ result = Running /\ call.name \in {"readnb", "readlineb"} /\ cnt <= 0 /\ cnt' = -1
        /\ UNCHANGED <<pipe, written, wbufp, wstate, ibuf, bufptr, call, usrbuf, base, result>>
    BY <1>3 DEF Interrupted, Buffered, Active, writer
  <2>2. Held' = Held /\ Given' = Given BY <1>1, <2>1 DEF Held, Given
  <2>3. "readn" \notin call.may BY <2>1 DEF InvIo, IoCalls, Calls
  <2> QED BY <2>1, <2>2, <2>3 DEF InvIo, IoType, IoOrder, IoCalls, ReadsStream
<1>4. CASE ReadEnds
  <2>1. /\ result = Running /\ Held = 0 /\ cnt' \in {0, -1, cnt} /\ (cnt' = cnt \/ Buffered)
        /\ UNCHANGED <<pipe, written, wbufp, wstate, ibuf, bufptr, call, usrbuf, base>>
    <3>1. /\ Active({"readn"}) \/ (Buffered /\ cnt <= 0)
          /\ cnt' = cnt \/ (Buffered /\ cnt' \in {0, -1})
          /\ UNCHANGED <<pipe, written, wbufp, wstate, ibuf, bufptr, call, usrbuf, base>>
      BY <1>4 DEF ReadEnds, writer
    <3>2. Active({"readn"}) => cnt = 0 BY DEF Active, InvIo, IoCalls
    <3> QED BY <1>1, <3>1, <3>2 DEF Active, Buffered, Held
  <2>2. Held' = 0 /\ Given' = Given
    <3>1. cnt <= 0 BY <1>1, <2>1 DEF Held
    <3> QED BY <1>1, <2>1, <3>1 DEF Held, Given
  <2>3. "readn" \in call.may => cnt' = cnt
    <3>1. Buffered => "readn" \notin call.may BY DEF Buffered, Active, InvIo, IoCalls, Calls
    <3> QED BY <2>1, <3>1
  <2>4. result' # Running /\ result' \in Int /\ ReadsStream'
    <3>1. CASE pipe = <<>> /\ wstate # "open" /\ result' = Len(usrbuf)
      <4>1. wbufp = Given
        <5>1. Len(pipe) = 0 BY <3>1
        <5>2. Len(pipe) = wbufp - Given - Held BY DEF InvIo, IoOrder
        <5> QED BY <1>1, <2>1, <5>1, <5>2
      <4>2. wstate \in {"closed", "failed"} /\ (wstate = "closed" => wbufp = written)
        BY <3>1 DEF InvIo, IoType, IoCalls
      <4>3. base + result' = wbufp BY <3>1, <4>1 DEF Given
      <4>4. /\ \A i \in DOMAIN usrbuf : usrbuf[i] = base + i
            /\ \A i \in 1 .. Len(usrbuf) - 1 : call.name = "readlineb" => usrbuf[i] \notin Newlines
        BY DEF InvIo, ReadsStream
      <4> QED BY <1>1, <2>1, <3>1, <4>2, <4>3, <4>4 DEF ReadsStream, Running
    <3>2. CASE result' = -1 BY <2>1, <3>2 DEF InvIo, ReadsStream, Running
    <3> QED BY <1>4, <3>1, <3>2 DEF ReadEnds
  <2>5. IoCalls' BY <2>1, <2>3, <2>4 DEF InvIo, IoCalls
  <2>6. IoOrder' BY <2>1, <2>2 DEF InvIo, IoOrder
  <2>7. IoType' BY <1>1, <2>1, <2>4 DEF InvIo, IoType
  <2> QED BY <2>4, <2>5, <2>6, <2>7 DEF InvIo
<1> QED BY <1>2, <1>3, <1>4

\* However reads and writes cut what is sent, the calls are given every byte once and in order,
\* and too few only at the end of a line or of what was sent (compsys_helpers.h:25); for buffers,
\* requests and connections of any size.
THEOREM StreamRead == ISpec => []ReadsStream
<1>1. IInit => InvIo
  <2> SUFFICES ASSUME IInit PROVE InvIo OBVIOUS
  <2>1. Held = 0 /\ Given = 0 BY DEF IInit, Held, Given
  <2>2. IoType BY IoAssumption DEF IInit, IoType, Calls
  <2>3. IoOrder BY <2>1, IoAssumption DEF IInit, IoOrder
  <2>4. IoCalls /\ ReadsStream BY DEF IInit, IoCalls, ReadsStream, Running
  <2> QED BY <2>2, <2>3, <2>4 DEF InvIo
<1>2. InvIo /\ [INext]_ivars => InvIo'
  <2> SUFFICES ASSUME InvIo, [INext]_ivars PROVE InvIo' OBVIOUS
  <2>1. CASE Writen \/ WriteSome \/ CloseEnd BY <2>1, WriteKeeps
  <2>2. CASE ReadPlain BY <2>2, PlainKeeps
  <2>3. CASE Refill BY <2>3, RefillKeeps
  <2>4. CASE Copy BY <2>4, CopyKeeps
  <2>5. CASE ReadCall \/ Interrupted \/ ReadEnds BY <2>5, CallKeeps
  <2>6. CASE UNCHANGED ivars
    BY <2>6 DEF ivars, writer, state, InvIo, IoType, IoOrder, IoCalls, ReadsStream, Given, Held
  <2> QED BY <2>1, <2>2, <2>3, <2>4, <2>5, <2>6 DEF INext
<1>3. InvIo => ReadsStream BY DEF InvIo
<1> QED BY <1>1, <1>2, <1>3, PTL DEF ISpec

-----------------------------------------------------------------------------
(* A1, the searches by coordinates.                                        *)

Parts == [first : Nat, len : Nat, depth : Nat]
Inside(p) == p.first >= 1 /\ p.first + p.len <= Len(ps) + 1

CoordType == /\ at \in {"load", "flat", "naive", "build", "tree", "kdtree"}
             /\ ps \in Seq(Points) /\ parts \in Seq(Parts) /\ nodes \subseteq Parts /\ part \in Parts
             /\ coord \in Int \X Int /\ closest \in Int \X Int /\ seen \subseteq Int \X Int

\* The scan has compared the records up to the part that is left; the walk stays in the array.
CoordLookup ==
  /\ at \in {"load", "build"} => seen = {}
  /\ \A s \in seen : Distance(closest, coord) <= Distance(s, coord)
  /\ at = "naive" => /\ ps = <<>> => part.len = 0
                     /\ ps # <<>> => /\ part.first >= 1 /\ part.first + part.len = Len(ps) + 1
                                     /\ \A i \in 1 .. part.first - 1 : ps[i] \in seen
  /\ at = "flat" /\ seen # {} => \A i \in DOMAIN ps : ps[i] \in seen
  /\ at = "kdtree" => Inside(part)

\* A part q that is still to be sorted is on one side of node p, or below none of its sides.
Apart(p, q) == \/ In(q) \subseteq In(Left(p))
               \/ In(q) \subseteq In(Right(p))
               \/ In(q) \cap In(p) = {}

\* The parts that are left are apart from each other and from the nodes that are made, and what is
\* in none of them is the middle of one node.
TreeShape ==
  /\ \A k \in DOMAIN parts : Inside(parts[k])
  /\ \A p \in nodes : Inside(p) /\ p.len > 0
  /\ \A j, k \in DOMAIN parts : j # k => In(parts[j]) \cap In(parts[k]) = {}
  /\ \A p \in nodes, k \in DOMAIN parts : Apart(p, parts[k])
  /\ \A p \in nodes : \A q \in {Left(p), Right(p)} : q.len > 0 => q \in nodes \/ \E k \in DOMAIN parts : parts[k] = q
  /\ \A i \in DOMAIN ps : (\E k \in DOMAIN parts : i \in In(parts[k])) \/ \E p \in nodes : Middle(p) = i
  /\ \A p, q \in nodes : Middle(p) = Middle(q) => p = q

\* A node whose part the comparison orders separates its sides.
OrderedSides == \A p \in nodes : IsOrderOn(p) => Separates(p)

CoordTree == /\ at = "load" => nodes = {}
             /\ at \in {"tree", "kdtree"} => parts = <<>>
             /\ at \in {"build", "tree", "kdtree"} =>
                  TreeShape /\ OrderedSides

InvCoord == CoordType /\ CoordLookup /\ CoordTree

\* Distances are compared as squares, which are natural numbers.
LEMMA SquareNat == ASSUME NEW d \in Int PROVE Square(d) \in Nat
<1>1. CASE d >= 0 BY <1>1 DEF Square
<1>2. CASE d < 0 BY <1>2 DEF Square
<1> QED BY <1>1, <1>2

\* Nothing is nearer to a point than the point itself.
LEMMA DistanceNat ==
  ASSUME NEW a \in Int \X Int, NEW b \in Int \X Int
  PROVE  Distance(a, b) \in Nat /\ Distance(a, a) = 0
<1>1. a[1] - b[1] \in Int /\ a[2] - b[2] \in Int /\ a[1] - a[1] = 0 /\ a[2] - a[2] = 0 OBVIOUS
<1>2. Square(a[1] - b[1]) \in Nat /\ Square(a[2] - b[2]) \in Nat BY <1>1, SquareNat
<1>3. Square(a[1] - a[1]) = 0 /\ Square(a[2] - a[2]) = 0 BY <1>1 DEF Square
<1> HIDE DEF Square
<1> QED BY <1>2, <1>3 DEF Distance

\* What is below and above one of the numbers of an interval.
LEMMA Halves ==
  ASSUME NEW a \in Int, NEW k \in Int, NEW h \in Int, 0 <= h, h < k
  PROVE  /\ a .. a + h - 1 = {i \in a .. a + k - 1 : i < a + h}
         /\ a + h + 1 .. a + h + 1 + (k - h - 1) - 1 = {i \in a .. a + k - 1 : i > a + h}
<1>1. ASSUME NEW i \in Int
      PROVE  /\ a <= i /\ i <= a + h - 1 <=> (a <= i /\ i <= a + k - 1) /\ i < a + h
             /\ a + h + 1 <= i /\ i <= a + h + 1 + (k - h - 1) - 1 <=> (a <= i /\ i <= a + k - 1) /\ i > a + h
  OBVIOUS
<1>2. ASSUME NEW i PROVE i \in a .. a + h - 1 <=> i \in a .. a + k - 1 /\ i < a + h
  <2>1. CASE i \in Int BY <1>1, <2>1
  <2>2. CASE i \notin Int BY <2>2
  <2> QED BY <2>1, <2>2
<1>3. ASSUME NEW i
      PROVE  i \in a + h + 1 .. a + h + 1 + (k - h - 1) - 1 <=> i \in a .. a + k - 1 /\ i > a + h
  <2>1. CASE i \in Int BY <1>1, <2>1
  <2>2. CASE i \notin Int BY <2>2
  <2> QED BY <2>1, <2>2
<1> QED BY ONLY <1>2, <1>3

\* The two sides of a part and its middle between them (coord_query_kdtree.c:48-51).
LEMMA PartFacts ==
  ASSUME NEW p \in Parts, p.len > 0
  PROVE  /\ Left(p) \in Parts /\ Right(p) \in Parts /\ Middle(p) \in Nat /\ Middle(p) \in In(p)
         /\ In(Left(p)) = {i \in In(p) : i < Middle(p)}
         /\ In(Right(p)) = {i \in In(p) : i > Middle(p)}
         /\ Axis(p) \in 1 .. 2
<1>1. PICK h : h = p.len \div 2 OBVIOUS
<1>2. p.first \in Nat /\ p.len \in Nat /\ p.depth \in Nat /\ h \in Nat /\ h < p.len
  <2>1. p.first \in Nat /\ p.len \in Nat /\ p.depth \in Nat BY DEF Parts
  <2>2. \A len \in Nat : len > 0 => len \div 2 \in Nat /\ len \div 2 < len OBVIOUS
  <2> QED BY <1>1, <2>1, <2>2
<1>3. Middle(p) = p.first + h BY <1>1 DEF Middle
<1>4. Left(p) = [first |-> p.first, len |-> h, depth |-> p.depth + 1] BY <1>1 DEF Left, Part
<1>5. Right(p) = [first |-> p.first + h + 1, len |-> p.len - h - 1, depth |-> p.depth + 1]
  BY <1>1, <1>3 DEF Right, Part
<1>6. Left(p) \in Parts /\ Right(p) \in Parts BY <1>2, <1>4, <1>5 DEF Parts
<1>7. In(p) = p.first .. p.first + p.len - 1 BY DEF In
<1>8. In(Left(p)) = p.first .. p.first + h - 1 BY <1>4 DEF In
<1>9. In(Right(p)) = p.first + h + 1 .. p.first + h + 1 + (p.len - h - 1) - 1 BY <1>5 DEF In
<1>10. Middle(p) \in In(p) BY <1>2, <1>3, <1>7
<1>11. p.first \in Int /\ p.len \in Int /\ h \in Int /\ 0 <= h BY <1>2
<1>12. /\ p.first .. p.first + h - 1 = {i \in p.first .. p.first + p.len - 1 : i < p.first + h}
       /\ p.first + h + 1 .. p.first + h + 1 + (p.len - h - 1) - 1
            = {i \in p.first .. p.first + p.len - 1 : i > p.first + h}
  BY <1>2, <1>11, Halves
<1>14. In(Left(p)) = {i \in In(p) : i < Middle(p)} BY ONLY <1>3, <1>7, <1>8, <1>12
<1>15. In(Right(p)) = {i \in In(p) : i > Middle(p)} BY ONLY <1>3, <1>7, <1>9, <1>12
<1>13. Axis(p) \in 1 .. 2 BY <1>2 DEF Axis
<1> QED BY <1>2, <1>3, <1>6, <1>10, <1>14, <1>15, <1>13

\* The parts of a part of the array are in the array, and so is its root.
LEMMA InsideFacts ==
  ASSUME CoordType, NEW p \in Parts, p.len > 0, Inside(p)
  PROVE  /\ Inside(Left(p)) /\ Inside(Right(p))
         /\ In(p) \subseteq DOMAIN ps /\ Middle(p) \in DOMAIN ps
<1>1. DOMAIN ps = 1 .. Len(ps) /\ Len(ps) \in Nat BY LenProperties DEF CoordType
<1>2. PICK h : h = p.len \div 2 OBVIOUS
<1>3. p.first \in Nat /\ p.len \in Nat /\ h \in Nat /\ h < p.len
  <2>1. p.first \in Nat /\ p.len \in Nat BY DEF Parts
  <2>2. \A len \in Nat : len > 0 => len \div 2 \in Nat /\ len \div 2 < len OBVIOUS
  <2> QED BY <1>2, <2>1, <2>2
<1>4. Left(p).first = p.first /\ Left(p).len = h BY <1>2 DEF Left, Part
<1>5. Right(p).first = p.first + h + 1 /\ Right(p).len = p.len - h - 1 BY <1>2 DEF Right, Middle, Part
<1>6. p.first >= 1 /\ p.first + p.len <= Len(ps) + 1 BY DEF Inside
<1>7. Inside(Left(p)) /\ Inside(Right(p))
  <2>1. \A f, l, k, m \in Int : f >= 1 /\ f + l <= m + 1 /\ 0 <= k /\ k < l =>
          f + k <= m + 1 /\ f + k + 1 >= 1 /\ f + k + 1 + (l - k - 1) <= m + 1
    OBVIOUS
  <2>2. p.first \in Int /\ p.len \in Int /\ h \in Int /\ 0 <= h /\ Len(ps) \in Int BY <1>1, <1>3
  <2>3. p.first + h <= Len(ps) + 1 /\ p.first + h + 1 >= 1 /\ p.first + h + 1 + (p.len - h - 1) <= Len(ps) + 1
    BY ONLY <1>3, <1>6, <2>1, <2>2
  <2> QED BY <1>4, <1>5, <1>6, <2>3 DEF Inside
<1>8. In(p) \subseteq DOMAIN ps BY <1>1, <1>3, <1>6 DEF In
<1> QED BY <1>7, <1>8, PartFacts

\* The steps that do not touch the tree leave it as it is.
LEMMA TreeStays ==
  ASSUME CoordTree, UNCHANGED <<ps, parts, nodes>>, at' # "load", at' # "build",
         at' \in {"tree", "kdtree"} => at \in {"tree", "kdtree"}
  PROVE  CoordTree'
<1>1. TreeShape' = TreeShape
  BY DEF TreeShape, Inside, Apart
<1>2. OrderedSides' = OrderedSides
  BY DEF OrderedSides, IsOrderOn, Separates
<1> QED BY <1>1, <1>2 DEF CoordTree

\* Every record has two coordinates.
LEMMA RecordsArePoints == CoordType => \A i \in DOMAIN ps : ps[i] \in Int \X Int
BY PointsAssumption, LenProperties, ElementOfSeq DEF CoordType

\* The scan and the beginning and end of a lookup (coord_query_naive.c:29-40).
LEMMA ScanKeepsNearest == ASSUME InvCoord, ScanNext PROVE InvCoord'
<1>1. CoordType /\ CoordLookup /\ CoordTree BY DEF InvCoord
<1>2. /\ at = "naive" /\ UNCHANGED <<ps, parts, nodes, coord>>
      /\ \A i \in DOMAIN ps : ps[i] \in Int \X Int
      /\ DOMAIN ps = 1 .. Len(ps) /\ Len(ps) \in Nat
      /\ part.first \in Nat /\ part.len \in Nat
  BY <1>1, RecordsArePoints, LenProperties DEF ScanNext, CoordType, Parts
<1>3. CASE part.len = 0
  <2>1. at' = "flat" /\ UNCHANGED <<part, closest, seen>> BY <1>3 DEF ScanNext
  <2>2. \A i \in DOMAIN ps : ps[i] \in seen
    <3>1. CASE ps = <<>> BY <3>1
    <3>2. CASE ps # <<>>
      <4>1. part.first - 1 = Len(ps) BY <1>1, <1>2, <1>3, <3>2 DEF CoordLookup
      <4> QED BY <1>1, <1>2, <3>2, <4>1 DEF CoordLookup
    <3> QED BY <3>1, <3>2
  <2>3. CoordType' BY <1>1, <1>2, <2>1 DEF CoordType
  <2>4. CoordLookup' BY <1>1, <1>2, <2>1, <2>2 DEF CoordLookup
  <2>5. CoordTree' BY <1>1, <1>2, <2>1, TreeStays
  <2> QED BY <2>3, <2>4, <2>5 DEF InvCoord
<1>4. CASE part.len # 0
  <2> DEFINE r == ps[part.first]
  <2>1. /\ at' = "naive" /\ seen' = seen \cup {r}
        /\ closest' = IF Distance(r, coord) < Distance(closest, coord) THEN r ELSE closest
        /\ part' = Part(part.first + 1, part.len - 1, 0)
    BY <1>2, <1>4 DEF ScanNext
  <2>2. ps # <<>> /\ part.first + part.len = Len(ps) + 1 /\ \A i \in 1 .. part.first - 1 : ps[i] \in seen
    BY <1>1, <1>2, <1>4 DEF CoordLookup
  <2>3. part.first \in DOMAIN ps \/ part.first = 0
    BY <1>2, <1>4, <2>2
  <2>4. part.first >= 1 BY <1>1, <1>2, <2>2 DEF CoordLookup
  <2>5. r \in Int \X Int BY <1>2, <2>3, <2>4
  <2>6. part'.first = part.first + 1 /\ part'.len = part.len - 1 /\ part' \in Parts
    BY <1>2, <1>4, <2>1 DEF Part, Parts
  <2>7. CoordType' BY <1>1, <1>2, <2>1, <2>5, <2>6 DEF CoordType
  <2>8. \A s \in seen' : Distance(closest', coord) <= Distance(s, coord)
    <3> SUFFICES ASSUME NEW s \in seen' PROVE Distance(closest', coord) <= Distance(s, coord) OBVIOUS
    <3>1. /\ coord \in Int \X Int /\ closest \in Int \X Int /\ s \in Int \X Int
          /\ s \in seen => Distance(closest, coord) <= Distance(s, coord)
      BY <1>1, <2>1, <2>5 DEF CoordType, CoordLookup
    <3>2. Distance(closest, coord) \in Nat /\ Distance(r, coord) \in Nat /\ Distance(s, coord) \in Nat
      BY <2>5, <3>1, DistanceNat
    <3> HIDE DEF r
    <3> QED BY <2>1, <3>1, <3>2
  <2>9. \A i \in 1 .. part'.first - 1 : ps[i] \in seen'
    <3>1. \A i \in 1 .. part'.first - 1 : i \in 1 .. part.first - 1 \/ i = part.first BY <1>2, <2>6
    <3> QED BY <2>1, <2>2, <3>1
  <2>10. part'.first + part'.len = Len(ps) + 1 BY <1>2, <2>2, <2>6
  <2>11. CoordLookup'
    <3>1. at' = "naive" /\ coord' = coord /\ ps' = ps BY <1>2, <2>1
    <3>2. part'.first >= 1 BY <1>2, <2>6
    <3> HIDE DEF r
    <3> QED BY <2>2, <2>8, <2>9, <2>10, <3>1, <3>2, Zenon DEF CoordLookup
  <2>12. CoordTree' BY <1>1, <1>2, <2>1, TreeStays
  <2> QED BY <2>7, <2>11, <2>12 DEF InvCoord
<1> QED BY <1>3, <1>4

\* A coordinate is typed, and a lookup begins (coord_query.c:31-41).
LEMMA QueryKeepsNearest == ASSUME InvCoord, Query PROVE InvCoord'
<1>1. CoordType /\ CoordLookup /\ CoordTree BY DEF InvCoord
<1>2. PICK q \in Points :
        /\ coord' = q
        /\ \/ /\ at = "flat" /\ at' = "naive"
              /\ closest' \in IF ps = <<>> THEN Points ELSE {ps[1]}
              /\ seen' = {closest'}
              /\ part' = Part(2, IF ps = <<>> THEN 0 ELSE Len(ps) - 1, 0)
           \/ /\ at = "tree" /\ at' = "kdtree"
              /\ closest' \in Points /\ seen' = {closest'} /\ part' = Part(1, Len(ps), 0)
        /\ UNCHANGED <<ps, parts, nodes>>
  BY DEF Query
<1>3. /\ \A i \in DOMAIN ps : ps[i] \in Int \X Int
      /\ DOMAIN ps = 1 .. Len(ps) /\ Len(ps) \in Nat
      /\ ps # <<>> => Len(ps) > 0
  BY <1>1, RecordsArePoints, LenProperties, EmptySeq DEF CoordType
<1>4. coord' \in Int \X Int /\ closest' \in Int \X Int /\ seen' = {closest'}
  <2>1. ps # <<>> => ps[1] \in Int \X Int BY <1>3
  <2> QED BY <1>2, <2>1, PointsAssumption
<1>5. CASE at = "flat"
  <2>1. /\ at' = "naive" /\ closest' \in IF ps = <<>> THEN Points ELSE {ps[1]}
        /\ part' = Part(2, IF ps = <<>> THEN 0 ELSE Len(ps) - 1, 0)
    BY <1>2, <1>5
  <2>2. part' \in Parts /\ part'.first = 2 /\ part'.len = IF ps = <<>> THEN 0 ELSE Len(ps) - 1
    BY <1>3, <2>1 DEF Part, Parts
  <2>3. CoordType' BY <1>1, <1>2, <1>4, <2>1, <2>2 DEF CoordType
  <2>4. ps # <<>> => /\ part'.first + part'.len = Len(ps) + 1 /\ part'.first >= 1
                     /\ \A i \in 1 .. part'.first - 1 : ps[i] \in seen'
    <3> SUFFICES ASSUME ps # <<>>
                 PROVE /\ part'.first + part'.len = Len(ps) + 1 /\ part'.first >= 1
                       /\ \A i \in 1 .. part'.first - 1 : ps[i] \in seen'
      OBVIOUS
    <3>1. \A i \in 1 .. part'.first - 1 : i = 1 BY <2>2
    <3>2. ps[1] \in seen' BY <1>4, <2>1
    <3> QED BY <1>3, <2>2, <3>1, <3>2
  <2>5. \A s \in seen' : Distance(closest', coord') <= Distance(s, coord') BY <1>4, DistanceNat
  <2>6. CoordLookup' BY <1>2, <2>1, <2>2, <2>4, <2>5 DEF CoordLookup
  <2>7. CoordTree' BY <1>1, <1>2, <2>1, TreeStays
  <2> QED BY <2>3, <2>6, <2>7 DEF InvCoord
<1>6. CASE at = "tree"
  <2>1. at' = "kdtree" /\ part' = Part(1, Len(ps), 0) BY <1>2, <1>6
  <2>2. part' \in Parts /\ part'.first = 1 /\ part'.len = Len(ps) BY <1>3, <2>1 DEF Part, Parts
  <2>3. CoordType' BY <1>1, <1>2, <1>4, <2>1, <2>2 DEF CoordType
  <2>4. Inside(part)' BY <1>2, <1>3, <2>2 DEF Inside
  <2>5. \A s \in seen' : Distance(closest', coord') <= Distance(s, coord') BY <1>4, DistanceNat
  <2>6. CoordLookup' BY <2>1, <2>4, <2>5 DEF CoordLookup
  <2>7. CoordTree' BY <1>1, <1>2, <1>6, <2>1, TreeStays
  <2> QED BY <2>3, <2>6, <2>7 DEF InvCoord
<1> QED BY <1>2, <1>5, <1>6

\* One node of the walk (coord_query_kdtree.c:76-105).
LEMMA WalkKeepsNearest == ASSUME InvCoord, Walk PROVE InvCoord'
<1>1. CoordType /\ CoordLookup /\ CoordTree BY DEF InvCoord
<1> DEFINE point == ps[Middle(part)]
           radius == Distance(point, coord)
<1>2. /\ at = "kdtree" /\ at' = "kdtree" /\ part.len > 0 /\ UNCHANGED <<ps, parts, nodes, coord>>
      /\ seen' = seen \cup {point}
      /\ closest' = IF radius < Distance(closest, coord) \/ point = coord THEN point ELSE closest
      /\ part' \in {Part(1, 0, 0), Left(part), Right(part)}
  BY DEF Walk
<1>3. part \in Parts /\ Inside(part) BY <1>1, <1>2 DEF CoordType, CoordLookup
<1>4. point \in Int \X Int BY <1>1, <1>2, <1>3, InsideFacts, RecordsArePoints
<1>5. part' \in Parts /\ Inside(part)'
  <2>1. Left(part) \in Parts /\ Right(part) \in Parts /\ Inside(Left(part)) /\ Inside(Right(part))
    BY <1>1, <1>2, <1>3, PartFacts, InsideFacts
  <2>2. Part(1, 0, 0) \in Parts /\ Inside(Part(1, 0, 0))
    <3>1. Len(ps) \in Nat BY <1>1, LenProperties DEF CoordType
    <3> QED BY <3>1 DEF Part, Parts, Inside
  <2>3. \A p \in Parts : Inside(p) => p.first >= 1 /\ p.first + p.len <= Len(ps) + 1 BY DEF Inside
  <2>4. part' \in Parts /\ Inside(part') BY <1>2, <2>1, <2>2, Zenon
  <2> QED BY <1>2, <2>3, <2>4 DEF Inside
<1>6. \A s \in seen' : Distance(closest', coord) <= Distance(s, coord)
  <2> SUFFICES ASSUME NEW s \in seen' PROVE Distance(closest', coord) <= Distance(s, coord) OBVIOUS
  <2>1. /\ coord \in Int \X Int /\ closest \in Int \X Int /\ s \in Int \X Int
        /\ s \in seen => Distance(closest, coord) <= Distance(s, coord)
    BY <1>1, <1>2, <1>4 DEF CoordType, CoordLookup
  <2>2. Distance(closest, coord) \in Nat /\ radius \in Nat /\ Distance(s, coord) \in Nat
    BY <1>4, <2>1, DistanceNat
  <2>3. point = coord => radius = 0 BY <2>1, DistanceNat
  <2> HIDE DEF point
  <2> QED BY <1>2, <2>1, <2>2, <2>3
<1>7. CoordType'
  <2> HIDE DEF point
  <2> QED BY <1>1, <1>2, <1>4, <1>5 DEF CoordType
<1>8. CoordLookup' BY <1>2, <1>5, <1>6, Zenon DEF CoordLookup
<1>9. CoordTree' BY <1>1, <1>2, TreeStays
<1> QED BY <1>7, <1>8, <1>9 DEF InvCoord

\* The records are read, the tree is made, or the walk ends.
LEMMA OthersKeepNearest == ASSUME InvCoord, Load \/ Built \/ WalkEnds PROVE InvCoord'
<1>1. CoordType /\ CoordLookup /\ CoordTree BY DEF InvCoord
<1>2. CASE Load
  <2>1. PICK len \in 0 .. MaxPoints : ps' \in [1 .. len -> Points] BY <1>2 DEF Load
  <2>2. ps' \in Seq(Points) /\ Len(ps') = len /\ DOMAIN ps' = 1 .. len /\ len \in Nat
    BY <2>1, UnitAssumption
  <2>3. /\ at = "load" /\ UNCHANGED <<nodes, part, coord, closest, seen>> /\ nodes = {} /\ seen = {}
        /\ \/ at' = "build" /\ parts' = <<Part(1, Len(ps'), 0)>>
           \/ at' = "flat" /\ parts' = parts
    BY <1>1, <1>2 DEF Load, CoordTree, CoordLookup
  <2>4. CoordLookup' BY <2>3 DEF CoordLookup
  <2>5. CASE at' = "flat"
    <3>1. CoordType' BY <1>1, <2>2, <2>3, <2>5 DEF CoordType
    <3>2. CoordTree' BY <2>5 DEF CoordTree
    <3> QED BY <2>4, <3>1, <3>2 DEF InvCoord
  <2>6. CASE at' = "build" /\ parts' = <<Part(1, Len(ps'), 0)>>
    <3> DEFINE all == Part(1, len, 0)
    <3>1. all \in Parts /\ all.first = 1 /\ all.len = len BY <2>2 DEF Part, Parts
    <3>2. parts' = <<all>> BY <2>2, <2>6
    <3> HIDE DEF all
    <3>3. parts' \in Seq(Parts) /\ DOMAIN parts' = {1} /\ parts'[1] = all BY <3>1, <3>2
    <3>4. CoordType' BY <1>1, <2>2, <2>3, <2>6, <3>3 DEF CoordType
    <3>5. In(all) = 1 .. len BY <2>2, <3>1 DEF In
    <3>6. \A k \in DOMAIN parts' : Inside(parts[k])' BY <2>2, <3>1, <3>3 DEF Inside
    <3>7. \A i \in DOMAIN ps' : \E k \in DOMAIN parts' : i \in In(parts'[k]) BY <2>2, <3>3, <3>5
    <3>8. TreeShape' BY <2>3, <3>3, <3>6, <3>7 DEF TreeShape
    <3>9. CoordTree' BY <2>3, <2>6, <3>8 DEF CoordTree, OrderedSides
    <3> QED BY <2>4, <3>4, <3>9 DEF InvCoord
  <2> QED BY <2>3, <2>5, <2>6
<1>3. CASE Built
  <2>1. at = "build" /\ parts = <<>> /\ at' = "tree" /\ UNCHANGED <<ps, parts, nodes, part, coord, closest, seen>>
    BY <1>3 DEF Built
  <2>2. CoordType' BY <1>1, <2>1 DEF CoordType
  <2>3. CoordLookup' BY <1>1, <2>1 DEF CoordLookup
  <2>4. /\ TreeShape' = TreeShape
        /\ OrderedSides' = OrderedSides
    BY <2>1 DEF TreeShape, Inside, Apart, OrderedSides, IsOrderOn, Separates
  <2>5. CoordTree' BY <1>1, <2>1, <2>4 DEF CoordTree
  <2> QED BY <2>2, <2>3, <2>5 DEF InvCoord
<1>4. CASE WalkEnds
  <2>1. at = "kdtree" /\ at' = "tree" /\ UNCHANGED <<ps, parts, nodes, part, coord, closest, seen>>
    BY <1>4 DEF WalkEnds
  <2>2. CoordType' BY <1>1, <2>1 DEF CoordType
  <2>3. CoordLookup' BY <1>1, <2>1 DEF CoordLookup
  <2>4. CoordTree' BY <1>1, <2>1, TreeStays
  <2> QED BY <2>2, <2>3, <2>4 DEF InvCoord
<1> QED BY <1>2, <1>3, <1>4

\* A part is taken from the front of those that are left, and its two sides are put there.
LEMMA NextParts ==
  ASSUME CoordType, parts # <<>>, NEW p, p = Head(parts)
  PROVE  /\ p \in Parts /\ 1 \in DOMAIN parts /\ parts[1] = p
         /\ \A two \in Seq(Parts) : \A ns : Len(two) = 2 /\ ns = two \o Tail(parts) =>
              /\ ns \in Seq(Parts) /\ ns[1] = two[1] /\ ns[2] = two[2] /\ 1 \in DOMAIN ns /\ 2 \in DOMAIN ns
              /\ \A k \in DOMAIN parts \ {1} : k + 1 \in DOMAIN ns /\ ns[k + 1] = parts[k]
              /\ \A k \in DOMAIN ns : k = 1 \/ k = 2 \/ (k - 1 \in DOMAIN parts \ {1} /\ ns[k] = parts[k - 1])
         /\ LET ns == Tail(parts)
            IN /\ ns \in Seq(Parts)
               /\ \A k \in DOMAIN parts \ {1} : k - 1 \in DOMAIN ns /\ ns[k - 1] = parts[k]
               /\ \A k \in DOMAIN ns : k + 1 \in DOMAIN parts \ {1} /\ ns[k] = parts[k + 1]
<1>1. parts \in Seq(Parts) BY DEF CoordType
<1>2. /\ Tail(parts) \in Seq(Parts) /\ Len(Tail(parts)) = Len(parts) - 1
      /\ Len(parts) \in Nat /\ Len(parts) > 0
      /\ \A k \in 1 .. Len(Tail(parts)) : Tail(parts)[k] = parts[k + 1]
  BY <1>1, HeadTailProperties, LenProperties, EmptySeq
<1>3. DOMAIN parts = 1 .. Len(parts) /\ DOMAIN Tail(parts) = 1 .. Len(Tail(parts)) BY <1>1, <1>2, LenProperties
<1>4. p \in Parts /\ 1 \in DOMAIN parts /\ parts[1] = p BY <1>1, <1>2, <1>3, HeadTailProperties
<1> DEFINE Doubled(two, ns) ==
      /\ ns \in Seq(Parts) /\ ns[1] = two[1] /\ ns[2] = two[2] /\ 1 \in DOMAIN ns /\ 2 \in DOMAIN ns
      /\ \A k \in DOMAIN parts \ {1} : k + 1 \in DOMAIN ns /\ ns[k + 1] = parts[k]
      /\ \A k \in DOMAIN ns : k = 1 \/ k = 2 \/ (k - 1 \in DOMAIN parts \ {1} /\ ns[k] = parts[k - 1])
<1>5. ASSUME NEW two \in Seq(Parts), NEW ns, Len(two) = 2, ns = two \o Tail(parts) PROVE Doubled(two, ns)
  <2>2. /\ ns \in Seq(Parts) /\ Len(ns) = Len(two) + Len(Tail(parts))
        /\ \A k \in 1 .. Len(two) + Len(Tail(parts)) :
             ns[k] = IF k <= Len(two) THEN two[k] ELSE Tail(parts)[k - Len(two)]
    BY <1>2, <1>5, ConcatProperties, Zenon
  <2>3. DOMAIN ns = 1 .. Len(parts) + 1 BY <1>2, <1>5, <2>2, LenProperties
  <2>4. ns[1] = two[1] /\ ns[2] = two[2] /\ 1 \in DOMAIN ns /\ 2 \in DOMAIN ns BY <1>2, <1>5, <2>2, <2>3
  <2>5. \A k \in 3 .. Len(parts) + 1 : ns[k] = parts[k - 1] BY <1>2, <1>5, <2>2
  <2>6. \A k \in DOMAIN parts \ {1} : k + 1 \in DOMAIN ns /\ ns[k + 1] = parts[k] BY <1>2, <1>3, <2>3, <2>5
  <2>7. \A k \in DOMAIN ns : k = 1 \/ k = 2 \/ (k - 1 \in DOMAIN parts \ {1} /\ ns[k] = parts[k - 1])
    BY <1>2, <1>3, <2>3, <2>5
  <2>8. ns \in Seq(Parts) BY <2>2
  <2> QED BY <2>4, <2>6, <2>7, <2>8
<1>6. \A k \in DOMAIN parts \ {1} : k - 1 \in DOMAIN Tail(parts) /\ Tail(parts)[k - 1] = parts[k] BY <1>2, <1>3
<1>7. \A k \in DOMAIN Tail(parts) : k + 1 \in DOMAIN parts \ {1} /\ Tail(parts)[k] = parts[k + 1] BY <1>2, <1>3
<1>8. \A two \in Seq(Parts) : \A ns : Len(two) = 2 /\ ns = two \o Tail(parts) => Doubled(two, ns)
  <2> HIDE DEF Doubled
  <2> QED BY <1>5
<1>9. Tail(parts) \in Seq(Parts) BY <1>2
<1> QED BY ONLY <1>4, <1>6, <1>7, <1>8, <1>9, Zenon

\* The middle of a node is in none of the parts that are left.
LEMMA MiddleApart ==
  ASSUME NEW q \in Parts, NEW r \in Parts, q.len > 0, Apart(q, r)
  PROVE  Middle(q) \notin In(r)
<1>1. /\ Middle(q) \in In(q) /\ Middle(q) \in Nat
      /\ Middle(q) \notin In(Left(q)) /\ Middle(q) \notin In(Right(q))
  BY PartFacts
<1> QED BY <1>1 DEF Apart

\* What lies inside a part that is apart from a node is apart from it as well.
LEMMA ApartBelow ==
  ASSUME NEW q, NEW r, NEW s, Apart(q, r), In(s) \subseteq In(r)
  PROVE  Apart(q, s)
BY DEF Apart

\* The tree keeps its shape when a root is made (coord_query_kdtree.c:46-51).
LEMMA RootKeepsShape ==
  ASSUME CoordType, TreeShape, parts # <<>>, NEW p, p = Head(parts), p.len > 0,
         DOMAIN ps' = DOMAIN ps, Len(ps') = Len(ps),
         parts' = <<Left(p), Right(p)>> \o Tail(parts), nodes' = nodes \cup {p}
  PROVE  TreeShape' /\ parts' \in Seq(Parts) /\ nodes' \subseteq Parts
<1>1. /\ p \in Parts /\ 1 \in DOMAIN parts /\ parts[1] = p
      /\ Left(p) \in Parts /\ Right(p) \in Parts
      /\ Inside(p) /\ nodes \subseteq Parts /\ \A k \in DOMAIN parts : parts[k] \in Parts
  <2>1. p \in Parts /\ 1 \in DOMAIN parts /\ parts[1] = p BY NextParts
  <2>2. \A k \in DOMAIN parts : parts[k] \in Parts BY LenProperties, ElementOfSeq DEF CoordType
  <2> QED BY <2>1, <2>2, PartFacts DEF TreeShape, CoordType
<1>2. /\ parts' \in Seq(Parts) /\ parts'[1] = Left(p) /\ parts'[2] = Right(p) /\ 1 \in DOMAIN parts' /\ 2 \in DOMAIN parts'
      /\ \A k \in DOMAIN parts \ {1} : k + 1 \in DOMAIN parts' /\ parts'[k + 1] = parts[k]
      /\ \A k \in DOMAIN parts' : k = 1 \/ k = 2 \/ (k - 1 \in DOMAIN parts \ {1} /\ parts'[k] = parts[k - 1])
  <2> DEFINE Next2(a, ns) ==
          /\ ns \in Seq(Parts) /\ ns[1] = a[1] /\ ns[2] = a[2] /\ 1 \in DOMAIN ns /\ 2 \in DOMAIN ns
          /\ \A k \in DOMAIN parts \ {1} : k + 1 \in DOMAIN ns /\ ns[k + 1] = parts[k]
          /\ \A k \in DOMAIN ns : k = 1 \/ k = 2 \/ (k - 1 \in DOMAIN parts \ {1} /\ ns[k] = parts[k - 1])
  <2>1. \A a \in Seq(Parts) : \A ns : Len(a) = 2 /\ ns = a \o Tail(parts) => Next2(a, ns)
    BY NextParts, Zenon DEF Next2
  <2> HIDE DEF Next2
  <2> DEFINE two == <<Left(p), Right(p)>>
  <2>2. two \in Seq(Parts) /\ Len(two) = 2 /\ two[1] = Left(p) /\ two[2] = Right(p) BY <1>1
  <2>3. parts' = two \o Tail(parts) OBVIOUS
  <2> HIDE DEF two
  <2>4. Next2(two, parts') BY ONLY <2>1, <2>2, <2>3
  <2> QED BY ONLY <2>2, <2>4 DEF Next2
<1>3. /\ Middle(p) \in Nat /\ Middle(p) \in In(p)
      /\ In(Left(p)) = {i \in In(p) : i < Middle(p)} /\ In(Right(p)) = {i \in In(p) : i > Middle(p)}
      /\ In(p) \subseteq Int
  <2>1. In(p) \subseteq Int BY <1>1 DEF In, Parts
  <2> QED BY <1>1, <2>1, PartFacts
<1>4. Inside(Left(p)) /\ Inside(Right(p)) BY <1>1, InsideFacts
<1>5. \A q : Inside(q)' <=> q.first >= 1 /\ q.first + q.len <= Len(ps) + 1
  BY DEF Inside
<1>6. \A k \in DOMAIN parts' : Inside(parts[k])'
  <2>1. \A k \in DOMAIN parts' : Inside(parts'[k])
    <3> SUFFICES ASSUME NEW k \in DOMAIN parts' PROVE Inside(parts'[k]) OBVIOUS
    <3>1. CASE k = 1 BY <1>2, <1>4, <3>1
    <3>2. CASE k = 2 BY <1>2, <1>4, <3>2
    <3>3. CASE k - 1 \in DOMAIN parts \ {1} /\ parts'[k] = parts[k - 1] BY <3>3 DEF TreeShape
    <3> QED BY <1>2, <3>1, <3>2, <3>3
  <2> QED BY <2>1 DEF Inside
<1>7. \A q \in nodes' : Inside(q)' /\ q.len > 0 BY <1>1, <1>5 DEF TreeShape, Inside
<1>8. \A k \in DOMAIN parts \ {1} : In(parts[k]) \cap In(p) = {} BY <1>1 DEF TreeShape
<1>9. In(Left(p)) \subseteq In(p) /\ In(Right(p)) \subseteq In(p) /\ In(Left(p)) \cap In(Right(p)) = {}
  BY <1>3
<1>10. \A j, k \in DOMAIN parts' : j # k => In(parts'[j]) \cap In(parts'[k]) = {}
  <2> SUFFICES ASSUME NEW j \in DOMAIN parts', NEW k \in DOMAIN parts', j # k
               PROVE  In(parts'[j]) \cap In(parts'[k]) = {}
    OBVIOUS
  <2>1. CASE j \in {1, 2} /\ k \in {1, 2}
    <3>1. (j = 1 /\ k = 2) \/ (j = 2 /\ k = 1) BY <2>1
    <3> QED BY <1>2, <1>9, <3>1
  <2>2. CASE j \in {1, 2} /\ k \notin {1, 2}
    <3>1. k - 1 \in DOMAIN parts \ {1} /\ parts'[k] = parts[k - 1] BY <1>2, <2>2
    <3>2. In(parts'[k]) \cap In(p) = {} BY <1>8, <3>1
    <3>3. In(parts'[j]) \subseteq In(p) BY <1>2, <1>9, <2>2
    <3> QED BY <3>2, <3>3
  <2>3. CASE j \notin {1, 2} /\ k \in {1, 2}
    <3>1. j - 1 \in DOMAIN parts \ {1} /\ parts'[j] = parts[j - 1] BY <1>2, <2>3
    <3>2. In(parts'[j]) \cap In(p) = {} BY <1>8, <3>1
    <3>3. In(parts'[k]) \subseteq In(p) BY <1>2, <1>9, <2>3
    <3> QED BY <3>2, <3>3
  <2>4. CASE j \notin {1, 2} /\ k \notin {1, 2}
    <3>1. /\ j - 1 \in DOMAIN parts /\ parts'[j] = parts[j - 1]
          /\ k - 1 \in DOMAIN parts /\ parts'[k] = parts[k - 1]
      BY <1>2, <2>4
    <3>2. j \in Nat /\ k \in Nat BY <1>2, LenProperties
    <3>3. j - 1 # k - 1 BY <3>2
    <3> QED BY <3>1, <3>3, Zenon DEF TreeShape
  <2> QED BY <2>1, <2>2, <2>3, <2>4
<1>11. \A q \in nodes', k \in DOMAIN parts' : Apart(q, parts'[k])
  <2> SUFFICES ASSUME NEW q \in nodes', NEW k \in DOMAIN parts' PROVE Apart(q, parts'[k]) OBVIOUS
  <2>1. CASE q \in nodes /\ k \in {1, 2}
    <3>1. Apart(q, p) BY <1>1, <2>1 DEF TreeShape
    <3> QED BY <1>2, <1>9, <2>1, <3>1, ApartBelow
  <2>2. CASE k \notin {1, 2}
    <3>1. k - 1 \in DOMAIN parts \ {1} /\ parts'[k] = parts[k - 1] BY <1>2, <2>2
    <3>2. q = p => Apart(q, parts'[k]) BY <1>8, <3>1 DEF Apart
    <3> QED BY <3>1, <3>2 DEF TreeShape
  <2>3. CASE q = p /\ k \in {1, 2} BY <1>2, <2>3 DEF Apart
  <2> QED BY <2>1, <2>2, <2>3
<1>12. \A q \in nodes' : \A s \in {Left(q), Right(q)} :
         s.len > 0 => s \in nodes' \/ \E k \in DOMAIN parts' : parts'[k] = s
  <2> SUFFICES ASSUME NEW q \in nodes', NEW s \in {Left(q), Right(q)}, s.len > 0
               PROVE  s \in nodes' \/ \E k \in DOMAIN parts' : parts'[k] = s
    OBVIOUS
  <2>1. CASE q = p BY <1>2, <2>1, Zenon
  <2>2. CASE q \in nodes
    <3>1. s \in nodes \/ \E k \in DOMAIN parts : parts[k] = s BY <2>2, Zenon DEF TreeShape
    <3>2. ASSUME NEW k \in DOMAIN parts, parts[k] = s PROVE s = p \/ \E m \in DOMAIN parts' : parts'[m] = s
      BY <1>1, <1>2, <3>2
    <3> QED BY <3>1, <3>2
  <2> QED BY <2>1, <2>2
<1>13. \A i \in DOMAIN ps' : (\E k \in DOMAIN parts' : i \in In(parts'[k])) \/ \E q \in nodes' : Middle(q) = i
  <2> SUFFICES ASSUME NEW i \in DOMAIN ps
               PROVE  (\E k \in DOMAIN parts' : i \in In(parts'[k])) \/ \E q \in nodes' : Middle(q) = i
    OBVIOUS
  <2>1. (\E k \in DOMAIN parts : i \in In(parts[k])) \/ \E q \in nodes : Middle(q) = i BY DEF TreeShape
  <2>2. ASSUME NEW k \in DOMAIN parts, i \in In(parts[k]), k # 1
        PROVE  \E m \in DOMAIN parts' : i \in In(parts'[m])
    BY <1>2, <2>2
  <2>3. ASSUME i \in In(p)
        PROVE  i = Middle(p) \/ i \in In(Left(p)) \/ i \in In(Right(p))
    BY <1>3, <2>3
  <2>4. ASSUME i \in In(p) PROVE (\E k \in DOMAIN parts' : i \in In(parts'[k])) \/ \E q \in nodes' : Middle(q) = i
    BY <1>2, <2>3, <2>4, Zenon
  <2> QED BY <1>1, <2>1, <2>2, <2>4
<1>14. \A q \in nodes : Middle(q) # Middle(p)
  <2> SUFFICES ASSUME NEW q \in nodes PROVE Middle(q) \notin In(p) BY <1>3
  <2>1. Apart(q, p) /\ q.len > 0 BY <1>1 DEF TreeShape
  <2> QED BY <1>1, <2>1, MiddleApart
<1>15. \A q, r \in nodes' : Middle(q) = Middle(r) => q = r BY <1>14, Zenon DEF TreeShape
<1>16. TreeShape'
  <2>1. \A q, k : Apart(q, parts[k])' <=> Apart(q, parts'[k]) BY DEF Apart
  <2> QED BY <1>6, <1>7, <1>10, <1>11, <1>12, <1>13, <1>15, <2>1, Zenon DEF TreeShape
<1> QED BY <1>1, <1>2, <1>16

\* So it does when an empty part is passed over (coord_query_kdtree.c:34-36).
LEMMA EmptyKeepsShape ==
  ASSUME CoordType, TreeShape, parts # <<>>, NEW p, p = Head(parts), p.len = 0,
         UNCHANGED <<ps, nodes>>, parts' = Tail(parts)
  PROVE  TreeShape' /\ parts' \in Seq(Parts)
<1>1. p \in Parts /\ 1 \in DOMAIN parts /\ parts[1] = p BY NextParts
<1>2. /\ parts' \in Seq(Parts)
      /\ \A k \in DOMAIN parts \ {1} : k - 1 \in DOMAIN parts' /\ parts'[k - 1] = parts[k]
      /\ \A k \in DOMAIN parts' : k + 1 \in DOMAIN parts \ {1} /\ parts'[k] = parts[k + 1]
  BY NextParts, Zenon
<1>3. In(p) = {} BY <1>1 DEF In, Parts
<1>4. \A k \in DOMAIN parts' : Inside(parts[k])'
  <2>1. \A k \in DOMAIN parts' : Inside(parts'[k]) BY <1>2 DEF TreeShape
  <2> QED BY <2>1 DEF Inside
<1>5. \A q \in nodes' : Inside(q)' /\ q.len > 0 BY DEF TreeShape, Inside
<1>6. \A j, k \in DOMAIN parts' : j # k => In(parts'[j]) \cap In(parts'[k]) = {}
  <2> SUFFICES ASSUME NEW j \in DOMAIN parts', NEW k \in DOMAIN parts', j # k
               PROVE  In(parts'[j]) \cap In(parts'[k]) = {}
    OBVIOUS
  <2>1. j \in Nat /\ k \in Nat BY <1>2, LenProperties
  <2>2. j + 1 # k + 1 BY <2>1
  <2>3. j + 1 \in DOMAIN parts /\ k + 1 \in DOMAIN parts /\ parts'[j] = parts[j + 1] /\ parts'[k] = parts[k + 1]
    BY <1>2
  <2> QED BY <2>2, <2>3, Zenon DEF TreeShape
<1>7. \A q \in nodes', k \in DOMAIN parts' : Apart(q, parts'[k]) BY <1>2 DEF TreeShape
<1>8. \A q \in nodes' : \A s \in {Left(q), Right(q)} :
        s.len > 0 => s \in nodes' \/ \E k \in DOMAIN parts' : parts'[k] = s
  <2> SUFFICES ASSUME NEW q \in nodes, NEW s \in {Left(q), Right(q)}, s.len > 0
               PROVE  s \in nodes \/ \E k \in DOMAIN parts' : parts'[k] = s
    OBVIOUS
  <2>1. s \in nodes \/ \E k \in DOMAIN parts : parts[k] = s BY Zenon DEF TreeShape
  <2>2. ASSUME NEW k \in DOMAIN parts, parts[k] = s PROVE \E m \in DOMAIN parts' : parts'[m] = s
    <3>1. k # 1 BY <1>1, <2>2
    <3> QED BY <1>2, <2>2, <3>1
  <2> QED BY <2>1, <2>2
<1>9. \A i \in DOMAIN ps' : (\E k \in DOMAIN parts' : i \in In(parts'[k])) \/ \E q \in nodes' : Middle(q) = i
  <2> SUFFICES ASSUME NEW i \in DOMAIN ps
               PROVE  (\E k \in DOMAIN parts' : i \in In(parts'[k])) \/ \E q \in nodes : Middle(q) = i
    OBVIOUS
  <2>1. (\E k \in DOMAIN parts : i \in In(parts[k])) \/ \E q \in nodes : Middle(q) = i BY DEF TreeShape
  <2>2. ASSUME NEW k \in DOMAIN parts, i \in In(parts[k]) PROVE \E m \in DOMAIN parts' : i \in In(parts'[m])
    <3>1. k # 1 BY <1>1, <1>3, <2>2
    <3> QED BY <1>2, <2>2, <3>1
  <2> QED BY <2>1, <2>2
<1>10. \A q, r \in nodes' : Middle(q) = Middle(r) => q = r BY DEF TreeShape
<1>11. TreeShape'
  <2>1. \A q, k : Apart(q, parts[k])' <=> Apart(q, parts'[k]) BY DEF Apart
  <2> QED BY <1>4, <1>5, <1>6, <1>7, <1>8, <1>9, <1>10, <2>1, Zenon DEF TreeShape
<1> QED BY <1>2, <1>11

\* Cutting off the part of a degree tells coordinates apart that differ by a degree or more
\* (compX, compY, coord_query_kdtree.c:19-30).
LEMMA WholeOrder ==
  ASSUME NEW d \in Int
  PROVE  Whole(d) \in Int /\ (Whole(d) <= 0 <=> d < Unit)
<1>1. Unit \in Int /\ Unit > 0 BY UnitAssumption
<1>2. CASE d < 0
  <2>1. -d \in Nat BY <1>2
  <2>2. (-d) \div Unit \in Int /\ (-d) \div Unit >= 0 BY <1>1, <2>1
  <2> QED BY <1>1, <1>2, <2>2 DEF Whole
<1>3. CASE d >= 0
  <2>1. /\ d \div Unit \in Int /\ d % Unit \in Int /\ d = Unit * (d \div Unit) + (d % Unit)
        /\ 0 <= d % Unit /\ d % Unit < Unit
    BY <1>1
  <2>2. CASE d \div Unit <= 0
    <3>1. Unit * (d \div Unit) <= 0 BY <1>1, <2>1, <2>2
    <3>2. d < Unit BY <1>1, <2>1, <3>1
    <3> QED BY <1>3, <2>1, <2>2, <3>2 DEF Whole
  <2>3. CASE d \div Unit >= 1
    <3>1. Unit * (d \div Unit) >= Unit BY <1>1, <2>1, <2>3
    <3>2. d >= Unit BY <1>1, <2>1, <3>1
    <3> QED BY <1>1, <1>3, <2>1, <2>3, <3>2 DEF Whole
  <2> QED BY <2>1, <2>2, <2>3
<1> QED BY <1>2, <1>3

\* Records that are moved within a part, as qsort moves them.
Moves(p, f) == /\ f \in [In(p) -> In(p)]
               /\ \A k \in In(p) : \E j \in In(p) : f[j] = k
               /\ ps' = [k \in DOMAIN ps |-> IF k \in In(p) THEN ps[f[k]] ELSE ps[k]]

\* The records are the same ones after they are moved.
LEMMA MoveKeeps ==
  ASSUME CoordType, NEW p, In(p) \subseteq DOMAIN ps, NEW f, Moves(p, f)
  PROVE  /\ ps' \in Seq(Points) /\ Len(ps') = Len(ps) /\ DOMAIN ps' = DOMAIN ps
<1>1. /\ ps \in Seq(Points) /\ Len(ps) \in Nat /\ DOMAIN ps = 1 .. Len(ps)
      /\ \A i \in DOMAIN ps : ps[i] \in Points
  BY LenProperties, ElementOfSeq DEF CoordType
<1>2. /\ \A k \in In(p) : f[k] \in In(p) /\ ps'[k] = ps[f[k]]
      /\ \A k \in DOMAIN ps \ In(p) : ps'[k] = ps[k]
      /\ DOMAIN ps' = DOMAIN ps
  BY DEF Moves
<1>3. ps' \in [1 .. Len(ps) -> Points] BY <1>1 DEF Moves
<1>4. ps' \in Seq(Points) /\ Len(ps') = Len(ps) BY <1>1, <1>3
<1> QED BY <1>2, <1>4

\* Whether the comparison is an order on a part does not change when records are moved inside it or
\* outside it.
LEMMA MoveKeepsOrder ==
  ASSUME NEW p \in Parts, In(p) \subseteq DOMAIN ps, NEW f, Moves(p, f),
         NEW q \in Parts, In(q) \subseteq DOMAIN ps,
         In(p) \subseteq In(q) \/ In(p) \cap In(q) = {}, IsOrderOn(q)'
  PROVE  IsOrderOn(q)
<1>1. /\ \A k \in In(p) : f[k] \in In(p) /\ ps'[k] = ps[f[k]]
      /\ \A k \in DOMAIN ps \ In(p) : ps'[k] = ps[k]
      /\ \A k \in In(p) : \E j \in In(p) : f[j] = k
  BY DEF Moves
<1>2. \A i \in In(q) : \E g \in In(q) : ps'[g] = ps[i]
  <2> SUFFICES ASSUME NEW i \in In(q) PROVE \E g \in In(q) : ps'[g] = ps[i] OBVIOUS
  <2>1. CASE i \in In(p)
    <3>1. PICK j \in In(p) : f[j] = i BY <1>1, <2>1
    <3>2. j \in In(q) BY <2>1, <3>1
    <3> QED BY <1>1, <3>1, <3>2
  <2>2. CASE i \notin In(p) BY <1>1, <2>2
  <2> QED BY <2>1, <2>2
<1>3. \A i, j, k \in In(q) :
        CompXY(Axis(q), ps'[i], ps'[j]) <= 0 /\ CompXY(Axis(q), ps'[j], ps'[k]) <= 0
          => CompXY(Axis(q), ps'[i], ps'[k]) <= 0
  BY DEF IsOrderOn
<1> SUFFICES ASSUME NEW i \in In(q), NEW j \in In(q), NEW k \in In(q),
                    CompXY(Axis(q), ps[i], ps[j]) <= 0, CompXY(Axis(q), ps[j], ps[k]) <= 0
             PROVE  CompXY(Axis(q), ps[i], ps[k]) <= 0
  BY Zenon DEF IsOrderOn
<1>4. PICK a \in In(q), b \in In(q), c \in In(q) : ps'[a] = ps[i] /\ ps'[b] = ps[j] /\ ps'[c] = ps[k]
  BY <1>2
<1> QED BY <1>3, <1>4

\* A node keeps separating its sides when a part that is apart from it is sorted.
LEMMA MoveKeepsNode ==
  ASSUME CoordType, NEW p \in Parts, In(p) \subseteq DOMAIN ps, NEW f, Moves(p, f),
         NEW q \in Parts, q.len > 0, Inside(q), Apart(q, p), Separates(q)
  PROVE  Separates(q)'
<1>1. /\ \A k \in In(p) : f[k] \in In(p) /\ ps'[k] = ps[f[k]]
      /\ \A k \in DOMAIN ps \ In(p) : ps'[k] = ps[k]
  BY DEF Moves
<1>2. /\ In(q) \subseteq DOMAIN ps /\ Middle(q) \in DOMAIN ps
      /\ In(Left(q)) \subseteq In(q) /\ In(Right(q)) \subseteq In(q)
      /\ In(Left(q)) \cap In(Right(q)) = {}
  <2>1. /\ In(q) \subseteq Int /\ Middle(q) \in Int
        /\ In(Left(q)) = {i \in In(q) : i < Middle(q)} /\ In(Right(q)) = {i \in In(q) : i > Middle(q)}
    <3>1. In(q) \subseteq Int BY DEF In, Parts
    <3> QED BY <3>1, PartFacts
  <2> QED BY <2>1, InsideFacts
<1>3. ps'[Middle(q)] = ps[Middle(q)] BY <1>1, <1>2, MiddleApart
<1>4. ASSUME NEW s \in {Left(q), Right(q)}, NEW i \in In(s)
      PROVE  \E h \in In(s) : ps'[i] = ps[h]
  <2>1. CASE i \in In(p)
    <3>1. In(p) \subseteq In(s) BY <1>2, <1>4, <2>1 DEF Apart
    <3> QED BY <1>1, <2>1, <3>1
  <2>2. CASE i \notin In(p) BY <1>1, <1>2, <1>4, <2>2
  <2> QED BY <2>1, <2>2
<1>5. \A i \in In(Left(q)) : ps'[i][Axis(q)] - ps'[Middle(q)][Axis(q)] < Unit
  <2> SUFFICES ASSUME NEW i \in In(Left(q)) PROVE ps'[i][Axis(q)] - ps'[Middle(q)][Axis(q)] < Unit OBVIOUS
  <2>1. PICK h \in In(Left(q)) : ps'[i] = ps[h] BY <1>4
  <2>2. ps[h][Axis(q)] - ps[Middle(q)][Axis(q)] < Unit BY DEF Separates
  <2> QED BY <1>3, <2>1, <2>2
<1>6. \A i \in In(Right(q)) : ps'[Middle(q)][Axis(q)] - ps'[i][Axis(q)] < Unit
  <2> SUFFICES ASSUME NEW i \in In(Right(q)) PROVE ps'[Middle(q)][Axis(q)] - ps'[i][Axis(q)] < Unit OBVIOUS
  <2>1. PICK h \in In(Right(q)) : ps'[i] = ps[h] BY <1>4
  <2>2. ps[Middle(q)][Axis(q)] - ps[h][Axis(q)] < Unit BY DEF Separates
  <2> QED BY <1>3, <2>1, <2>2
<1> QED BY <1>5, <1>6 DEF Separates

\* The part that is sorted has its middle between its sides.
LEMMA SortedSeparates ==
  ASSUME CoordType, NEW p \in Parts, p.len > 0, Inside(p), NEW f, Moves(p, f), IsOrderOn(p),
         IsOrderOn(p) => \A i, j \in In(p) : i < j => CompXY(Axis(p), ps[f[i]], ps[f[j]]) <= 0
  PROVE  Separates(p)'
<1>1. /\ \A k \in In(p) : f[k] \in In(p) /\ ps'[k] = ps[f[k]]
      /\ In(p) \subseteq DOMAIN ps /\ Axis(p) \in 1 .. 2
      /\ Middle(p) \in Int /\ Middle(p) \in In(p)
      /\ In(Left(p)) = {i \in In(p) : i < Middle(p)} /\ In(Right(p)) = {i \in In(p) : i > Middle(p)}
  <2>1. \A k \in In(p) : f[k] \in In(p) /\ (k \in DOMAIN ps => ps'[k] = ps[f[k]]) BY DEF Moves
  <2> QED BY <2>1, PartFacts, InsideFacts
<1>2. \A i \in DOMAIN ps : ps[i][Axis(p)] \in Int
  <2>1. \A i \in DOMAIN ps : ps[i] \in Int \X Int BY RecordsArePoints
  <2> QED BY <1>1, <2>1
<1>3. ASSUME NEW i \in DOMAIN ps, NEW j \in DOMAIN ps
      PROVE  CompXY(Axis(p), ps[i], ps[j]) <= 0 <=> ps[i][Axis(p)] - ps[j][Axis(p)] < Unit
  <2> DEFINE d == ps[i][Axis(p)] - ps[j][Axis(p)]
  <2>1. d \in Int BY <1>2
  <2>2. CompXY(Axis(p), ps[i], ps[j]) = Whole(d) BY DEF CompXY
  <2> HIDE DEF d
  <2>3. Whole(d) <= 0 <=> d < Unit BY <2>1, WholeOrder
  <2>4. CompXY(Axis(p), ps[i], ps[j]) <= 0 <=> d < Unit BY <2>2, <2>3
  <2> QED BY <2>4 DEF d
<1>5. ASSUME NEW i \in In(p), NEW j \in In(p), i < j
      PROVE  ps'[i][Axis(p)] - ps'[j][Axis(p)] < Unit
  <2>1. CompXY(Axis(p), ps[f[i]], ps[f[j]]) <= 0 BY <1>5
  <2>2. f[i] \in DOMAIN ps /\ f[j] \in DOMAIN ps BY <1>1
  <2>3. ps[f[i]][Axis(p)] - ps[f[j]][Axis(p)] < Unit BY <1>3, <2>1, <2>2
  <2> QED BY <1>1, <2>3
<1>6. \A i \in In(Left(p)) : ps'[i][Axis(p)] - ps'[Middle(p)][Axis(p)] < Unit BY <1>1, <1>5
<1>7. \A i \in In(Right(p)) : ps'[Middle(p)][Axis(p)] - ps'[i][Axis(p)] < Unit
  <2> SUFFICES ASSUME NEW i \in In(Right(p)) PROVE ps'[Middle(p)][Axis(p)] - ps'[i][Axis(p)] < Unit OBVIOUS
  <2>1. i \in In(p) /\ Middle(p) < i BY <1>1
  <2> QED BY <1>1, <1>5, <2>1
<1> QED BY <1>6, <1>7 DEF Separates

\* One call of generate_tree (coord_query_kdtree.c:33-53).
LEMMA BuildKeeps == ASSUME InvCoord, Build PROVE InvCoord'
<1>1. CoordType /\ CoordLookup /\ CoordTree BY DEF InvCoord
<1>2. PICK p : p = Head(parts) OBVIOUS
<1>3. /\ at = "build" /\ parts # <<>> /\ UNCHANGED <<at, part, coord, closest, seen>>
      /\ parts' = IF p.len > 0 THEN <<Left(p), Right(p)>> \o Tail(parts) ELSE Tail(parts)
      /\ nodes' = IF p.len > 0 THEN nodes \cup {p} ELSE nodes
  BY <1>2 DEF Build
<1>4. PICK f : /\ Moves(p, f)
               /\ IsOrderOn(p) => \A i, j \in In(p) : i < j => CompXY(Axis(p), ps[f[i]], ps[f[j]]) <= 0
  BY <1>2 DEF Build, Moves
<1>5. TreeShape /\ OrderedSides BY <1>1, <1>3 DEF CoordTree
<1>6. p \in Parts /\ Inside(p) /\ nodes \subseteq Parts
      /\ (\A q \in nodes : Inside(q) /\ q.len > 0) /\ \A q \in nodes : Apart(q, p)
  <2>1. p \in Parts /\ 1 \in DOMAIN parts /\ parts[1] = p BY <1>1, <1>2, <1>3, NextParts
  <2> QED BY <1>1, <1>5, <2>1 DEF TreeShape, CoordType
<1>7. p.len \in Nat /\ (p.len = 0 => In(p) = {}) BY <1>6 DEF Parts, In
<1>8. In(p) \subseteq DOMAIN ps BY <1>1, <1>6, <1>7, InsideFacts
<1>9. /\ ps' \in Seq(Points) /\ Len(ps') = Len(ps) /\ DOMAIN ps' = DOMAIN ps
  BY <1>1, <1>4, <1>8, MoveKeeps
<1>10. CASE p.len > 0
  <2>1. TreeShape' /\ parts' \in Seq(Parts) /\ nodes' \subseteq Parts
    BY <1>1, <1>2, <1>3, <1>5, <1>9, <1>10, RootKeepsShape
  <2>2. OrderedSides'
    <3>1. ASSUME IsOrderOn(p)' PROVE Separates(p)'
      <4>1. IsOrderOn(p) BY <1>4, <1>6, <1>8, <3>1, MoveKeepsOrder
      <4> QED BY <1>1, <1>4, <1>6, <1>10, <4>1, SortedSeparates
    <3>2. ASSUME NEW q \in nodes, IsOrderOn(q)' PROVE Separates(q)'
      <4>1. q \in Parts /\ q.len > 0 /\ Inside(q) /\ Apart(q, p) BY <1>6
      <4>2. In(q) \subseteq DOMAIN ps BY <1>1, <4>1, InsideFacts
      <4>3. In(Left(q)) \subseteq In(q) /\ In(Right(q)) \subseteq In(q) BY <4>1, PartFacts
      <4>4. In(p) \subseteq In(q) \/ In(p) \cap In(q) = {} BY <4>1, <4>3, Zenon DEF Apart
      <4>5. IsOrderOn(q) BY <1>4, <1>6, <1>8, <3>2, <4>1, <4>2, <4>4, MoveKeepsOrder
      <4>6. Separates(q) BY <1>5, <4>5 DEF OrderedSides
      <4> QED BY <1>1, <1>4, <1>6, <1>8, <4>1, <4>6, MoveKeepsNode
    <3> QED BY <1>3, <1>10, <3>1, <3>2 DEF OrderedSides
  <2>3. CoordType' BY <1>1, <1>3, <1>9, <2>1 DEF CoordType
  <2>4. CoordLookup' BY <1>1, <1>3 DEF CoordLookup
  <2>5. CoordTree' BY <1>3, <2>1, <2>2 DEF CoordTree
  <2> QED BY <2>3, <2>4, <2>5 DEF InvCoord
<1>11. CASE p.len = 0
  <2>1. ps' = ps
    <3>1. ps \in [1 .. Len(ps) -> Points] /\ DOMAIN ps = 1 .. Len(ps) BY <1>1, LenProperties DEF CoordType
    <3>2. ps' = [k \in DOMAIN ps |-> ps[k]] BY <1>4, <1>7, <1>11 DEF Moves
    <3> QED BY <3>1, <3>2
  <2>2. parts' = Tail(parts) /\ nodes' = nodes BY <1>3, <1>11
  <2>3. TreeShape' /\ parts' \in Seq(Parts)
    BY <1>1, <1>2, <1>3, <1>5, <1>11, <2>1, <2>2, EmptyKeepsShape
  <2>4. OrderedSides' = OrderedSides
    BY <2>1, <2>2 DEF OrderedSides, IsOrderOn, Separates
  <2>5. CoordType' BY <1>1, <1>3, <2>1, <2>2, <2>3 DEF CoordType
  <2>6. CoordLookup' BY <1>1, <1>3 DEF CoordLookup
  <2>7. CoordTree' BY <1>3, <1>5, <2>3, <2>4 DEF CoordTree
  <2> QED BY <2>5, <2>6, <2>7 DEF InvCoord
<1> QED BY <1>7, <1>10, <1>11

\* InvCoord is inductive: every step of the searches by coordinates keeps it.
LEMMA CoordInductive == KSpec => []InvCoord
<1>1. KInit => InvCoord
  <2> SUFFICES ASSUME KInit PROVE InvCoord OBVIOUS
  <2>1. CoordType BY DEF KInit, CoordType, Part, Parts
  <2>2. CoordLookup BY DEF KInit, CoordLookup
  <2>3. CoordTree BY DEF KInit, CoordTree
  <2> QED BY <2>1, <2>2, <2>3 DEF InvCoord
<1>2. InvCoord /\ [KNext]_kvars => InvCoord'
  <2> SUFFICES ASSUME InvCoord, [KNext]_kvars PROVE InvCoord' OBVIOUS
  <2>1. CASE UNCHANGED kvars
    <3>1. UNCHANGED <<at, ps, parts, nodes, part, coord, closest, seen>> BY <2>1 DEF kvars
    <3>2. CoordType' /\ CoordLookup' BY <3>1 DEF InvCoord, CoordType, CoordLookup, Inside
    <3>3. /\ TreeShape' = TreeShape
          /\ OrderedSides' = OrderedSides
      BY <3>1 DEF TreeShape, Inside, Apart, OrderedSides, IsOrderOn, Separates
    <3>4. CoordTree' BY <3>1, <3>3 DEF InvCoord, CoordTree
    <3> QED BY <3>2, <3>4 DEF InvCoord
  <2>2. CASE Load \/ Built \/ WalkEnds BY <2>2, OthersKeepNearest
  <2>3. CASE Build BY <2>3, BuildKeeps
  <2>4. CASE Query BY <2>4, QueryKeepsNearest
  <2>5. CASE ScanNext BY <2>5, ScanKeepsNearest
  <2>6. CASE Walk BY <2>6, WalkKeepsNearest
  <2> QED BY <2>1, <2>2, <2>3, <2>4, <2>5, <2>6, Zenon DEF KNext
<1> QED BY <1>1, <1>2, PTL DEF KSpec

\* The record returned is the nearest of all for the scan, and of those the walk has met for the
\* tree (coord_query_naive.c:30-42, coord_query_kdtree.c:76-107), for any points and any files.
THEOREM NearestAnswered == KSpec => []AnswerNearest
<1>1. InvCoord => AnswerNearest BY DEF InvCoord, CoordLookup, AnswerNearest
<1> QED BY <1>1, CoordInductive, PTL

\* The finished k-d tree holds every record once, has a root for every side that is not empty, and
\* each root of a part that the comparison orders separates its sides up to less than a degree
\* (coord_query_kdtree.c:33-53): what later calls of generate_tree sort again is on one side.
THEOREM TreeIsOrdered == KSpec => []TreeOrdered
<1>1. InvCoord => TreeOrdered
  <2> SUFFICES ASSUME InvCoord, at = "tree" PROVE
        /\ \A p \in nodes : IsOrderOn(p) => Separates(p)
        /\ \A p \in nodes : \A q \in {Left(p), Right(p)} : q.len > 0 => q \in nodes
        /\ \A i \in DOMAIN ps : \E p \in nodes : Middle(p) = i /\ \A q \in nodes : Middle(q) = i => q = p
    BY Zenon DEF TreeOrdered
  <2>1. parts = <<>> /\ TreeShape /\ OrderedSides
    BY DEF InvCoord, CoordTree
  <2>2. DOMAIN parts = {} BY <2>1
  <2>3. \A p \in nodes : \A q \in {Left(p), Right(p)} : q.len > 0 => q \in nodes
    BY <2>1, <2>2, Zenon DEF TreeShape
  <2>4. \A i \in DOMAIN ps : \E p \in nodes : Middle(p) = i BY <2>1, <2>2, Zenon DEF TreeShape
  <2>5. \A p, q \in nodes : Middle(p) = Middle(q) => p = q BY <2>1, Zenon DEF TreeShape
  <2>6. \A i \in DOMAIN ps : \E p \in nodes : Middle(p) = i /\ \A q \in nodes : Middle(q) = i => q = p
    BY <2>4, <2>5, Zenon
  <2> QED BY <2>1, <2>3, <2>6, Zenon DEF OrderedSides
<1> QED BY <1>1, CoordInductive, PTL

-----------------------------------------------------------------------------
(* A6, the radix sort: the tree is well formed, no block is lost, and what *)
(* is taken out are the smallest numbers.  First numbers and positions.    *)

(* Every set of natural numbers that is not empty has a least element. *)
LEMMA LeastNumber ==
  ASSUME NEW T \in SUBSET Nat, T # {} PROVE \E x \in T : \A y \in T : x <= y
<1> DEFINE X == {0 .. N : N \in T}
           R == StrictSubsetOrdering(Nat)
<1>1. X \subseteq FiniteSubsetsOf(Nat)
  <2> SUFFICES ASSUME NEW N \in T PROVE 0 .. N \in FiniteSubsetsOf(Nat) OBVIOUS
  <2>1. N \in Nat /\ 0 .. N \in SUBSET Nat OBVIOUS
  <2>2. IsFiniteSet(0 .. N) BY <2>1, FS_Interval
  <2> QED BY <2>1, <2>2 DEF FiniteSubsetsOf
<1>2. X # {} OBVIOUS
<1>3. IsWellFoundedOn(R, FiniteSubsetsOf(Nat)) BY FS_StrictSubsetOrderingWellFounded
<1>4. \E x \in X : \A y \in X : ~(<<y, x>> \in R)
  <2> HIDE DEF X, R
  <2> QED BY <1>1, <1>2, <1>3, WFMin
<1>5. PICK m \in T : \A N \in T : <<0 .. N, 0 .. m>> \notin R BY <1>4
<1>6. ASSUME NEW N \in T, N < m PROVE FALSE
  <2>1. 0 .. N \in SUBSET Nat /\ 0 .. m \in SUBSET Nat /\ 0 .. N \subseteq 0 .. m BY <1>6
  <2>2. 0 .. N # 0 .. m
    <3>1. m \in 0 .. m /\ m \notin 0 .. N BY <1>6
    <3> QED BY <3>1
  <2> QED BY <2>1, <2>2, <1>5 DEF StrictSubsetOrdering
<1>7. \A N \in T : m <= N BY <1>6
<1> QED BY <1>7

(* A quotient is the only number that leaves a remainder below the divisor. *)
LEMMA Quotient ==
  ASSUME NEW N \in Int, NEW p \in Nat, p > 0, NEW q \in Int, NEW r \in Nat, r < p, N = q * p + r
  PROVE  N \div p = q
<1>1. N \div p \in Int /\ N % p \in 0 .. p -1 /\ N = p * (N \div p) + (N % p) OBVIOUS
<1> DEFINE d == N \div p
<1>2. ASSUME d < q PROVE FALSE
  <2>1. (d + 1) * p <= q * p BY <1>1, <1>2
  <2> QED BY <1>1, <2>1
<1>3. ASSUME d > q PROVE FALSE
  <2>1. (q + 1) * p <= d * p BY <1>1, <1>3
  <2> QED BY <1>1, <2>1
<1> QED BY <1>1, <1>2, <1>3

(* To divide by a product is to divide twice. *)
LEMMA DivTwice ==
  ASSUME NEW N \in Nat, NEW a \in Nat, a > 0, NEW b \in Nat, b > 0
  PROVE  N \div (a * b) = (N \div a) \div b
<1> DEFINE q == N \div a
           k == q \div b
<1>1. q \in Int /\ N % a \in 0 .. a -1 /\ N = a * q + (N % a) OBVIOUS
<1>2. k \in Int /\ q % b \in 0 .. b - 1 /\ q = b * k + (q % b) BY <1>1
<1> DEFINE r == a * (q % b) + (N % a)
<1>3. a * b \in Nat /\ a * b > 0 OBVIOUS
<1>4. r \in Nat /\ r < a * b
  <2>1. a * (q % b) <= a * (b - 1) /\ a * (q % b) \in Nat BY <1>2
  <2> QED BY <1>1, <2>1
<1>5. N = k * (a * b) + r
  <2>1. a * q = a * (b * k) + a * (q % b) BY <1>2
  <2> QED BY <1>1, <1>2, <2>1
<1> QED BY <1>2, <1>3, <1>4, <1>5, Quotient

(* What divides what. *)
LEMMA Divides ==
  ASSUME NEW N \in Nat, NEW p \in Nat, p > 0
  PROVE  N % p = 0 <=> \E k \in Nat : N = p * k
<1>1. N \div p \in Int /\ N % p \in 0 .. p - 1 /\ N = p * (N \div p) + (N % p) OBVIOUS
<1>2. ASSUME N % p = 0 PROVE \E k \in Nat : N = p * k
  <2> DEFINE k == N \div p
  <2>1. N = p * k /\ k \in Int BY <1>1, <1>2
  <2>2. k \in Nat
    <3> SUFFICES ASSUME k < 0 PROVE FALSE BY <2>1
    <3>1. p * k <= p * (-1) BY <2>1
    <3> QED BY <2>1, <3>1
  <2> QED BY <2>1, <2>2
<1>3. ASSUME NEW k \in Nat, N = p * k PROVE N % p = 0
  <2>1. N = k * p + 0 BY <1>3
  <2>2. N \div p = k BY <2>1, Quotient
  <2> QED BY <1>1, <1>3, <2>2
<1> QED BY <1>2, <1>3

(* Positions are halved and doubled. *)
LEMMA Position ==
  /\ 1 \in Positions /\ MAX_BITS \in Positions
  /\ \A p \in Positions : /\ p \in Nat /\ p >= 1 /\ p <= MAX_BITS
                          /\ p > 1 => p \div 2 \in Positions /\ p = 2 * (p \div 2)
                          /\ p < MAX_BITS => 2 * p \in Positions
<1>1. MAX_BITS \in Nat /\ MAX_BITS >= 1 BY RadixAssumption
<1>2. 1 \in Positions
  <2>1. MAX_BITS = 1 * MAX_BITS BY <1>1
  <2> QED BY <1>1, <2>1, Divides DEF Positions
<1>3. MAX_BITS \in Positions
  <2>1. MAX_BITS = MAX_BITS * 1 BY <1>1
  <2> QED BY <1>1, <2>1, Divides DEF Positions
<1>4. ASSUME NEW p \in Positions
      PROVE  /\ p \in Nat /\ p >= 1 /\ p <= MAX_BITS
             /\ p > 1 => p \div 2 \in Positions /\ p = 2 * (p \div 2)
             /\ p < MAX_BITS => 2 * p \in Positions
  <2>1. p \in Nat /\ p >= 1 /\ p <= MAX_BITS BY <1>1 DEF Positions
  <2>5. MAX_BITS % p = 0 BY DEF Positions
  <2>2. PICK k \in Nat : MAX_BITS = p * k BY <1>1, <2>1, <2>5, Divides
  <2>3. ASSUME p > 1 PROVE p \div 2 \in Positions /\ p = 2 * (p \div 2)
    <3>1. p % 2 = 0 BY <2>1, <2>3, <2>5, RadixAssumption
    <3>2. PICK h \in Nat : p = 2 * h BY <2>1, <3>1, Divides
    <3>3. p \div 2 = h BY <3>2
    <3>4. h >= 1 /\ h <= MAX_BITS BY <1>1, <2>1, <3>2
    <3>5. MAX_BITS = h * (2 * k) BY <2>2, <3>2
    <3>6. MAX_BITS % h = 0 BY <1>1, <3>4, <3>5, Divides
    <3> QED BY <3>2, <3>3, <3>4, <3>6, <1>1 DEF Positions
  <2>4. ASSUME p < MAX_BITS PROVE 2 * p \in Positions
    <3>1. k > 1
      <4>1. k # 0 /\ k # 1 BY <2>1, <2>2, <2>4
      <4> QED BY <4>1
    <3>2. k <= MAX_BITS BY <2>1, <2>2
    <3>3. MAX_BITS % k = 0
      <4>1. MAX_BITS = k * p BY <2>1, <2>2
      <4> QED BY <1>1, <2>1, <3>1, <4>1, Divides
    <3>4. k % 2 = 0 BY <3>1, <3>2, <3>3, RadixAssumption
    <3>5. PICK h \in Nat : k = 2 * h BY <3>4, Divides
    <3>6. MAX_BITS = (2 * p) * h BY <2>1, <2>2, <3>5
    <3>7. h >= 1 BY <3>1, <3>5
    <3>8. 2 * p <= MAX_BITS BY <2>1, <3>6, <3>7
    <3>9. MAX_BITS % (2 * p) = 0
      <4>1. 2 * p \in Nat /\ 2 * p > 0 BY <2>1
      <4> QED BY <1>1, <3>6, <4>1, Divides
    <3> QED BY <1>1, <2>1, <3>8, <3>9 DEF Positions
  <2> QED BY <2>1, <2>3, <2>4
<1> QED BY <1>2, <1>3, <1>4

(* A position is a multiple of twice any lower one. *)
LEMMA Multiple ==
  ASSUME NEW p \in Positions, NEW q \in Positions, q < p
  PROVE  \E k \in Nat : k >= 1 /\ p = (2 * q) * k
<1> DEFINE T == {r \in Positions : \E s \in Positions : s < r /\ ~\E k \in Nat : k >= 1 /\ r = (2 * s) * k}
<1> SUFFICES ASSUME T # {} PROVE FALSE OBVIOUS
<1>1. T \in SUBSET Nat BY Position
<1>2. PICK r \in T : \A y \in T : r <= y BY <1>1, LeastNumber
<1>3. PICK s \in Positions : s < r /\ ~\E k \in Nat : k >= 1 /\ r = (2 * s) * k OBVIOUS
<1>4. r \in Positions /\ r \in Nat /\ s \in Nat /\ s >= 1 /\ r > 1 BY <1>3, Position
<1>5. PICK h \in Positions : r = 2 * h BY <1>4, Position
<1>6. h \in Nat /\ h >= 1 /\ h < r BY <1>5, Position
<1>7. CASE s = 1 BY <1>3, <1>5, <1>6, <1>7
<1>8. CASE s # 1
  <2>1. PICK j \in Positions : s = 2 * j BY <1>4, <1>8, Position
  <2>2. j \in Nat /\ j < h BY <2>1, <1>3, <1>5, <1>6, Position
  <2>3. h \notin T BY <1>2, <1>6, <1>4
  <2>4. PICK k \in Nat : k >= 1 /\ h = (2 * j) * k BY <2>1, <2>2, <2>3
  <2>5. r = (2 * s) * k BY <2>4, <2>1, <2>2, <1>5
  <2> QED BY <1>3, <2>4, <2>5
<1> QED BY <1>7, <1>8

(* N and m agree above position p. *)
Agree(N, m, p) == N \div (2 * p) = m \div (2 * p)

(* A bit is what a quotient has more than twice the next one. *)
LEMMA Bit ==
  ASSUME NEW N \in Nat, NEW p \in Positions
  PROVE  /\ N \div p \in Nat /\ N \div (2 * p) \in Nat /\ BitAt(N, p) \in {0, 1}
         /\ N \div p = 2 * (N \div (2 * p)) + BitAt(N, p)
<1>1. p \in Nat /\ p > 0 /\ 2 * p = p * 2 BY Position
<1>2. N \div (2 * p) = (N \div p) \div 2 BY <1>1, DivTwice
<1>3. N \div p \in Nat
  <2> DEFINE d == N \div p
  <2>1. d \in Int /\ N % p \in 0 .. p - 1 /\ N = p * d + (N % p) BY <1>1
  <2> SUFFICES ASSUME d < 0 PROVE FALSE BY <2>1
  <2>2. p * d <= p * (-1) BY <1>1, <2>1
  <2> QED BY <1>1, <2>1, <2>2
<1>4. \A d \in Nat : d \div 2 \in Nat /\ d % 2 \in {0, 1} /\ d = 2 * (d \div 2) + (d % 2) OBVIOUS
<1> QED BY <1>2, <1>3, <1>4 DEF BitAt

(* Numbers that agree above a position and at it agree in the quotients by it. *)
LEMMA AgreeAt ==
  ASSUME NEW N \in Nat, NEW m \in Nat, NEW p \in Positions
  PROVE  N \div p = m \div p <=> Agree(N, m, p) /\ Side(N, p) = Side(m, p)
<1>1. Side(N, p) = Side(m, p) <=> BitAt(N, p) = BitAt(m, p) BY Bit DEF Side
<1>2. N \div p = m \div p => N \div (2 * p) = m \div (2 * p) /\ BitAt(N, p) = BitAt(m, p)
  <2> DEFINE a == N \div (2 * p)
             b == m \div (2 * p)
             x == BitAt(N, p)
             y == BitAt(m, p)
  <2>1. a \in Nat /\ b \in Nat /\ x \in {0, 1} /\ y \in {0, 1} BY Bit
  <2>2. N \div p = 2 * a + x /\ m \div p = 2 * b + y BY Bit
  <2> HIDE DEF a, b, x, y
  <2>3. 2 * a + x = 2 * b + y => a = b /\ x = y BY <2>1
  <2> QED BY <2>2, <2>3 DEF a, b, x, y
<1>3. N \div (2 * p) = m \div (2 * p) /\ BitAt(N, p) = BitAt(m, p) => N \div p = m \div p BY Bit
<1> QED BY <1>1, <1>2, <1>3 DEF Agree

(* That is to agree above the next position. *)
LEMMA AgreeNext ==
  ASSUME NEW N \in Nat, NEW m \in Nat, NEW p \in Positions, p > 1
  PROVE  Agree(N, m, p \div 2) <=> Agree(N, m, p) /\ Side(N, p) = Side(m, p)
<1>1. p = 2 * (p \div 2) BY Position
<1> QED BY <1>1, AgreeAt DEF Agree

(* Numbers that agree above a position agree at any higher one and above it. *)
LEMMA AgreeUp ==
  ASSUME NEW N \in Nat, NEW m \in Nat, NEW p \in Positions, NEW q \in Positions, p < q,
         Agree(N, m, p)
  PROVE  Agree(N, m, q) /\ Side(N, q) = Side(m, q)
<1>1. PICK k \in Nat : k >= 1 /\ q = (2 * p) * k BY Multiple
<1>2. 2 * p \in Nat /\ 2 * p > 0 BY Position
<1>3. N \div q = (N \div (2 * p)) \div k /\ m \div q = (m \div (2 * p)) \div k BY <1>1, <1>2, DivTwice
<1>4. N \div q = m \div q BY <1>3 DEF Agree
<1> QED BY <1>4, AgreeAt

(* All numbers agree above the highest position. *)
LEMMA AgreeTop ==
  ASSUME NEW N \in Numbers, NEW m \in Numbers PROVE Agree(N, m, MAX_BITS)
<1>1. MAX_BITS \in Nat /\ 2 * MAX_BITS > 0 /\ 2 * MAX_BITS \in Nat BY RadixAssumption
<1>2. ASSUME NEW l \in Numbers PROVE l \div (2 * MAX_BITS) = 0
  <2>1. l \in Nat /\ l < 2 * MAX_BITS BY <1>1 DEF Numbers
  <2>2. l = 0 * (2 * MAX_BITS) + l BY <1>1, <2>1
  <2> QED BY <1>1, <2>1, <2>2, Quotient
<1> QED BY <1>2 DEF Agree

(* What the positions show at which two numbers differ: with none, they agree above the lower
   bound; with a highest one, above that. *)
LEMMA DiffersShows ==
  ASSUME NEW N \in Nat, NEW m \in Nat, NEW from \in Positions, NEW bot \in Positions, bot <= from,
         Agree(N, m, from), NEW p \in Positions, bot <= p, p <= from,
         \A q \in Differs(N, m, from, bot) : q <= p
  PROVE  Agree(N, m, p)
<1> DEFINE T == {d \in Nat : \E q \in Positions : d = from - q /\ p <= q /\ q <= from /\ ~Agree(N, m, q)}
<1> SUFFICES ASSUME ~Agree(N, m, p) PROVE FALSE OBVIOUS
<1>1. from \in Nat /\ bot \in Nat /\ p \in Nat /\ bot >= 1 /\ p <= MAX_BITS /\ from <= MAX_BITS BY Position
<1>2. T # {}
  <2>1. from - p \in T BY <1>1
  <2> QED BY <2>1
<1>3. PICK d \in T : \A y \in T : d <= y BY <1>2, LeastNumber
<1>4. PICK q \in Positions : d = from - q /\ p <= q /\ q <= from /\ ~Agree(N, m, q) OBVIOUS
<1>5. q \in Nat /\ q >= 1 /\ q # from BY <1>4, Position
<1>6. q < MAX_BITS
  <2>1. q <= from BY <1>4
  <2>2. MAX_BITS \in Nat BY RadixAssumption
  <2> QED BY <1>1, <1>5, <2>1, <2>2
<1> DEFINE r == 2 * q
<1>7. r \in Positions /\ r \in Nat /\ q < r /\ r > 1 /\ r \div 2 = q BY <1>5, <1>6, Position
<1>8. r <= from
  <2> SUFFICES ASSUME from < r PROVE FALSE BY <1>1, <1>7
  <2>1. q < from /\ from \in Positions BY <1>1, <1>4, <1>5
  <2>2. PICK k \in Nat : k >= 1 /\ from = (2 * q) * k BY <2>1, Multiple
  <2>3. (2 * q) * k >= 2 * q BY <1>5, <2>2
  <2> QED BY <1>1, <1>7, <2>2, <2>3
<1>9. Agree(N, m, r)
  <2> SUFFICES ASSUME ~Agree(N, m, r) PROVE FALSE OBVIOUS
  <2>1. from - r \in Nat /\ from - r < d BY <1>1, <1>4, <1>5, <1>7, <1>8
  <2>2. p <= r BY <1>1, <1>4, <1>7
  <2>3. from - r \in T BY <1>7, <1>8, <2>1, <2>2
  <2> QED BY <1>3, <2>1, <2>3
<1>10. Side(N, r) = Side(m, r)
  <2>1. r \notin Differs(N, m, from, bot) BY <1>1, <1>4, <1>5, <1>7
  <2>2. bot < r BY <1>1, <1>4, <1>5, <1>7
  <2>3. BitAt(N, r) = BitAt(m, r) BY <1>7, <1>8, <2>1, <2>2 DEF Differs
  <2> QED BY <2>3 DEF Side
<1> QED BY <1>4, <1>7, <1>9, <1>10, AgreeNext

(* At a position where the numbers differ they are on different sides. *)
LEMMA DiffersSide ==
  ASSUME NEW N \in Nat, NEW m \in Nat, NEW from, NEW bot, NEW p \in Differs(N, m, from, bot)
  PROVE  p \in Positions /\ bot < p /\ p <= from /\ Side(N, p) # Side(m, p)
<1>1. p \in Positions /\ bot < p /\ p <= from /\ BitAt(N, p) # BitAt(m, p) BY DEF Differs
<1>2. BitAt(N, p) \in {0, 1} /\ BitAt(m, p) \in {0, 1} BY <1>1, Bit
<1> QED BY <1>1, <1>2 DEF Side

(* Of two numbers that agree above a position and differ at it, the one on the zero side is
   smaller, and so are all numbers in its leaf. *)
LEMMA ZeroSmaller ==
  ASSUME NEW N \in Nat, NEW m \in Nat, NEW p \in Positions, Agree(N, m, p),
         Side(N, p) = "zero", Side(m, p) = "one"
  PROVE  N < m
<1>1. p \in Nat /\ p > 0 BY Position
<1> DEFINE a == N \div p
           b == m \div p
<1>2. a < b /\ a \in Nat /\ b \in Nat
  <2>1. BitAt(N, p) = 0 /\ BitAt(m, p) = 1 BY Bit DEF Side
  <2>2. N \div (2 * p) = m \div (2 * p) BY DEF Agree
  <2> DEFINE c == N \div (2 * p)
  <2>3. c \in Nat /\ a = 2 * c + 0 /\ b = 2 * c + 1 BY <2>1, <2>2, Bit
  <2> QED BY <2>3
<1>3. N % p \in 0 .. p - 1 /\ N = p * a + (N % p) BY <1>1
<1>4. m % p \in 0 .. p - 1 /\ m = p * b + (m % p) BY <1>1
<1>5. p * (a + 1) <= p * b BY <1>1, <1>2
<1> QED BY <1>1, <1>2, <1>3, <1>4, <1>5

-----------------------------------------------------------------------------
(* A6, the allocator.                                                      *)

\* s is the list of the free blocks.
IsFreeList(h, s) ==
  /\ h.header = IF Len(s) = 0 THEN NULL ELSE s[1]
  /\ \A i \in 1 .. Len(s) : h.word[s[i]] = IF i = Len(s) THEN NULL ELSE s[i + 1]
  /\ \A i, j \in 1 .. Len(s) : s[i] = s[j] => i = j
  /\ \A c \in Blocks(h) : (h.word[c] # Size) <=> \E i \in 1 .. Len(s) : s[i] = c

HeapRecord(B) == [word : [B -> B \cup {NULL, Size}], header : B \cup {NULL}, free_space : Nat \ {0}]

HeapOK(h) == /\ h \in HeapRecord(Blocks(h))
             /\ \E s \in Seq(Blocks(h)) : IsFreeList(h, s)

(* The heap that is empty at the start is in order. *)
LEMMA InitHeap == HeapOK(init_heap) /\ Used(init_heap) = {} /\ Blocks(init_heap) = {}
<1>1. Blocks(init_heap) = {} BY DEF init_heap, Blocks
<1>2. Used(init_heap) = {} BY <1>1 DEF Used
<1>3. init_heap \in HeapRecord({}) BY DEF init_heap, HeapRecord
<1>4. <<>> \in Seq(Blocks(init_heap)) OBVIOUS
<1>5. IsFreeList(init_heap, <<>>) BY <1>1 DEF IsFreeList, init_heap
<1>7. HeapOK(init_heap) BY <1>1, <1>3, <1>4, <1>5 DEF HeapOK
<1> QED BY <1>1, <1>2, <1>7

(* A chunk is cut into free blocks when there are none. *)
LEMMA ChunkFree ==
  ASSUME NEW h, HeapOK(h), h.header = NULL
  PROVE  /\ HeapOK(Chunk(h)) /\ Chunk(h).header # NULL
         /\ Used(Chunk(h)) = Used(h) /\ Blocks(h) \subseteq Blocks(Chunk(h))
<1> DEFINE g == Chunk(h)
           f == h.free_space
           last == f + ChunkCells - 1
           s == [i \in 1 .. ChunkCells |-> f + i - 1]
<1>1. f \in Nat /\ f > 0 /\ ChunkCells \in Nat /\ ChunkCells > 0 /\ Size \notin Nat
  BY HeapAssumption DEF HeapOK, HeapRecord
<1>2. /\ g = [word |-> g.word, header |-> f, free_space |-> last + 1]
      /\ g.word = [c \in 1 .. last |-> IF c < f THEN h.word[c] ELSE IF c = last THEN NULL ELSE c + 1]
  BY DEF Chunk
<1>3. last \in Nat /\ Blocks(g) = 1 .. last /\ Blocks(h) = 1 .. f - 1 /\ last >= f BY <1>1, <1>2 DEF Blocks
<1>4. PICK t \in Seq(Blocks(h)) : IsFreeList(h, t) BY DEF HeapOK
<1>5. ASSUME NEW c \in Blocks(h) PROVE h.word[c] = Size
  <2>1. Len(t) = 0
    <3> SUFFICES ASSUME Len(t) # 0 PROVE FALSE OBVIOUS
    <3>1. t[1] \in Blocks(h) /\ h.header = t[1] BY <1>4 DEF IsFreeList
    <3> QED BY <3>1, <1>3 DEF NULL
  <2> QED BY <1>4, <2>1 DEF IsFreeList
<1>6. ASSUME NEW c \in Blocks(g) PROVE g.word[c] \in Blocks(g) \cup {NULL, Size} /\ (g.word[c] = Size <=> c < f)
  <2>1. CASE c < f
    <3>1. c \in Blocks(h) /\ g.word[c] = h.word[c] BY <1>1, <1>2, <1>3, <2>1
    <3> QED BY <1>5, <2>1, <3>1
  <2>2. CASE ~(c < f)
    <3>1. g.word[c] = IF c = last THEN NULL ELSE c + 1 BY <1>1, <1>2, <1>3, <2>2
    <3> QED BY <1>1, <1>3, <2>2, <3>1 DEF NULL
  <2> QED BY <2>1, <2>2
<1>7. s \in Seq(Blocks(g)) /\ Len(s) = ChunkCells BY <1>1, <1>3
<1>8. IsFreeList(g, s)
  <2>1. g.header = s[1] BY <1>1, <1>2
  <2>2. ASSUME NEW i \in 1 .. Len(s)
        PROVE g.word[s[i]] = IF i = Len(s) THEN NULL ELSE s[i + 1]
    <3>1. s[i] = f + i - 1 /\ s[i] \in 1 .. last /\ ~(s[i] < f) BY <1>1, <1>3, <1>7
    <3>2. \A b \in 1 .. last : ~(b < f) => g.word[b] = IF b = last THEN NULL ELSE b + 1
      <4> HIDE DEF g, f, s
      <4> QED BY <1>2
    <3>4. g.word[s[i]] = IF s[i] = last THEN NULL ELSE s[i] + 1 BY <3>1, <3>2
    <3>3. i # Len(s) => s[i + 1] = f + i BY <1>1, <1>7
    <3>5. i \in Int /\ f \in Int /\ ChunkCells \in Int BY <1>1, <1>7
    <3>6. f + i - 1 = f + ChunkCells - 1 <=> i = ChunkCells BY ONLY <3>5
    <3>7. f + i - 1 + 1 = f + i BY ONLY <3>5
    <3> HIDE DEF g, s
    <3>8. s[i] = last <=> i = Len(s) BY ONLY <1>7, <3>1, <3>6 DEF last
    <3>9. s[i] + 1 = f + i BY ONLY <3>1, <3>7
    <3> QED BY ONLY <3>4, <3>3, <3>8, <3>9
  <2>3. ASSUME NEW i \in 1 .. Len(s), NEW j \in 1 .. Len(s), s[i] = s[j] PROVE i = j
    BY <1>1, <1>7, <2>3
  <2>4. ASSUME NEW c \in Blocks(g) PROVE (g.word[c] # Size) <=> \E i \in 1 .. Len(s) : s[i] = c
    <3>1. ASSUME ~(c < f) PROVE \E i \in 1 .. Len(s) : s[i] = c
      <4>1. c - f + 1 \in 1 .. Len(s) /\ s[c - f + 1] = c BY <1>1, <1>3, <1>7, <3>1
      <4> QED BY <4>1
    <3>2. ASSUME NEW i \in 1 .. Len(s), s[i] = c PROVE ~(c < f) BY <1>1, <1>7, <3>2
    <3> QED BY <1>6, <3>1, <3>2
  <2> HIDE DEF s, g
  <2> QED BY <1>1, <1>7, <2>1, <2>2, <2>3, <2>4 DEF IsFreeList
<1>9. g.word \in [Blocks(g) -> Blocks(g) \cup {NULL, Size}]
  <2>1. g.word = [c \in Blocks(g) |-> g.word[c]] BY <1>2, <1>3
  <2> HIDE DEF g
  <2> QED BY <1>6, <2>1
<1>10. HeapOK(g)
  <2>1. f \in Blocks(g) /\ last + 1 \in Nat \ {0} BY <1>1, <1>3
  <2> HIDE DEF g, s
  <2>2. g \in HeapRecord(Blocks(g))
    <3> HIDE DEF f, last
    <3>1. PICK w, B : w = g.word /\ B = Blocks(g) OBVIOUS
    <3>2. g = [word |-> w, header |-> f, free_space |-> last + 1] BY <1>2, <3>1
    <3>3. w \in [B -> B \cup {NULL, Size}] BY <1>9, <3>1
    <3>4. [word |-> w, header |-> f, free_space |-> last + 1] \in HeapRecord(B)
      BY <2>1, <3>1, <3>3 DEF HeapRecord
    <3> QED BY <3>1, <3>2, <3>4
  <2> QED BY <1>7, <1>8, <2>2 DEF HeapOK
<1>11. Used(g) = Used(h)
  <2>1. \A c \in Blocks(h) : c \in Blocks(g) /\ c < f BY <1>1, <1>3
  <2>2. \A c \in Blocks(g) : c < f => c \in Blocks(h) BY <1>1, <1>3
  <2> HIDE DEF g, s
  <2> QED BY <1>5, <1>6, <2>1, <2>2 DEF Used
<1>12. Blocks(h) \subseteq Blocks(g) BY <1>1, <1>3
<1>13. g.header # NULL BY <1>1, <1>2 DEF NULL
<1> QED BY <1>10, <1>11, <1>12, <1>13

(* allocate: a block that was free is in use now, and no other. *)
LEMMA AllocateUses ==
  ASSUME NEW h, HeapOK(h)
  PROVE  LET a == Allocate(h)
         IN /\ HeapOK(a.heap) /\ a.cell \in Blocks(a.heap) /\ a.cell \notin Used(h)
            /\ Used(a.heap) = Used(h) \cup {a.cell} /\ Blocks(h) \subseteq Blocks(a.heap)
<1> DEFINE g == IF h.header = NULL THEN Chunk(h) ELSE h
           c == g.header
           k == [g EXCEPT !.header = g.word[g.header], !.word[g.header] = Size]
<1>1. HeapOK(g) /\ c # NULL /\ Used(g) = Used(h) /\ Blocks(h) \subseteq Blocks(g) BY ChunkFree
<1>2. Allocate(h).heap = k /\ Allocate(h).cell = c BY DEF Allocate
<1> HIDE DEF g
<1>3. PICK s \in Seq(Blocks(g)) : IsFreeList(g, s) BY <1>1 DEF HeapOK
<1>4. Len(s) > 0 /\ c = s[1] /\ c \in Blocks(g) /\ g.word[c] # Size
  <2>1. Len(s) # 0 /\ Len(s) \in Nat BY <1>1, <1>3 DEF IsFreeList
  <2>2. 1 \in 1 .. Len(s) /\ c = s[1] BY <1>3, <2>1 DEF IsFreeList
  <2> QED BY <1>3, <2>1, <2>2 DEF IsFreeList
<1>5. g \in HeapRecord(Blocks(g)) /\ g.word \in [Blocks(g) -> Blocks(g) \cup {NULL, Size}]
  BY <1>1 DEF HeapOK, HeapRecord
<1>15. g.word[c] \in Blocks(g) \cup {NULL} BY <1>4, <1>5
<1>6. /\ k \in HeapRecord(Blocks(g))
      /\ k.free_space = g.free_space /\ k.header = g.word[c]
      /\ k.word = [g.word EXCEPT ![c] = Size]
  BY <1>4, <1>5, <1>15 DEF HeapRecord
<1>7. Blocks(k) = Blocks(g) BY <1>6 DEF Blocks
<1> HIDE DEF c, k
<1>9. \A b \in Blocks(k) : k.word[b] = IF b = c THEN Size ELSE g.word[b] BY <1>5, <1>6, <1>7
<1> DEFINE t == Tail(s)
<1>10. t \in Seq(Blocks(k)) /\ Len(t) = Len(s) - 1 /\ \A i \in 1 .. Len(t) : t[i] = s[i + 1]
  BY <1>3, <1>4, <1>7
<1>11. IsFreeList(k, t)
  <2> HIDE DEF t
  <2>0. Len(s) \in Nat /\ Len(t) \in Nat BY <1>3, <1>10
  <2>1. k.header = IF Len(t) = 0 THEN NULL ELSE t[1]
    <3>2. 1 \in 1 .. Len(s) BY <1>4, <2>0
    <3>1. g.word[s[1]] = IF 1 = Len(s) THEN NULL ELSE s[1 + 1] BY <1>3, <3>2 DEF IsFreeList
    <3> QED BY <1>4, <1>6, <1>10, <2>0, <3>1
  <2>2. ASSUME NEW i \in 1 .. Len(t) PROVE k.word[t[i]] = IF i = Len(t) THEN NULL ELSE t[i + 1]
    <3>1. i + 1 \in 1 .. Len(s) /\ t[i] = s[i + 1] BY <1>10, <2>0
    <3>2. t[i] # c /\ t[i] \in Blocks(k)
      <4>1. 1 \in 1 .. Len(s) /\ i + 1 # 1 BY <1>4, <2>0
      <4> QED BY <1>3, <1>4, <1>7, <3>1, <4>1 DEF IsFreeList
    <3>3. k.word[t[i]] = g.word[s[i + 1]] BY <1>9, <3>1, <3>2
    <3>4. g.word[s[i + 1]] = IF i + 1 = Len(s) THEN NULL ELSE s[i + 1 + 1] BY <1>3, <3>1 DEF IsFreeList
    <3>5. i # Len(t) => t[i + 1] = s[i + 1 + 1] BY <1>10, <2>0
    <3> QED BY <1>10, <2>0, <3>3, <3>4, <3>5
  <2>3. ASSUME NEW i \in 1 .. Len(t), NEW j \in 1 .. Len(t), t[i] = t[j] PROVE i = j
    <3>1. i + 1 \in 1 .. Len(s) /\ j + 1 \in 1 .. Len(s) /\ s[i + 1] = s[j + 1] BY <1>10, <2>0, <2>3
    <3>2. i + 1 = j + 1 BY <1>3, <3>1 DEF IsFreeList
    <3> QED BY <3>2
  <2>4. ASSUME NEW b \in Blocks(k) PROVE (k.word[b] # Size) <=> \E i \in 1 .. Len(t) : t[i] = b
    <3>1. ASSUME k.word[b] # Size PROVE \E i \in 1 .. Len(t) : t[i] = b
      <4>1. b # c /\ g.word[b] # Size BY <1>9, <3>1
      <4>2. PICK i \in 1 .. Len(s) : s[i] = b BY <1>3, <1>7, <4>1 DEF IsFreeList
      <4>3. i # 1 BY <1>4, <4>1, <4>2
      <4>4. i - 1 \in 1 .. Len(t) /\ t[i - 1] = s[i - 1 + 1] BY <1>10, <2>0, <4>3
      <4>5. i - 1 + 1 = i OBVIOUS
      <4> QED BY <4>2, <4>4, <4>5
    <3>2. ASSUME NEW i \in 1 .. Len(t), t[i] = b PROVE k.word[b] # Size
      <4>1. i + 1 \in 1 .. Len(s) /\ s[i + 1] = b BY <1>10, <2>0, <3>2
      <4>2. g.word[b] # Size BY <1>3, <1>7, <4>1 DEF IsFreeList
      <4>3. b # c
        <5>1. 1 \in 1 .. Len(s) /\ i + 1 # 1 BY <1>4, <2>0
        <5> QED BY <1>3, <1>4, <4>1, <5>1 DEF IsFreeList
      <4> QED BY <1>9, <4>2, <4>3
    <3> QED BY <3>1, <3>2
  <2> QED BY <2>1, <2>2, <2>3, <2>4 DEF IsFreeList
<1>12. HeapOK(k) BY <1>6, <1>7, <1>10, <1>11 DEF HeapOK
<1>13. Used(k) = Used(g) \cup {c} BY <1>4, <1>7, <1>9 DEF Used
<1>14. c \notin Used(h) BY <1>1, <1>4 DEF Used
<1> QED BY <1>1, <1>2, <1>4, <1>7, <1>12, <1>13, <1>14

(* release: a block that was in use is free now, and no other. *)
LEMMA ReleaseFrees ==
  ASSUME NEW h, HeapOK(h), NEW c \in Used(h)
  PROVE  /\ HeapOK(Release(h, c)) /\ Used(Release(h, c)) = Used(h) \ {c}
         /\ Blocks(Release(h, c)) = Blocks(h)
<1> DEFINE k == Release(h, c)
<1>1. PICK s \in Seq(Blocks(h)) : IsFreeList(h, s) BY DEF HeapOK
<1>2. /\ h \in HeapRecord(Blocks(h)) /\ h.word \in [Blocks(h) -> Blocks(h) \cup {NULL, Size}]
      /\ h.header \in Blocks(h) \cup {NULL}
  BY DEF HeapOK, HeapRecord
<1>3. c \in Blocks(h) /\ h.word[c] = Size BY DEF Used
<1>4. /\ k \in HeapRecord(Blocks(h)) /\ k.header = c /\ k.free_space = h.free_space
      /\ k.word = [h.word EXCEPT ![c] = h.header]
  BY <1>2, <1>3 DEF Release, HeapRecord
<1>5. Blocks(k) = Blocks(h) BY <1>4 DEF Blocks
<1>6. h.header \in Blocks(h) \cup {NULL} /\ h.header # Size
  <2>1. h.free_space \in Nat BY <1>2 DEF HeapRecord
  <2>2. Size # NULL /\ \A b \in Blocks(h) : b # Size BY <2>1, HeapAssumption DEF Blocks, NULL
  <2> QED BY <1>2, <2>2
<1> HIDE DEF k
<1>8. \A b \in Blocks(k) : k.word[b] = IF b = c THEN h.header ELSE h.word[b] BY <1>2, <1>4, <1>5
<1> DEFINE t == <<c>> \o s
<1>9. t \in Seq(Blocks(k)) /\ Len(t) = Len(s) + 1 /\ t[1] = c /\ \A i \in 1 .. Len(s) : t[i + 1] = s[i]
  BY <1>1, <1>3, <1>5
<1>10. \A i \in 1 .. Len(s) : s[i] # c BY <1>1, <1>3 DEF IsFreeList
<1>11. IsFreeList(k, t)
  <2> HIDE DEF t
  <2>0. Len(s) \in Nat /\ Len(t) \in Nat /\ Len(t) # 0 BY <1>1, <1>9
  <2>1. k.header = IF Len(t) = 0 THEN NULL ELSE t[1] BY <1>4, <1>9, <2>0
  <2>5. ASSUME NEW i \in 1 .. Len(t), i # 1 PROVE i - 1 \in 1 .. Len(s) /\ t[i] = s[i - 1]
    <3>1. i - 1 \in 1 .. Len(s) /\ i - 1 + 1 = i BY <1>9, <2>0, <2>5
    <3> QED BY <1>9, <3>1
  <2>2. ASSUME NEW i \in 1 .. Len(t) PROVE k.word[t[i]] = IF i = Len(t) THEN NULL ELSE t[i + 1]
    <3>1. CASE i = 1
      <4>1. k.word[t[i]] = h.header BY <1>3, <1>5, <1>8, <1>9, <3>1
      <4>2. h.header = IF Len(s) = 0 THEN NULL ELSE s[1] BY <1>1 DEF IsFreeList
      <4>3. Len(s) # 0 => t[1 + 1] = s[1] BY <1>9, <2>0
      <4> QED BY <1>9, <2>0, <3>1, <4>1, <4>2, <4>3
    <3>2. CASE i # 1
      <4>1. i - 1 \in 1 .. Len(s) /\ t[i] = s[i - 1] BY <2>5, <3>2
      <4>2. t[i] \in Blocks(k) /\ t[i] # c BY <1>1, <1>5, <1>10, <4>1
      <4>3. k.word[t[i]] = h.word[s[i - 1]] BY <1>8, <4>1, <4>2
      <4>4. h.word[s[i - 1]] = IF i - 1 = Len(s) THEN NULL ELSE s[i - 1 + 1] BY <1>1, <4>1 DEF IsFreeList
      <4>5. i # Len(t) => t[i + 1] = s[i - 1 + 1] BY <1>9, <2>0, <4>1
      <4> QED BY <1>9, <2>0, <4>3, <4>4, <4>5
    <3> QED BY <3>1, <3>2
  <2>3. ASSUME NEW i \in 1 .. Len(t), NEW j \in 1 .. Len(t), t[i] = t[j] PROVE i = j
    <3>1. CASE i # 1 /\ j # 1
      <4>1. i - 1 \in 1 .. Len(s) /\ j - 1 \in 1 .. Len(s) /\ s[i - 1] = s[j - 1] BY <2>3, <2>5, <3>1
      <4>2. i - 1 = j - 1 BY <1>1, <4>1 DEF IsFreeList
      <4> QED BY <4>2
    <3>2. CASE i = 1 /\ j # 1
      <4>1. j - 1 \in 1 .. Len(s) /\ t[j] = s[j - 1] BY <2>5, <3>2
      <4> QED BY <1>9, <1>10, <2>3, <3>2, <4>1
    <3>3. CASE j = 1 /\ i # 1
      <4>1. i - 1 \in 1 .. Len(s) /\ t[i] = s[i - 1] BY <2>5, <3>3
      <4> QED BY <1>9, <1>10, <2>3, <3>3, <4>1
    <3> QED BY <3>1, <3>2, <3>3
  <2>4. ASSUME NEW b \in Blocks(k) PROVE (k.word[b] # Size) <=> \E i \in 1 .. Len(t) : t[i] = b
    <3>1. CASE b = c
      <4>1. k.word[b] # Size BY <1>6, <1>8, <3>1
      <4>2. 1 \in 1 .. Len(t) /\ t[1] = b BY <1>9, <2>0, <3>1
      <4> QED BY <4>1, <4>2
    <3>2. CASE b # c
      <4>1. (k.word[b] # Size) <=> \E i \in 1 .. Len(s) : s[i] = b BY <1>1, <1>5, <1>8, <3>2 DEF IsFreeList
      <4>2. ASSUME NEW i \in 1 .. Len(s), s[i] = b PROVE \E j \in 1 .. Len(t) : t[j] = b
        <5>1. i + 1 \in 1 .. Len(t) /\ t[i + 1] = b BY <1>9, <2>0, <4>2
        <5> QED BY <5>1
      <4>3. ASSUME NEW i \in 1 .. Len(t), t[i] = b PROVE \E j \in 1 .. Len(s) : s[j] = b
        <5>1. i # 1 BY <1>9, <3>2, <4>3
        <5> QED BY <2>5, <4>3, <5>1
      <4> QED BY <4>1, <4>2, <4>3
    <3> QED BY <3>1, <3>2
  <2> QED BY <2>1, <2>2, <2>3, <2>4 DEF IsFreeList
<1>12. HeapOK(k)
  BY <1>4, <1>5, <1>9, <1>11 DEF HeapOK
<1>13. Used(k) = Used(h) \ {c} BY <1>3, <1>5, <1>6, <1>8 DEF Used
<1> QED BY <1>5, <1>12, <1>13 DEF k

\* f goes from the header along the free blocks.
Steps(f, h) ==
  f = [k \in 0 .. h.free_space |->
         IF k = 0 THEN h.header
         ELSE IF f[k - 1] \in Blocks(h) \ Used(h) THEN h.word[f[k - 1]] ELSE NULL]

(* The list of a heap in order ends, and on it are all blocks that are not in use. *)
LEMMA ListIsOK == ASSUME NEW h, HeapOK(h) PROVE ListOK(h)
<1> DEFINE N == h.free_space
           free == CHOOSE f : Steps(f, h)
<1>1. PICK s \in Seq(Blocks(h)) : IsFreeList(h, s) BY DEF HeapOK
<1>2. N \in Nat /\ N > 0 /\ Blocks(h) = 1 .. N - 1 BY DEF HeapOK, HeapRecord, Blocks
<1>3. FreeAt(h) = free BY DEF FreeAt, Steps
<1>4. Len(s) \in Nat /\ \A i \in 1 .. Len(s) : s[i] \in Blocks(h) \ Used(h)
  <2>1. ASSUME NEW i \in 1 .. Len(s) PROVE s[i] \in Blocks(h) \ Used(h)
    <3>1. s[i] \in Blocks(h) BY <1>1
    <3>2. h.word[s[i]] # Size BY <1>1, <3>1 DEF IsFreeList
    <3> QED BY <3>1, <3>2 DEF Used
  <2> QED BY <1>1, <2>1
<1>5. NULL \notin Blocks(h) BY <1>2 DEF NULL
<1>6. Len(s) < N
  <2>1. s \in Injection(1 .. Len(s), Blocks(h))
    <3>1. s \in [1 .. Len(s) -> Blocks(h)] BY <1>1
    <3>2. \A i, j \in 1 .. Len(s) : s[i] = s[j] => i = j BY <1>1 DEF IsFreeList
    <3>3. DOMAIN s = 1 .. Len(s) BY <3>1
    <3>4. IsInjective(s) BY <3>2, <3>3 DEF IsInjective
    <3> QED BY <3>1, <3>4 DEF Injection
  <2>2. IsFiniteSet(Blocks(h)) /\ Cardinality(Blocks(h)) = N - 1
    <3> DEFINE m == N - 1
    <3>1. m \in Int /\ (m = 0 \/ m >= 1) BY <1>2
    <3>2. IsFiniteSet(1 .. m) /\ Cardinality(1 .. m) = IF 1 > m THEN 0 ELSE m - 1 + 1
      <4> HIDE DEF m
      <4> QED BY <3>1, FS_Interval
    <3> QED BY <1>2, <3>1, <3>2
  <2>3. Cardinality(1 .. Len(s)) <= Cardinality(Blocks(h)) BY <2>1, <2>2, FS_Injection
  <2>4. Cardinality(1 .. Len(s)) = IF 1 > Len(s) THEN 0 ELSE Len(s) - 1 + 1
    <3>1. PICK l : l = Len(s) OBVIOUS
    <3>2. 1 \in Int /\ l \in Int BY <1>4, <3>1
    <3>3. Cardinality(1 .. l) = IF 1 > l THEN 0 ELSE l - 1 + 1 BY ONLY <3>2, FS_Interval
    <3> QED BY ONLY <3>1, <3>3
  <2> QED BY <1>2, <1>4, <2>2, <2>3, <2>4
<1> DEFINE f == [k \in 0 .. N |-> IF k < Len(s) THEN s[k + 1] ELSE NULL]
<1>7. Steps(f, h)
  <2>1. ASSUME NEW k \in 0 .. N
        PROVE  f[k] = IF k = 0 THEN h.header
                      ELSE IF f[k - 1] \in Blocks(h) \ Used(h) THEN h.word[f[k - 1]] ELSE NULL
    <3>1. CASE k = 0
      <4>1. f[0] = IF Len(s) = 0 THEN NULL ELSE s[1] BY <1>2, <1>4
      <4> QED BY <1>1, <3>1, <4>1 DEF IsFreeList
    <3>2. CASE k # 0 /\ k - 1 < Len(s)
      <4>1. k - 1 \in 0 .. N /\ k \in 1 .. Len(s) BY <1>2, <1>4, <3>2
      <4>2. f[k - 1] = s[k] BY <1>2, <3>2, <4>1
      <4>3. h.word[s[k]] = IF k = Len(s) THEN NULL ELSE s[k + 1] BY <1>1, <4>1 DEF IsFreeList
      <4>4. f[k] = IF k < Len(s) THEN s[k + 1] ELSE NULL OBVIOUS
      <4>5. s[k] \in Blocks(h) \ Used(h) BY <1>4, <4>1
      <4> HIDE DEF f
      <4> QED BY <1>4, <3>2, <4>1, <4>2, <4>3, <4>4, <4>5
    <3>3. CASE k # 0 /\ ~(k - 1 < Len(s))
      <4>1. k - 1 \in 0 .. N /\ ~(k < Len(s)) BY <1>2, <1>4, <3>3
      <4>2. f[k - 1] = NULL /\ f[k] = NULL BY <1>4, <3>3, <4>1
      <4> HIDE DEF f
      <4> QED BY <1>5, <3>3, <4>2
    <3> QED BY <3>1, <3>2, <3>3
  <2> DEFINE next(k) == IF k = 0 THEN h.header
                        ELSE IF f[k - 1] \in Blocks(h) \ Used(h) THEN h.word[f[k - 1]] ELSE NULL
  <2>2. f = [k \in 0 .. N |-> f[k]] OBVIOUS
  <2> HIDE DEF f
  <2>3. \A k \in 0 .. N : f[k] = next(k) BY <2>1
  <2> HIDE DEF next
  <2>4. f = [k \in 0 .. N |-> next(k)] BY <2>2, <2>3
  <2> QED BY <2>4 DEF Steps, next
<1>8. Steps(free, h) BY <1>7
<1> HIDE DEF free, f
<1>9. ASSUME NEW k \in 0 .. N PROVE free[k] = f[k]
  <2> DEFINE T == {i \in Nat : i <= N /\ free[i] # f[i]}
  <2> SUFFICES ASSUME T # {} PROVE FALSE BY <1>2
  <2>1. PICK i \in T : \A j \in T : i <= j BY LeastNumber
  <2>2. i \in 0 .. N /\ free[i] # f[i] BY <1>2
  <2>3. CASE i = 0 BY <1>7, <1>8, <2>2, <2>3 DEF Steps
  <2>4. CASE i # 0
    <3>1. i - 1 \in Nat /\ i - 1 <= N /\ i - 1 < i BY <1>2, <2>2, <2>4
    <3>2. free[i - 1] = f[i - 1] BY <2>1, <3>1
    <3>3. free[i] = IF free[i - 1] \in Blocks(h) \ Used(h) THEN h.word[free[i - 1]] ELSE NULL
      BY <1>8, <2>2, <2>4 DEF Steps
    <3>4. f[i] = IF f[i - 1] \in Blocks(h) \ Used(h) THEN h.word[f[i - 1]] ELSE NULL
      BY <1>7, <2>2, <2>4 DEF Steps
    <3> QED BY <2>2, <3>2, <3>3, <3>4
  <2> QED BY <2>3, <2>4
<1>10. \A k \in 0 .. N : f[k] = IF k < Len(s) THEN s[k + 1] ELSE NULL BY DEF f
<1>11. free[N] = NULL BY <1>2, <1>4, <1>6, <1>9, <1>10
<1>12. {free[k] : k \in 0 .. N} \ {NULL} = Blocks(h) \ Used(h)
  <2>1. ASSUME NEW k \in 0 .. N, free[k] # NULL PROVE free[k] \in Blocks(h) \ Used(h)
    <3>1. k < Len(s) /\ free[k] = s[k + 1] BY <1>9, <1>10, <2>1
    <3>2. k + 1 \in 1 .. Len(s) BY <1>4, <3>1
    <3> QED BY <1>4, <3>1, <3>2
  <2>2. ASSUME NEW c \in Blocks(h) \ Used(h) PROVE c # NULL /\ \E k \in 0 .. N : free[k] = c
    <3>1. h.word[c] # Size BY DEF Used
    <3>2. PICK i \in 1 .. Len(s) : s[i] = c BY <1>1, <3>1 DEF IsFreeList
    <3>3. i - 1 \in 0 .. N /\ i - 1 < Len(s) /\ i - 1 + 1 = i BY <1>2, <1>4, <1>6
    <3>4. free[i - 1] = c BY <1>9, <1>10, <3>2, <3>3
    <3> QED BY <1>5, <3>3, <3>4
  <2> QED BY <2>1, <2>2
<1> QED BY <1>3, <1>11, <1>12 DEF ListOK

-----------------------------------------------------------------------------
(* A6, the tree.                                                           *)

NodesOK(m) == /\ m \in [heap : {m.heap}, node : {m.node}, tree : {m.tree}] /\ HeapOK(m.heap)
              /\ Used(m.heap) \subseteq DOMAIN m.node /\ DOMAIN m.node \subseteq Blocks(m.heap)
              /\ m.node \in [DOMAIN m.node -> NodeRecord]
              /\ \A place \in Places(m) : Pointed(m, place) \in DOMAIN m.node \cup {NULL}

\* The part of WellFormed that holds at every step.
Shaped(m) ==
  /\ \A place \in Places(m), d \in Used(m.heap) :
       Through(m, place, m.node[d]) =>
         Pointed(m, place) # NULL /\ Covers(m.node[Pointed(m, place)], m.node[d])
  /\ \A place \in Places(m) :
       Pointed(m, place) # NULL => Through(m, place, m.node[Pointed(m, place)])
  /\ \A c, d \in Used(m.heap) :
       Covers(m.node[c], m.node[d]) /\ Covers(m.node[d], m.node[c]) => c = d

\* What the lemmas on covering need of a node, or of a number that is to be one.
IsNode(a) == a.bit_pos \in Positions /\ a.number \in Nat

(* The nodes and the places of a memory in order. *)
LEMMA NodeIs ==
  ASSUME NEW m, NodesOK(m), NEW c \in DOMAIN m.node
  PROVE  /\ IsNode(m.node[c]) /\ m.node[c] \in NodeRecord /\ m.node[c].number \in Numbers
         /\ c # NULL /\ m.node[c].zero \in Nat /\ m.node[c].one \in Nat
<1>1. m.node[c] \in NodeRecord BY DEF NodesOK
<1>2. \A N \in Numbers : N \in Nat BY RadixAssumption DEF Numbers
<1>3. c \in Blocks(m.heap) /\ m.heap.free_space \in Nat BY DEF NodesOK, HeapOK, HeapRecord
<1>4. c # NULL BY <1>3 DEF Blocks, NULL
<1> QED BY <1>1, <1>2, <1>4 DEF NodeRecord, IsNode

(* A place is the root or a side of an interior node in use. *)
LEMMA PlaceIs ==
  ASSUME NEW m, NodesOK(m), NEW q \in Places(m)
  PROVE  \/ q = Root
         \/ /\ q # Root /\ q = <<q[1], q[2]>> /\ q[1] \in Used(m.heap) /\ q[1] \in DOMAIN m.node
            /\ m.node[q[1]].bit_pos > 1 /\ q[2] \in {"zero", "one"}
<1>1. \A a, b : Root # <<a, b>> BY DEF Root
<1>2. CASE q # Root
  <2>1. PICK c \in Interior(m), s \in {"zero", "one"} : q = <<c, s>> BY <1>2 DEF Places
  <2>2. q[1] = c /\ q[2] = s BY <2>1
  <2>3. c \in Used(m.heap) /\ c \in DOMAIN m.node /\ m.node[c].bit_pos # 1 BY DEF Interior, IsLeaf, NodesOK
  <2>4. m.node[c].bit_pos >= 1 /\ m.node[c].bit_pos \in Nat BY <2>3, NodeIs, Position DEF IsNode
  <2>5. q = <<q[1], q[2]>> BY <2>1, <2>2
  <2>6. m.node[c].bit_pos > 1 BY <2>3, <2>4
  <2> QED BY <1>2, <2>2, <2>3, <2>5, <2>6
<1> QED BY <1>2

\* A side of a node is one of the places that can point to a node, and not the first of them.
PlaceOf(m, c, s) == <<c, s>> \in Places(m) /\ <<c, s>> # Root /\ <<c, s>>[1] = c /\ <<c, s>>[2] = s

(* A side of an interior node in use is a place. *)
LEMMA IsPlace ==
  ASSUME NEW m, NEW c \in Used(m.heap), m.node[c].bit_pos # 1, NEW s \in {"zero", "one"}
  PROVE  PlaceOf(m, c, s)
<1>1. <<c, s>> # Root BY DEF Root
<1> QED BY <1>1 DEF PlaceOf, Places, Interior, IsLeaf

(* A number is on one of two sides. *)
LEMMA SideIs == \A N, p : Side(N, p) \in {"zero", "one"} BY DEF Side

(* A node covers itself and what is covered by a node it covers. *)
LEMMA CoversSelf == ASSUME NEW a, IsNode(a) PROVE Covers(a, a)
BY Position DEF Covers, IsNode

LEMMA CoversTrans ==
  ASSUME NEW a, NEW b, NEW c, IsNode(a), IsNode(b), IsNode(c), Covers(a, b), Covers(b, c)
  PROVE  Covers(a, c)
<1>1. a.bit_pos \in Nat /\ b.bit_pos \in Nat /\ c.bit_pos \in Nat BY Position DEF IsNode
<1>2. Agree(c.number, b.number, b.bit_pos) /\ Agree(b.number, a.number, a.bit_pos) BY DEF Covers, Agree
<1>3. Agree(c.number, b.number, a.bit_pos)
  <2>1. CASE a.bit_pos = b.bit_pos BY <1>2, <2>1
  <2>2. CASE a.bit_pos # b.bit_pos
    <3>1. b.bit_pos < a.bit_pos BY <1>1, <2>2 DEF Covers
    <3> QED BY <1>2, <3>1, AgreeUp DEF IsNode
  <2> QED BY <2>1, <2>2
<1> QED BY <1>1, <1>2, <1>3 DEF Covers, Agree

(* Two nodes that cover the same one are one below the other. *)
LEMMA Nested ==
  ASSUME NEW a, NEW b, NEW c, IsNode(a), IsNode(b), IsNode(c), Covers(a, c), Covers(b, c),
         b.bit_pos <= a.bit_pos
  PROVE  Covers(a, b)
<1>1. a.bit_pos \in Nat /\ b.bit_pos \in Nat BY Position DEF IsNode
<1>2. Agree(c.number, b.number, b.bit_pos) /\ Agree(c.number, a.number, a.bit_pos) BY DEF Covers, Agree
<1>3. Agree(c.number, b.number, a.bit_pos)
  <2>1. CASE a.bit_pos = b.bit_pos BY <1>2, <2>1
  <2>2. CASE a.bit_pos # b.bit_pos
    <3>1. b.bit_pos < a.bit_pos BY <1>1, <2>2
    <3> QED BY <1>2, <3>1, AgreeUp DEF IsNode
  <2> QED BY <2>1, <2>2
<1> QED BY <1>2, <1>3 DEF Covers, Agree

(* What a node covers is on its side of every higher position. *)
LEMMA SideBelow ==
  ASSUME NEW b, NEW c, IsNode(b), IsNode(c), Covers(b, c), NEW p \in Positions, b.bit_pos < p
  PROVE  Side(b.number, p) = Side(c.number, p)
<1>1. Agree(c.number, b.number, b.bit_pos) BY DEF Covers, Agree
<1> QED BY <1>1, AgreeUp DEF IsNode

(* Nodes that cover each other have the same position and the same numbers. *)
LEMMA CoversBoth ==
  ASSUME NEW a, NEW b, IsNode(a), IsNode(b), Covers(a, b)
  PROVE  Covers(b, a) <=> a.bit_pos = b.bit_pos
<1>1. a.bit_pos \in Nat /\ b.bit_pos \in Nat BY Position DEF IsNode
<1> QED BY <1>1 DEF Covers

(* The search that goes through a place for a node goes there for all that the node covers. *)
LEMMA ThroughBelow ==
  ASSUME NEW m, NodesOK(m), NEW q \in Places(m), NEW b, NEW c, IsNode(b), IsNode(c),
         Through(m, q, b), Covers(b, c)
  PROVE  Through(m, q, c)
<1> SUFFICES ASSUME q # Root
             PROVE LET a == m.node[q[1]]
                   IN Covers(a, c) /\ c.bit_pos < a.bit_pos /\ Side(c.number, a.bit_pos) = q[2]
  BY DEF Through
<1> DEFINE a == m.node[q[1]]
<1>1. IsNode(a) BY PlaceIs, NodeIs
<1>2. Covers(a, b) /\ b.bit_pos < a.bit_pos /\ Side(b.number, a.bit_pos) = q[2] BY DEF Through
<1>3. Covers(a, c) BY <1>1, <1>2, CoversTrans
<1>4. c.bit_pos <= b.bit_pos BY DEF Covers
<1>5. a.bit_pos \in Nat /\ b.bit_pos \in Nat /\ c.bit_pos \in Nat /\ a.bit_pos \in Positions
  BY <1>1, Position DEF IsNode
<1>6. Side(c.number, a.bit_pos) = q[2] BY <1>1, <1>2, <1>5, SideBelow
<1> HIDE DEF a
<1> QED BY <1>2, <1>3, <1>4, <1>5, <1>6 DEF a

(* Of two places that the search for a node goes through, it goes through one for the node that
   the other belongs to. *)
LEMMA Comparable ==
  ASSUME NEW m, NodesOK(m), Shaped(m), NEW q \in Places(m), NEW r \in Places(m), q # r,
         NEW b, IsNode(b), Through(m, q, b), Through(m, r, b)
  PROVE  \/ r # Root /\ Through(m, q, m.node[r[1]])
         \/ q # Root /\ Through(m, r, m.node[q[1]])
<1>1. CASE q = Root \/ r = Root BY <1>1 DEF Through
<1>2. CASE q # Root /\ r # Root
  <2> DEFINE x == m.node[q[1]]
             y == m.node[r[1]]
  <2>1. /\ q = <<q[1], q[2]>> /\ r = <<r[1], r[2]>> /\ IsNode(x) /\ IsNode(y)
        /\ q[1] \in Used(m.heap) /\ r[1] \in Used(m.heap)
    BY <1>2, PlaceIs, NodeIs
  <2>2. /\ Covers(x, b) /\ b.bit_pos < x.bit_pos /\ Side(b.number, x.bit_pos) = q[2]
        /\ Covers(y, b) /\ b.bit_pos < y.bit_pos /\ Side(b.number, y.bit_pos) = r[2]
    BY <1>2 DEF Through
  <2>3. x.bit_pos \in Nat /\ y.bit_pos \in Nat /\ x.bit_pos \in Positions /\ y.bit_pos \in Positions
    BY <2>1, Position DEF IsNode
  <2>4. CASE x.bit_pos = y.bit_pos
    <3>1. Covers(x, y) /\ Covers(y, x) BY <2>1, <2>2, <2>3, <2>4, Nested
    <3>2. q[1] = r[1] BY <2>1, <3>1 DEF Shaped
    <3>3. q[2] = r[2] BY <2>2, <2>4
    <3> QED BY <2>1, <3>2, <3>3
  <2>5. CASE y.bit_pos < x.bit_pos
    <3>1. Covers(x, y) BY <2>1, <2>2, <2>3, <2>5, Nested
    <3>2. Side(y.number, x.bit_pos) = q[2] BY <2>1, <2>2, <2>3, <2>5, SideBelow
    <3> QED BY <1>2, <2>5, <3>1, <3>2 DEF Through
  <2>6. CASE x.bit_pos < y.bit_pos
    <3>1. Covers(y, x) BY <2>1, <2>2, <2>3, <2>6, Nested
    <3>2. Side(x.number, y.bit_pos) = r[2] BY <2>1, <2>2, <2>3, <2>6, SideBelow
    <3> QED BY <1>2, <2>6, <3>1, <3>2 DEF Through
  <2> HIDE DEF x, y
  <2> QED BY <2>3, <2>4, <2>5, <2>6
<1> QED BY <1>1, <1>2

(* No two places point to the same node. *)
LEMMA PointedOnce ==
  ASSUME NEW m, NodesOK(m), Shaped(m), NEW q \in Places(m), NEW r \in Places(m),
         Pointed(m, q) = Pointed(m, r), Pointed(m, q) # NULL
  PROVE  q = r
<1> SUFFICES ASSUME q # r PROVE FALSE OBVIOUS
<1> DEFINE d == Pointed(m, q)
           b == m.node[d]
<1>1. d \in DOMAIN m.node /\ IsNode(b) BY NodeIs DEF NodesOK
<1>2. Through(m, q, b) /\ Through(m, r, b) BY DEF Shaped
<1>3. ASSUME NEW s \in {q, r}, NEW t \in Places(m), t # Root, Through(m, s, m.node[t[1]]), Through(m, t, b)
      PROVE  FALSE
  <2>1. t[1] \in Used(m.heap) /\ IsNode(m.node[t[1]]) BY <1>3, PlaceIs, NodeIs
  <2>2. Covers(b, m.node[t[1]]) BY <1>3, <2>1 DEF Shaped
  <2>3. b.bit_pos < m.node[t[1]].bit_pos BY <1>3 DEF Through
  <2>4. m.node[t[1]].bit_pos <= b.bit_pos BY <2>2 DEF Covers
  <2>5. m.node[t[1]].bit_pos \in Nat /\ b.bit_pos \in Nat BY <1>1, <2>1, Position DEF IsNode
  <2> HIDE DEF b
  <2> QED BY <2>3, <2>4, <2>5
<1> HIDE DEF b
<1> QED BY <1>1, <1>2, <1>3, Comparable

(* A node with another number or pointer in a field. *)
LEMMA FieldSet ==
  ASSUME NEW a \in NodeRecord, NEW s \in {"zero", "one"}, NEW v \in Nat
  PROVE  LET b == [a EXCEPT ![s] = v]
         IN /\ b \in NodeRecord /\ b[s] = v /\ b.bit_pos = a.bit_pos /\ b.number = a.number
            /\ \A t \in {"zero", "one"} : t # s => b[t] = a[t]
<1>1. CASE s = "zero" BY <1>1 DEF NodeRecord
<1>2. CASE s = "one" BY <1>2 DEF NodeRecord
<1> QED BY <1>1, <1>2

\* The memory m2 is m with place pointing to c and the fields of the nodes unchanged otherwise.
PointsTo(m, m2, place, c) ==
  /\ \A q \in Places(m) : Pointed(m2, q) = IF q = place THEN c ELSE Pointed(m, q)
  /\ \A x \in Used(m.heap) : /\ m2.node[x].bit_pos = m.node[x].bit_pos /\ m2.node[x].number = m.node[x].number
                             /\ m.node[x].bit_pos = 1 => m2.node[x] = m.node[x]

Typed(m) == /\ m \in [heap : {m.heap}, node : {m.node}, tree : {m.tree}]
            /\ Used(m.heap) \subseteq DOMAIN m.node /\ m.node \in [DOMAIN m.node -> NodeRecord]

\* The memory m2 is m with place pointing to c, and all else unchanged.
OnlyPointed(m, m2, place, c) ==
  /\ Typed(m2) /\ m2.heap = m.heap /\ DOMAIN m2.node = DOMAIN m.node /\ Places(m2) = Places(m)
  /\ \A q \in Places(m) : Pointed(m2, q) = IF q = place THEN c ELSE Pointed(m, q)
  /\ \A x \in DOMAIN m.node :
       /\ m2.node[x].bit_pos = m.node[x].bit_pos /\ m2.node[x].number = m.node[x].number
       /\ (x \notin Interior(m) => m2.node[x] = m.node[x])

(* A place is made to point to another node. *)
LEMMA PointChanges ==
  ASSUME NEW m, Typed(m), NEW place \in Places(m), NEW c \in Nat
  PROVE  OnlyPointed(m, Point(m, place, c), place, c)
<1> DEFINE m2 == Point(m, place, c)
           B == Interior(m)
<1>0. /\ m \in [heap : {m.heap}, node : {m.node}, tree : {m.tree}]
      /\ Used(m.heap) \subseteq DOMAIN m.node /\ m.node \in [DOMAIN m.node -> NodeRecord]
      /\ B \subseteq DOMAIN m.node
  BY DEF Typed, Interior
<1>1. \A a, b : Root # <<a, b>> BY DEF Root
<1>2. Places(m) = {Root} \cup (B \X {"zero", "one"}) BY DEF Places
<1> HIDE DEF B
<1>3. CASE place = Root
  <2>1. m2 = [m EXCEPT !.tree = c] BY <1>3 DEF Point
  <2>2. /\ m2 \in [heap : {m2.heap}, node : {m2.node}, tree : {m2.tree}]
        /\ m2.heap = m.heap /\ m2.node = m.node /\ m2.tree = c BY <1>0, <2>1
  <2> HIDE DEF m2
  <2>3. Places(m2) = Places(m) BY <2>2 DEF Places, Interior, IsLeaf
  <2>4. \A q \in Places(m) : Pointed(m2, q) = IF q = place THEN c ELSE Pointed(m, q)
    BY <2>2, <1>3 DEF Pointed
  <2> QED BY <1>0, <2>2, <2>3, <2>4 DEF OnlyPointed, Typed, m2
<1>4. CASE place # Root
  <2>1. PICK x \in B, s \in {"zero", "one"} : place = <<x, s>> BY <1>2, <1>4
  <2>2. place[1] = x /\ place[2] = s /\ x \in DOMAIN m.node /\ m.node[x] \in NodeRecord BY <1>0, <2>1
  <2> DEFINE a == [m.node[x] EXCEPT ![s] = c]
  <2>3. /\ a \in NodeRecord /\ a[s] = c /\ a.bit_pos = m.node[x].bit_pos /\ a.number = m.node[x].number
        /\ \A t \in {"zero", "one"} : t # s => a[t] = m.node[x][t]
    BY <2>2, FieldSet
  <2>4. m2 = [m EXCEPT !.node = [m.node EXCEPT ![x] = a]] BY <1>4, <2>2 DEF Point
  <2> HIDE DEF a
  <2>5. /\ m2 \in [heap : {m2.heap}, node : {m2.node}, tree : {m2.tree}]
        /\ m2.heap = m.heap /\ m2.tree = m.tree /\ m2.node = [m.node EXCEPT ![x] = a] BY <1>0, <2>4
  <2> HIDE DEF m2
  <2>6. /\ DOMAIN m2.node = DOMAIN m.node /\ m2.node[x] = a
        /\ \A y \in DOMAIN m.node : y # x => m2.node[y] = m.node[y]
    BY <1>0, <2>2, <2>5
  <2>7. m2.node \in [DOMAIN m2.node -> NodeRecord] BY <1>0, <2>2, <2>3, <2>5
  <2>8. \A y \in DOMAIN m.node :
          /\ m2.node[y].bit_pos = m.node[y].bit_pos /\ m2.node[y].number = m.node[y].number
          /\ (y \notin B => m2.node[y] = m.node[y])
    BY <2>1, <2>3, <2>6
  <2>9. Places(m2) = Places(m) BY <1>0, <2>5, <2>8 DEF Places, Interior, IsLeaf
  <2>10. ASSUME NEW q \in Places(m) PROVE Pointed(m2, q) = IF q = place THEN c ELSE Pointed(m, q)
    <3>1. CASE q = Root BY <1>4, <2>5, <3>1 DEF Pointed
    <3>2. CASE q # Root
      <4>1. PICK y \in B, t \in {"zero", "one"} : q = <<y, t>> BY <1>2, <3>2
      <4>2. q[1] = y /\ q[2] = t /\ y \in DOMAIN m.node BY <1>0, <4>1
      <4>3. Pointed(m2, q) = m2.node[y][t] /\ Pointed(m, q) = m.node[y][t] BY <3>2, <4>2 DEF Pointed
      <4>4. q = place <=> (y = x /\ t = s) BY <2>1, <4>1
      <4> QED BY <2>3, <2>6, <4>2, <4>3, <4>4
    <3> QED BY <3>1, <3>2
  <2>11. Typed(m2) BY <1>0, <2>5, <2>6, <2>7 DEF Typed
  <2> QED BY <2>5, <2>6, <2>8, <2>9, <2>10, <2>11 DEF OnlyPointed, B, m2
<1> QED BY <1>3, <1>4

\* The memory m2 is m with a new node c at place: the only new block in use, which its place points to.
NewAt(m, m2, place, v, c) ==
  /\ m2 = NewNode(m, place, v) /\ NodesOK(m2) /\ c \notin Used(m.heap) /\ c # NULL
  /\ Used(m2.heap) = Used(m.heap) \cup {c} /\ DOMAIN m2.node = DOMAIN m.node \cup {c}
  /\ m2.node[c] = v /\ Pointed(m2, place) = c /\ PointsTo(m, m2, place, c)
  /\ Places(m2) = Places(m) \cup (IF v.bit_pos = 1 THEN {} ELSE {<<c, "zero">>, <<c, "one">>})

(* A new node is made. *)
LEMMA NewNodeIs ==
  ASSUME NEW m, NodesOK(m), NEW place \in Places(m), NEW v \in NodeRecord,
         v.bit_pos = 1 \/ (v.zero \in DOMAIN m.node \cup {NULL} /\ v.one \in DOMAIN m.node \cup {NULL})
  PROVE  \E m2, c : NewAt(m, m2, place, v, c)
<1> DEFINE a == Allocate(m.heap)
           c == a.cell
           k == [m EXCEPT !.heap = a.heap,
                          !.node = [x \in DOMAIN @ \cup {c} |-> IF x = c THEN v ELSE @[x]]]
           m2 == Point(k, place, c)
<1>1. m2 = NewNode(m, place, v) BY DEF NewNode
<1>2. /\ HeapOK(a.heap) /\ c \in Blocks(a.heap) /\ c \notin Used(m.heap)
      /\ Used(a.heap) = Used(m.heap) \cup {c} /\ Blocks(m.heap) \subseteq Blocks(a.heap)
  BY AllocateUses DEF NodesOK
<1>3. c \in Nat /\ c # NULL
  <2>1. a.heap.free_space \in Nat BY <1>2 DEF HeapOK, HeapRecord
  <2> QED BY <1>2, <2>1 DEF Blocks, NULL
<1> HIDE DEF a, c
<1> DEFINE cells == [x \in DOMAIN m.node \cup {c} |-> IF x = c THEN v ELSE m.node[x]]
<1>4. k = [m EXCEPT !.heap = a.heap, !.node = cells] OBVIOUS
<1>5. /\ k \in [heap : {k.heap}, node : {k.node}, tree : {k.tree}]
      /\ k.heap = a.heap /\ k.node = cells /\ k.tree = m.tree
  <2> HIDE DEF cells
  <2> QED BY <1>4 DEF NodesOK
<1> HIDE DEF k
<1>6. /\ DOMAIN k.node = DOMAIN m.node \cup {c} /\ k.node[c] = v
      /\ \A x \in DOMAIN m.node : x # c => k.node[x] = m.node[x]
  BY <1>5
<1>7. k.node \in [DOMAIN k.node -> NodeRecord] BY <1>6, <1>5 DEF NodesOK
<1>8. Used(m.heap) \subseteq DOMAIN m.node /\ Used(k.heap) = Used(m.heap) \cup {c}
      /\ Used(k.heap) \subseteq DOMAIN k.node BY <1>2, <1>5, <1>6 DEF NodesOK
<1>9. Places(k) = Places(m) \cup (IF v.bit_pos = 1 THEN {} ELSE {<<c, "zero">>, <<c, "one">>})
  <2>1. \A x \in Used(m.heap) : x # c /\ k.node[x] = m.node[x] BY <1>2, <1>6, <1>8
  <2>2. Interior(k) = Interior(m) \cup (IF v.bit_pos = 1 THEN {} ELSE {c})
    BY <1>6, <1>8, <2>1 DEF Interior, IsLeaf
  <2> QED BY <2>2 DEF Places
<1>10. Places(m) \subseteq Places(k) /\ place \in Places(k) BY <1>9
<1>11. Typed(k) BY <1>5, <1>7, <1>8 DEF Typed
<1>20. OnlyPointed(k, m2, place, c) BY <1>3, <1>10, <1>11, PointChanges
<1>12. /\ m2 \in [heap : {m2.heap}, node : {m2.node}, tree : {m2.tree}]
       /\ m2.heap = k.heap /\ DOMAIN m2.node = DOMAIN k.node
       /\ m2.node \in [DOMAIN m2.node -> NodeRecord]
       /\ Places(m2) = Places(k)
       /\ \A q \in Places(k) : Pointed(m2, q) = IF q = place THEN c ELSE Pointed(k, q)
       /\ \A x \in DOMAIN k.node :
            /\ m2.node[x].bit_pos = k.node[x].bit_pos /\ m2.node[x].number = k.node[x].number
            /\ (x \notin Interior(k) => m2.node[x] = k.node[x])
  <2> HIDE DEF m2
  <2> QED BY <1>20 DEF OnlyPointed, Typed
<1> HIDE DEF m2
<1>13. ASSUME NEW q \in Places(m) PROVE Pointed(k, q) = Pointed(m, q)
  <2>1. CASE q = Root BY <1>5, <2>1 DEF Pointed
  <2>2. CASE q # Root
    <3>1. q[1] \in Used(m.heap) BY <2>2, PlaceIs
    <3>2. k.node[q[1]] = m.node[q[1]] BY <1>2, <1>6, <1>8, <3>1
    <3> QED BY <2>2, <3>2 DEF Pointed
  <2> QED BY <2>1, <2>2
<1>14. ASSUME NEW q \in Places(m2) PROVE Pointed(m2, q) \in DOMAIN m2.node \cup {NULL}
  <2>1. CASE q \in Places(m) BY <1>6, <1>10, <1>12, <1>13, <2>1 DEF NodesOK
  <2>2. CASE q \notin Places(m)
    <3>1. v.bit_pos # 1 /\ q \in {<<c, "zero">>, <<c, "one">>} BY <1>9, <1>12, <2>2
    <3>2. Pointed(m2, q) = Pointed(k, q) BY <1>12, <2>2
    <3>3. q # Root /\ q[1] = c /\ q[2] \in {"zero", "one"} BY <3>1 DEF Root
    <3>4. Pointed(k, q) = v[q[2]] BY <1>6, <3>3 DEF Pointed
    <3>5. v[q[2]] \in DOMAIN m.node \cup {NULL} BY <3>1, <3>3
    <3> QED BY <1>6, <1>12, <3>2, <3>4, <3>5
  <2> QED BY <2>1, <2>2
<1>15. NodesOK(m2)
  <2>1. DOMAIN m2.node \subseteq Blocks(m2.heap) BY <1>2, <1>5, <1>6, <1>12 DEF NodesOK
  <2> QED BY <1>2, <1>5, <1>8, <1>12, <1>14, <2>1 DEF NodesOK
<1>16. PointsTo(m, m2, place, c)
  <2>1. \A q \in Places(m) : Pointed(m2, q) = IF q = place THEN c ELSE Pointed(m, q) BY <1>10, <1>12, <1>13
  <2>2. ASSUME NEW x \in Used(m.heap)
        PROVE /\ m2.node[x].bit_pos = m.node[x].bit_pos /\ m2.node[x].number = m.node[x].number
              /\ m.node[x].bit_pos = 1 => m2.node[x] = m.node[x]
    <3>1. x \in DOMAIN k.node /\ k.node[x] = m.node[x] BY <1>2, <1>6, <1>8
    <3>2. m.node[x].bit_pos = 1 => x \notin Interior(k) BY <3>1 DEF Interior, IsLeaf
    <3> QED BY <1>12, <3>1, <3>2
  <2> QED BY <2>1, <2>2 DEF PointsTo
<1>17. m2.node[c] = v
  <2>3. CASE place = Root
    <3>1. m2.node = k.node BY <1>5, <2>3 DEF m2, Point
    <3> QED BY <1>6, <3>1
  <2>4. CASE place # Root
    <3>1. place[1] \in Used(m.heap) BY <2>4, PlaceIs
    <3>2. place[1] # c BY <1>2, <3>1
    <3>3. m2 = [k EXCEPT !.node[place[1]][place[2]] = c] BY <2>4 DEF m2, Point
    <3>4. m2.node[c] = k.node[c] BY <1>5, <1>6, <3>2, <3>3
    <3> QED BY <1>6, <3>4
  <2> QED BY <2>3, <2>4
<1>18. Pointed(m2, place) = c BY <1>10, <1>12
<1>19. Used(m2.heap) = Used(m.heap) \cup {c} /\ DOMAIN m2.node = DOMAIN m.node \cup {c}
       /\ Places(m2) = Places(m) \cup (IF v.bit_pos = 1 THEN {} ELSE {<<c, "zero">>, <<c, "one">>})
  BY <1>6, <1>8, <1>9, <1>12
<1> HIDE DEF cells
<1>21. NewAt(m, m2, place, v, c) BY <1>1, <1>2, <1>3, <1>15, <1>16, <1>17, <1>18, <1>19 DEF NewAt
<1> QED BY <1>21

-----------------------------------------------------------------------------
(* A6, what the operations do to the tree.                                 *)

\* The nodes of m stand for the same numbers in m2.
Kept(m, m2) == \A x \in Used(m.heap) : m2.node[x].bit_pos = m.node[x].bit_pos /\ m2.node[x].number = m.node[x].number

\* All that is pointed to is in use.
Sound(m) == \A q \in Places(m) : Pointed(m, q) \in Used(m.heap) \cup {NULL}

(* Where the search for a node goes does not depend on the fields. *)
LEMMA SameWay ==
  ASSUME NEW m, NEW m2, NodesOK(m), Kept(m, m2)
  PROVE  /\ \A q, b : q \in Places(m) => (Through(m2, q, b) <=> Through(m, q, b))
         /\ \A q \in Places(m), x \in Used(m.heap) : Through(m, q, m2.node[x]) <=> Through(m, q, m.node[x])
         /\ \A x, b : x \in Used(m.heap) => /\ Covers(m2.node[x], b) <=> Covers(m.node[x], b)
                                            /\ Covers(b, m2.node[x]) <=> Covers(b, m.node[x])
<1>1. ASSUME NEW q \in Places(m), NEW b PROVE Through(m2, q, b) <=> Through(m, q, b)
  <2>1. q # Root => q[1] \in Used(m.heap) BY PlaceIs
  <2>2. q # Root => m2.node[q[1]].bit_pos = m.node[q[1]].bit_pos /\ m2.node[q[1]].number = m.node[q[1]].number
    BY <2>1 DEF Kept
  <2> QED BY <2>2 DEF Through, Covers
<1>2. ASSUME NEW q \in Places(m), NEW x \in Used(m.heap)
      PROVE  Through(m, q, m2.node[x]) <=> Through(m, q, m.node[x])
  BY DEF Through, Covers, Kept
<1>3. ASSUME NEW x \in Used(m.heap), NEW b
      PROVE  /\ Covers(m2.node[x], b) <=> Covers(m.node[x], b)
             /\ Covers(b, m2.node[x]) <=> Covers(b, m.node[x])
  BY DEF Covers, Kept
<1> QED BY <1>1, <1>2, <1>3

(* A tree keeps its shape when its nodes, places and pointers stay. *)
LEMMA SameShape ==
  ASSUME NEW m, NEW m2, NodesOK(m), Shaped(m), Kept(m, m2), Used(m2.heap) \subseteq Used(m.heap),
         Places(m2) \subseteq Places(m), \A q \in Places(m2) : Pointed(m2, q) = Pointed(m, q),
         \A q \in Places(m2) : LET c == Pointed(m, q) IN
            c # NULL => m2.node[c].bit_pos = m.node[c].bit_pos /\ m2.node[c].number = m.node[c].number
  PROVE  Shaped(m2)
<1>1. ASSUME NEW q \in Places(m2), NEW d \in Used(m2.heap), Through(m2, q, m2.node[d])
      PROVE  Pointed(m2, q) # NULL /\ Covers(m2.node[Pointed(m2, q)], m2.node[d])
  <2>1. q \in Places(m) /\ d \in Used(m.heap) OBVIOUS
  <2>2. Through(m, q, m.node[d]) BY <1>1, <2>1, SameWay
  <2>3. Pointed(m, q) # NULL /\ Covers(m.node[Pointed(m, q)], m.node[d]) BY <2>1, <2>2 DEF Shaped
  <2>4. Covers(m.node[Pointed(m, q)], m2.node[d]) BY <2>1, <2>3, SameWay
  <2> QED BY <2>3, <2>4 DEF Covers
<1>2. ASSUME NEW q \in Places(m2), Pointed(m2, q) # NULL PROVE Through(m2, q, m2.node[Pointed(m2, q)])
  <2>1. q \in Places(m) OBVIOUS
  <2>2. Through(m, q, m.node[Pointed(m, q)]) BY <1>2, <2>1 DEF Shaped
  <2>3. Through(m2, q, m.node[Pointed(m, q)]) BY <2>1, <2>2, SameWay
  <2> QED BY <1>2, <2>3 DEF Through, Covers
<1>3. ASSUME NEW c \in Used(m2.heap), NEW d \in Used(m2.heap),
             Covers(m2.node[c], m2.node[d]), Covers(m2.node[d], m2.node[c])
      PROVE  c = d
  <2>1. c \in Used(m.heap) /\ d \in Used(m.heap) OBVIOUS
  <2>2. Covers(m.node[c], m.node[d]) /\ Covers(m.node[d], m.node[c]) BY <1>3, <2>1, SameWay
  <2> QED BY <2>1, <2>2 DEF Shaped
<1> QED BY <1>1, <1>2, <1>3 DEF Shaped

\* No node is without any number or subtree.
NoneEmpty(m) == \A x \in Used(m.heap) : m.node[x].zero # 0 \/ m.node[x].one # 0

(* A node that was not empty is not when its places point to more. *)
LEMMA StaysFilled ==
  ASSUME NEW m, NEW m2, NodesOK(m), NodesOK(m2), NEW x \in Used(m.heap), x \in Used(m2.heap),
         m.node[x].zero # 0 \/ m.node[x].one # 0,
         m2.node[x].bit_pos = m.node[x].bit_pos, m.node[x].bit_pos = 1 => m2.node[x] = m.node[x],
         \A q \in Places(m) : Pointed(m, q) # NULL => Pointed(m2, q) # NULL
  PROVE  m2.node[x].zero # 0 \/ m2.node[x].one # 0
<1>1. CASE m.node[x].bit_pos = 1 BY <1>1
<1>2. CASE m.node[x].bit_pos # 1
  <2>1. ASSUME NEW s \in {"zero", "one"} PROVE m.node[x][s] # 0 => m2.node[x][s] # 0
    <3>1. <<x, s>> \in Places(m) /\ <<x, s>> # Root /\ <<x, s>>[1] = x /\ <<x, s>>[2] = s
      <4>1. PlaceOf(m, x, s) BY <1>2, IsPlace
      <4> QED BY ONLY <4>1 DEF PlaceOf
    <3>2. Pointed(m, <<x, s>>) = m.node[x][s] /\ Pointed(m2, <<x, s>>) = m2.node[x][s] BY <3>1 DEF Pointed
    <3> QED BY <3>1, <3>2 DEF NULL
  <2>2. (m.node[x].zero # 0 => m2.node[x].zero # 0) /\ (m.node[x].one # 0 => m2.node[x].one # 0)
    <3>1. m.node[x]["zero"] # 0 => m2.node[x]["zero"] # 0 BY <2>1
    <3>2. m.node[x]["one"] # 0 => m2.node[x]["one"] # 0 BY <2>1
    <3> QED BY <3>1, <3>2
  <2> QED BY <2>2
<1> QED BY <1>1, <1>2

\* The leaf that is made for N.
LeafOf(N) == [bit_pos |-> 1, number |-> N, zero |-> 1 - BitAt(N, 1), one |-> BitAt(N, 1)]

(* A new leaf is a node, is not empty, and is searched for where its number is. *)
LEMMA LeafIs ==
  ASSUME NEW N \in Numbers
  PROVE  /\ LeafOf(N) \in NodeRecord /\ LeafOf(N).bit_pos = 1 /\ LeafOf(N).number = N /\ IsNode(LeafOf(N))
         /\ LeafOf(N).zero # 0 \/ LeafOf(N).one # 0
         /\ \A m, q : Through(m, q, LeafOf(N)) <=> Through(m, q, [bit_pos |-> 1, number |-> N])
<1>1. N \in Nat BY RadixAssumption DEF Numbers
<1>2. BitAt(N, 1) \in {0, 1} /\ 1 \in Positions BY <1>1, Bit, Position
<1>3. LeafOf(N) \in NodeRecord
  <2>1. 1 - BitAt(N, 1) \in Nat /\ BitAt(N, 1) \in Nat BY <1>2
  <2> QED BY <1>2, <2>1 DEF LeafOf, NodeRecord
<1>4. LeafOf(N).zero # 0 \/ LeafOf(N).one # 0 BY <1>2 DEF LeafOf
<1>5. LeafOf(N).bit_pos = 1 /\ LeafOf(N).number = N BY DEF LeafOf
<1> QED BY <1>1, <1>2, <1>3, <1>4, <1>5 DEF Through, Covers, IsNode

\* In m2 the tree has one more leaf, for N, and its other leaves as before.
Extended(m, m2, N) ==
  /\ NodesOK(m2) /\ Shaped(m2) /\ Sound(m2) /\ (NoneEmpty(m) => NoneEmpty(m2))
  /\ Used(m.heap) \subseteq Used(m2.heap)
  /\ \A x \in Used(m.heap) : /\ m2.node[x].bit_pos = m.node[x].bit_pos
                             /\ m.node[x].bit_pos = 1 => m2.node[x] = m.node[x]
  /\ \E l \in Used(m2.heap) \ Used(m.heap) :
       /\ m2.node[l] = LeafOf(N)
       /\ \A x \in Used(m2.heap) : m2.node[x].bit_pos = 1 => x = l \/ x \in Used(m.heap)

(* A subtree that the search for a node goes by covers what is behind a place on the way. *)
LEMMA OnTheWay ==
  ASSUME NEW m, NodesOK(m), Shaped(m), NEW q \in Places(m), NEW r \in Places(m), r # Root, NEW b, IsNode(b),
         Through(m, r, b), Through(m, q, m.node[r[1]])
  PROVE  Pointed(m, q) # NULL /\ Covers(m.node[Pointed(m, q)], b)
<1>1. r[1] \in Used(m.heap) /\ r[1] \in DOMAIN m.node BY PlaceIs
<1>2. Pointed(m, q) # NULL /\ Covers(m.node[Pointed(m, q)], m.node[r[1]]) BY <1>1 DEF Shaped
<1>3. IsNode(m.node[r[1]]) /\ IsNode(m.node[Pointed(m, q)]) BY <1>1, <1>2, NodeIs DEF NodesOK
<1>4. Covers(m.node[r[1]], b) BY DEF Through
<1> QED BY <1>2, <1>3, <1>4, CoversTrans

(* A leaf is made where there is no subtree. *)
LEMMA LeafAdded ==
  ASSUME NEW m, NodesOK(m), Shaped(m), Sound(m), NEW P \in Places(m), Pointed(m, P) = NULL, NEW N \in Numbers,
         Through(m, P, [bit_pos |-> 1, number |-> N])
  PROVE  Extended(m, create_leaf(m, P, N), N)
<1> DEFINE v == LeafOf(N)
<1>1. v \in NodeRecord /\ v.bit_pos = 1 /\ v.number = N /\ IsNode(v) /\ Through(m, P, v) /\ (v.zero # 0 \/ v.one # 0)
  BY LeafIs
<1>2. create_leaf(m, P, N) = NewNode(m, P, v) BY DEF create_leaf, LeafOf
<1> HIDE DEF v
<1>30. PICK m2, c : NewAt(m, m2, P, v, c)
  <2>1. v \in NodeRecord /\ v.bit_pos = 1 BY <1>1
  <2> QED BY <2>1, NewNodeIs
<1>3. /\ m2 = NewNode(m, P, v) /\ NodesOK(m2) /\ c \notin Used(m.heap) /\ c # NULL
      /\ Used(m2.heap) = Used(m.heap) \cup {c} /\ m2.node[c] = v /\ Pointed(m2, P) = c
      /\ PointsTo(m, m2, P, c) /\ Places(m2) = Places(m)
  BY <1>1, <1>30 DEF NewAt
<1>4. Places(m2) = Places(m) BY <1>1, <1>3
<1>5. Kept(m, m2) BY <1>3 DEF PointsTo, Kept
<1>6. \A q \in Places(m) : Pointed(m2, q) = IF q = P THEN c ELSE Pointed(m, q) BY <1>3 DEF PointsTo
<1>7. ASSUME NEW q \in Places(m), Through(m, q, v), q # P
      PROVE  Pointed(m, q) # NULL /\ Covers(m.node[Pointed(m, q)], v)
  <2>1. CASE P # Root /\ Through(m, q, m.node[P[1]]) BY <1>1, <2>1, OnTheWay
  <2>2. CASE q # Root /\ Through(m, P, m.node[q[1]])
    <3>1. q[1] \in Used(m.heap) BY <2>2, PlaceIs
    <3> QED BY <2>2, <3>1 DEF Shaped
  <2> QED BY <1>1, <1>7, <2>1, <2>2, Comparable
<1>8. ASSUME NEW q \in Places(m2), NEW d \in Used(m2.heap), Through(m2, q, m2.node[d])
      PROVE  Pointed(m2, q) # NULL /\ Covers(m2.node[Pointed(m2, q)], m2.node[d])
  <2>0. q \in Places(m) /\ Through(m, q, m2.node[d]) BY <1>4, <1>5, <1>8, SameWay
  <2>1. CASE d # c
    <3>1. d \in Used(m.heap) BY <1>3, <2>1
    <3>2. Through(m, q, m.node[d]) BY <1>5, <2>0, <3>1, SameWay
    <3>3. Pointed(m, q) # NULL /\ Covers(m.node[Pointed(m, q)], m.node[d]) BY <2>0, <3>1, <3>2 DEF Shaped
    <3>4. Pointed(m2, q) = Pointed(m, q) /\ Pointed(m, q) \in Used(m.heap) BY <1>6, <2>0, <3>3 DEF Sound
    <3>5. Covers(m2.node[Pointed(m, q)], m.node[d]) BY <1>5, <3>3, <3>4, SameWay
    <3> QED BY <1>5, <3>1, <3>3, <3>4, <3>5, SameWay
  <2>2. CASE d = c /\ q = P BY <1>1, <1>3, <2>2, CoversSelf
  <2>3. CASE d = c /\ q # P
    <3>1. Pointed(m, q) # NULL /\ Covers(m.node[Pointed(m, q)], v) BY <1>3, <1>7, <2>0, <2>3
    <3>4. Pointed(m2, q) = Pointed(m, q) /\ Pointed(m, q) \in Used(m.heap) BY <1>6, <2>0, <2>3, <3>1 DEF Sound
    <3> QED BY <1>3, <1>5, <2>3, <3>1, <3>4, SameWay
  <2> QED BY <2>1, <2>2, <2>3
<1>9. ASSUME NEW q \in Places(m2), Pointed(m2, q) # NULL PROVE Through(m2, q, m2.node[Pointed(m2, q)])
  <2>1. CASE q = P BY <1>1, <1>3, <1>5, <2>1, SameWay
  <2>2. CASE q # P
    <3>1. Pointed(m2, q) = Pointed(m, q) /\ Pointed(m, q) \in Used(m.heap) /\ q \in Places(m)
      BY <1>4, <1>6, <1>9, <2>2 DEF Sound
    <3>2. Through(m, q, m.node[Pointed(m, q)]) BY <1>9, <3>1 DEF Shaped
    <3> QED BY <1>5, <3>1, <3>2, SameWay
  <2> QED BY <2>1, <2>2
<1>10. ASSUME NEW d \in Used(m.heap), Covers(v, m.node[d]) PROVE FALSE
  <2>1. IsNode(m.node[d]) BY NodeIs DEF NodesOK
  <2>2. Through(m, P, m.node[d]) BY <1>1, <1>10, <2>1, ThroughBelow
  <2> QED BY <2>2 DEF Shaped
<1>11. ASSUME NEW x \in Used(m2.heap), NEW y \in Used(m2.heap),
              Covers(m2.node[x], m2.node[y]), Covers(m2.node[y], m2.node[x])
       PROVE  x = y
  <2>1. CASE x # c /\ y # c
    <3>1. x \in Used(m.heap) /\ y \in Used(m.heap) BY <1>3, <2>1
    <3>2. Covers(m.node[x], m.node[y]) /\ Covers(m.node[y], m.node[x]) BY <1>5, <1>11, <3>1, SameWay
    <3> QED BY <3>1, <3>2 DEF Shaped
  <2>2. CASE x = c /\ y # c
    <3>1. y \in Used(m.heap) BY <1>3, <2>2
    <3>2. Covers(v, m.node[y]) BY <1>3, <1>5, <1>11, <2>2, <3>1, SameWay
    <3> QED BY <1>10, <3>1, <3>2
  <2>3. CASE x # c /\ y = c
    <3>1. x \in Used(m.heap) BY <1>3, <2>3
    <3>2. Covers(v, m.node[x]) BY <1>3, <1>5, <1>11, <2>3, <3>1, SameWay
    <3> QED BY <1>10, <3>1, <3>2
  <2> QED BY <2>1, <2>2, <2>3
<1>12. Shaped(m2) BY <1>8, <1>9, <1>11 DEF Shaped
<1>13. Sound(m2) BY <1>3, <1>4, <1>6 DEF Sound
<1>14. NoneEmpty(m) => NoneEmpty(m2)
  <2> SUFFICES ASSUME NoneEmpty(m), NEW x \in Used(m2.heap) PROVE m2.node[x].zero # 0 \/ m2.node[x].one # 0
    BY DEF NoneEmpty
  <2>1. CASE x = c BY <1>1, <1>3, <2>1
  <2>2. CASE x # c
    <3>1. x \in Used(m.heap) BY <1>3, <2>2
    <3>2. \A q \in Places(m) : Pointed(m, q) # NULL => Pointed(m2, q) # NULL BY <1>3, <1>6
    <3>3. m.node[x].zero # 0 \/ m.node[x].one # 0 BY <3>1 DEF NoneEmpty
    <3>4. m2.node[x].bit_pos = m.node[x].bit_pos /\ (m.node[x].bit_pos = 1 => m2.node[x] = m.node[x])
      BY <1>3, <3>1 DEF PointsTo
    <3> QED BY <1>3, <3>1, <3>2, <3>3, <3>4, StaysFilled
  <2> QED BY <2>1, <2>2
<1>15. c \in Used(m2.heap) \ Used(m.heap) /\ Used(m.heap) \subseteq Used(m2.heap) BY <1>3
<1>16. \A x \in Used(m.heap) : m2.node[x].bit_pos = m.node[x].bit_pos /\ (m.node[x].bit_pos = 1 => m2.node[x] = m.node[x])
  BY <1>3 DEF PointsTo
<1>17. \A x \in Used(m2.heap) : m2.node[x].bit_pos = 1 => x = c \/ x \in Used(m.heap) BY <1>3
<1>18. m2.node[c] = LeafOf(N) BY <1>3 DEF v
<1>19. Extended(m, m2, N) BY <1>3, <1>12, <1>13, <1>14, <1>15, <1>16, <1>17, <1>18 DEF Extended
<1> QED BY <1>2, <1>3, <1>19

Other(s) == IF s = "one" THEN "zero" ELSE "one"

\* The memory m2 is m with the nodes i and l that are made for position p of N above the subtree at place.
InnerAt(m, m2, place, N, p, i, l) ==
  /\ NodesOK(m2) /\ i \notin Used(m.heap) /\ l \notin Used(m.heap) /\ i # l /\ i # NULL /\ l # NULL
  /\ Used(m2.heap) = Used(m.heap) \cup {i, l}
  /\ m2.node[l] = LeafOf(N) /\ m2.node[i].bit_pos = p /\ m2.node[i].number = N
  /\ Places(m2) = Places(m) \cup {<<i, "zero">>, <<i, "one">>}
  /\ PointsTo(m, m2, place, i)
  /\ Pointed(m2, <<i, Side(N, p)>>) = l /\ Pointed(m2, <<i, Other(Side(N, p))>>) = Pointed(m, place)

(* An interior node and a leaf are made. *)
LEMMA InjectIs ==
  ASSUME NEW m, NodesOK(m), NEW P \in Places(m), NEW N \in Numbers, NEW p \in Positions, p > 1
  PROVE  \E i, l : InnerAt(m, Inject(m, P, N, p), P, N, p, i, l)
<1> DEFINE b == Pointed(m, P)
           s == Side(N, p)
           t == Other(s)
           v == [bit_pos |-> p, number |-> N, zero |-> b, one |-> b]
           w == LeafOf(N)
<1>1. b \in DOMAIN m.node \cup {NULL} BY DEF NodesOK
<1>2. v \in NodeRecord /\ v.bit_pos = p /\ v.number = N /\ v.zero = b /\ v.one = b /\ \A x \in {"zero", "one"} : v[x] = b
  <2>1. \A x \in Blocks(m.heap) : x \in Nat
    <3>1. m.heap.free_space \in Nat BY DEF NodesOK, HeapOK, HeapRecord
    <3> QED BY <3>1 DEF Blocks
  <2>2. b \in Nat BY <1>1, <2>1 DEF NodesOK, NULL
  <2> HIDE DEF b
  <2> QED BY <2>2 DEF NodeRecord
<1>3. s \in {"zero", "one"} /\ t \in {"zero", "one"} /\ s # t /\ \A x \in {"zero", "one"} : x = s \/ x = t
  BY SideIs DEF Other
<1>4. w \in NodeRecord /\ w.bit_pos = 1 BY LeafIs
<1> HIDE DEF b, v, w, s
<1>5. PICK m1, i : NewAt(m, m1, P, v, i)
  BY <1>1, <1>2, NewNodeIs
<1>6. /\ m1 = NewNode(m, P, v) /\ NodesOK(m1) /\ i \notin Used(m.heap) /\ i # NULL
      /\ Used(m1.heap) = Used(m.heap) \cup {i} /\ m1.node[i] = v /\ Pointed(m1, P) = i
      /\ PointsTo(m, m1, P, i) /\ Places(m1) = Places(m) \cup {<<i, "zero">>, <<i, "one">>}
  <2>1. p # 1 BY Position
  <2> QED BY <1>2, <1>5, <2>1 DEF NewAt
<1> DEFINE R == <<i, s>>
<1>7. R \in Places(m1) /\ R # Root /\ R[1] = i /\ R[2] = s BY <1>3, <1>6 DEF Root
<1>8. PICK m2, l : NewAt(m1, m2, R, w, l)
  <2> HIDE DEF R
  <2> QED BY <1>4, <1>6, <1>7, NewNodeIs
<1>9. /\ m2 = NewNode(m1, R, w) /\ NodesOK(m2) /\ l \notin Used(m1.heap) /\ l # NULL
      /\ Used(m2.heap) = Used(m1.heap) \cup {l} /\ m2.node[l] = w /\ Pointed(m2, R) = l
      /\ PointsTo(m1, m2, R, l) /\ Places(m2) = Places(m1)
  BY <1>4, <1>8 DEF NewAt
<1>10. m2 = Inject(m, P, N, p)
  BY <1>6, <1>9 DEF Inject, create_leaf, LeafOf, R, s, v, w, b
<1>11. m2.node[i].bit_pos = p /\ m2.node[i].number = N BY <1>2, <1>6, <1>9 DEF PointsTo
<1>12. \A q \in Places(m) : q # R
  <2> SUFFICES ASSUME R \in Places(m) PROVE FALSE OBVIOUS
  <2>1. i \in Used(m.heap) BY <1>7, PlaceIs
  <2> QED BY <1>6, <2>1
<1>13. PointsTo(m, m2, P, i)
  <2>1. \A q \in Places(m) : Pointed(m2, q) = IF q = P THEN i ELSE Pointed(m, q)
    BY <1>6, <1>9, <1>12 DEF PointsTo
  <2>2. ASSUME NEW x \in Used(m.heap)
        PROVE /\ m2.node[x].bit_pos = m.node[x].bit_pos /\ m2.node[x].number = m.node[x].number
              /\ m.node[x].bit_pos = 1 => m2.node[x] = m.node[x]
    <3>1. x \in Used(m1.heap) BY <1>6
    <3>2. /\ m1.node[x].bit_pos = m.node[x].bit_pos /\ m1.node[x].number = m.node[x].number
          /\ m.node[x].bit_pos = 1 => m1.node[x] = m.node[x]
      BY <1>6 DEF PointsTo
    <3>3. /\ m2.node[x].bit_pos = m1.node[x].bit_pos /\ m2.node[x].number = m1.node[x].number
          /\ m1.node[x].bit_pos = 1 => m2.node[x] = m1.node[x]
      BY <1>9, <3>1 DEF PointsTo
    <3> QED BY <3>2, <3>3
  <2> QED BY <2>1, <2>2 DEF PointsTo
<1>14. Pointed(m2, <<i, t>>) = b
  <2> DEFINE T == <<i, t>>
  <2>1. T \in Places(m1) /\ T # R /\ T # Root /\ T[1] = i /\ T[2] = t BY <1>3, <1>6 DEF Root
  <2>2. Pointed(m2, T) = Pointed(m1, T) BY <1>9, <2>1 DEF PointsTo
  <2>3. Pointed(m1, T) = v[t] BY <1>6, <2>1 DEF Pointed
  <2> QED BY <1>2, <1>3, <2>2, <2>3
<1>15. InnerAt(m, m2, P, N, p, i, l)
  <2>1. Used(m2.heap) = Used(m.heap) \cup {i, l} BY <1>6, <1>9
  <2>2. l \notin Used(m.heap) /\ i # l BY <1>6, <1>9
  <2>3. Pointed(m2, <<i, Side(N, p)>>) = l BY <1>9 DEF s, R
  <2>4. Pointed(m2, <<i, Other(Side(N, p))>>) = Pointed(m, P) BY <1>14 DEF s, b
  <2>5. m2.node[l] = LeafOf(N) BY <1>9 DEF w
  <2>6. Places(m2) = Places(m) \cup {<<i, "zero">>, <<i, "one">>} BY <1>6, <1>9
  <2> HIDE DEF t, R
  <2> QED BY <1>6, <1>9, <1>11, <1>13, <2>1, <2>2, <2>3, <2>4, <2>5, <2>6 DEF InnerAt
<1> QED BY <1>10, <1>15

(* An interior node and a leaf are made where the number leaves the subtree. *)
LEMMA InnerAdded ==
  ASSUME NEW m, NodesOK(m), Shaped(m), Sound(m), NEW P \in Places(m), Pointed(m, P) # NULL, NEW N \in Numbers,
         Through(m, P, [bit_pos |-> 1, number |-> N]), NEW p \in Positions,
         m.node[Pointed(m, P)].bit_pos < p, P # Root => p < m.node[P[1]].bit_pos,
         Agree(N, m.node[Pointed(m, P)].number, p), Side(N, p) # Side(m.node[Pointed(m, P)].number, p)
  PROVE  Extended(m, Inject(m, P, N, p), N)
<1> DEFINE c0 == Pointed(m, P)
           a0 == m.node[c0]
           s == Side(N, p)
           t == Other(s)
           m2 == Inject(m, P, N, p)
<1>1. c0 \in Used(m.heap) /\ c0 \in DOMAIN m.node /\ IsNode(a0) BY NodeIs DEF Sound, NodesOK
<1>2. p \in Nat /\ p > 1 /\ N \in Nat /\ a0.bit_pos \in Nat /\ a0.bit_pos >= 1 /\ a0.number \in Nat
  <2>1. N \in Nat BY RadixAssumption DEF Numbers
  <2>2. a0.bit_pos \in Nat /\ a0.bit_pos >= 1 /\ p \in Nat /\ a0.bit_pos < p BY <1>1, Position DEF IsNode
  <2> HIDE DEF a0
  <2> QED BY <1>1, <2>1, <2>2 DEF IsNode
<1>3. PICK i, l : InnerAt(m, m2, P, N, p, i, l) BY <1>2, InjectIs
<1> HIDE DEF m2
<1>4. /\ NodesOK(m2) /\ i \notin Used(m.heap) /\ l \notin Used(m.heap) /\ i # l /\ i # NULL /\ l # NULL
      /\ Used(m2.heap) = Used(m.heap) \cup {i, l}
      /\ m2.node[l] = LeafOf(N) /\ m2.node[i].bit_pos = p /\ m2.node[i].number = N
      /\ Places(m2) = Places(m) \cup {<<i, "zero">>, <<i, "one">>}
      /\ PointsTo(m, m2, P, i) /\ Pointed(m2, <<i, s>>) = l /\ Pointed(m2, <<i, t>>) = c0
  BY <1>3 DEF InnerAt
<1> DEFINE vi == m2.node[i]
           vl == m2.node[l]
<1>5. s \in {"zero", "one"} /\ t \in {"zero", "one"} /\ s # t /\ Side(a0.number, p) = t
      /\ {<<i, "zero">>, <<i, "one">>} = {<<i, s>>, <<i, t>>}
  BY SideIs DEF Other
<1>6. vl.bit_pos = 1 /\ vl.number = N /\ IsNode(vl) /\ Through(m, P, vl) /\ (vl.zero # 0 \/ vl.one # 0)
  BY <1>4, LeafIs
<1>7. IsNode(vi) /\ vi.bit_pos = p /\ vi.number = N BY <1>2, <1>4 DEF IsNode
<1>8. Kept(m, m2) /\ \A q \in Places(m) : Pointed(m2, q) = IF q = P THEN i ELSE Pointed(m, q)
  BY <1>4 DEF PointsTo, Kept
<1>9. \A q \in Places(m) : q # <<i, s>> /\ q # <<i, t>>
  <2> SUFFICES ASSUME NEW q \in Places(m), NEW x, q = <<i, x>> PROVE FALSE OBVIOUS
  <2>1. q # Root /\ q[1] = i BY DEF Root
  <2>2. i \in Used(m.heap) BY <2>1, PlaceIs
  <2> QED BY <1>4, <2>2
<1> HIDE DEF a0, s, t, vi, vl, c0
<1>10. Covers(vi, a0)
  <2>1. Agree(N, a0.number, p) BY DEF a0, c0
  <2>2. a0.bit_pos < p BY DEF a0, c0
  <2> QED BY <1>2, <1>7, <2>1, <2>2 DEF Covers, Agree
<1>11. Covers(vi, vl) BY <1>2, <1>6, <1>7 DEF Covers
<1>12. Through(m, P, vi)
  <2> SUFFICES ASSUME P # Root
               PROVE Covers(m.node[P[1]], vi) /\ vi.bit_pos < m.node[P[1]].bit_pos
                     /\ Side(vi.number, m.node[P[1]].bit_pos) = P[2]
    BY DEF Through
  <2> DEFINE a == m.node[P[1]]
  <2>1. Covers(a, vl) /\ Side(vl.number, a.bit_pos) = P[2] BY <1>6 DEF Through
  <2>2. IsNode(a) /\ p < a.bit_pos BY PlaceIs, NodeIs
  <2>3. a.bit_pos \in Nat BY <2>2, Position DEF IsNode
  <2> HIDE DEF a
  <2>4. vi.bit_pos < a.bit_pos /\ vi.bit_pos <= a.bit_pos BY <1>2, <1>7, <2>2, <2>3
  <2>5. Covers(a, vi)
    <3>1. Agree(vi.number, a.number, a.bit_pos) BY <1>6, <1>7, <2>1 DEF Covers, Agree
    <3> QED BY <2>4, <3>1 DEF Covers, Agree
  <2>6. Side(vi.number, a.bit_pos) = P[2] BY <1>6, <1>7, <2>1
  <2> QED BY <2>4, <2>5, <2>6 DEF a
<1>13. ASSUME NEW b, Covers(a0, b), b.number = N PROVE FALSE
  <2>1. Agree(N, a0.number, a0.bit_pos) BY <1>13 DEF Covers, Agree
  <2>2. a0.bit_pos \in Positions /\ a0.bit_pos < p BY <1>1 DEF IsNode, a0, c0
  <2>3. Side(N, p) = Side(a0.number, p) BY <1>2, <2>1, <2>2, AgreeUp
  <2> QED BY <1>5, <2>3 DEF s
<1>14. ASSUME NEW q \in Places(m), q # P, NEW b \in {vi, vl}, Through(m, q, b)
       PROVE  Pointed(m, q) # NULL /\ Covers(m.node[Pointed(m, q)], b)
  <2>0. IsNode(b) /\ Through(m, P, b) /\ b.number = N BY <1>6, <1>7, <1>12
  <2>1. CASE P # Root /\ Through(m, q, m.node[P[1]]) BY <2>0, <2>1, OnTheWay
  <2>2. CASE q # Root /\ Through(m, P, m.node[q[1]])
    <3>1. Covers(a0, b) BY <1>14, <2>0, <2>2, OnTheWay DEF a0, c0
    <3> QED BY <1>13, <2>0, <3>1
  <2> QED BY <1>14, <2>0, <2>1, <2>2, Comparable
<1>15. ASSUME NEW d \in Used(m.heap), Through(m, P, m.node[d]) PROVE Covers(a0, m.node[d]) /\ Covers(vi, m.node[d])
  <2>1. Covers(a0, m.node[d]) BY <1>15 DEF Shaped, a0, c0
  <2>2. IsNode(m.node[d]) BY NodeIs DEF NodesOK
  <2> QED BY <1>1, <1>7, <1>10, <2>1, <2>2, CoversTrans
<1>16. ASSUME NEW d \in Used(m.heap), Covers(vi, m.node[d]) PROVE Through(m, P, m.node[d])
  <2>2. IsNode(m.node[d]) BY NodeIs DEF NodesOK
  <2> QED BY <1>7, <1>12, <1>16, <2>2, ThroughBelow
<1>17. ASSUME NEW x \in {s, t}, NEW b
       PROVE  Through(m2, <<i, x>>, b) <=> Covers(vi, b) /\ b.bit_pos < p /\ Side(b.number, p) = x
  <2>1. <<i, x>> # Root /\ <<i, x>>[1] = i /\ <<i, x>>[2] = x BY DEF Root
  <2> QED BY <1>7, <2>1 DEF Through, vi
<1>19. ASSUME NEW q \in Places(m2), NEW d \in Used(m2.heap), Through(m2, q, m2.node[d])
      PROVE  Pointed(m2, q) # NULL /\ Covers(m2.node[Pointed(m2, q)], m2.node[d])
  <2> DEFINE good == Pointed(m2, q) # NULL /\ Covers(m2.node[Pointed(m2, q)], m2.node[d])
  <2>1. CASE q = P
    <3>0. Pointed(m2, q) = i BY <1>8, <2>1
    <3>1. CASE d \in Used(m.heap)
      <4>1. Through(m, P, m.node[d]) BY <1>8, <1>19, <2>1, <3>1, SameWay
      <4>2. Covers(vi, m2.node[d]) BY <1>8, <1>15, <3>1, <4>1, SameWay
      <4> QED BY <1>4, <3>0, <4>2 DEF vi
    <3>2. CASE d = i
      <4>1. Covers(vi, vi) BY <1>7, CoversSelf
      <4> QED BY <1>4, <3>0, <3>2, <4>1 DEF vi
    <3>3. CASE d = l BY <1>4, <1>11, <3>0, <3>3 DEF vi, vl
    <3> QED BY <1>4, <3>1, <3>2, <3>3
  <2>2. CASE q = <<i, s>>
    <3>0. Pointed(m2, q) = l BY <1>4, <2>2
    <3>4. Covers(vi, m2.node[d]) /\ m2.node[d].bit_pos < p /\ Side(m2.node[d].number, p) = s BY <1>17, <1>19, <2>2
    <3>1. CASE d \in Used(m.heap)
      <4>1. Through(m, P, m.node[d]) BY <1>8, <1>16, <3>1, <3>4, SameWay
      <4>2. Covers(a0, m.node[d]) /\ IsNode(m.node[d]) BY <1>15, <3>1, <4>1, NodeIs DEF NodesOK
      <4>3. a0.bit_pos < p BY DEF a0, c0
      <4>4. Side(m.node[d].number, p) = t BY <1>1, <1>5, <4>2, <4>3, SideBelow
      <4>5. m2.node[d].number = m.node[d].number BY <1>8, <3>1 DEF Kept
      <4> QED BY <1>5, <3>4, <4>4, <4>5
    <3>2. CASE d = i BY <1>2, <1>7, <3>2, <3>4 DEF vi
    <3>3. CASE d = l
      <4>1. Covers(vl, vl) BY <1>6, CoversSelf
      <4> QED BY <1>4, <3>0, <3>3, <4>1 DEF vl
    <3> QED BY <1>4, <3>1, <3>2, <3>3
  <2>3. CASE q = <<i, t>>
    <3>0. Pointed(m2, q) = c0 BY <1>4, <2>3
    <3>4. Covers(vi, m2.node[d]) /\ m2.node[d].bit_pos < p /\ Side(m2.node[d].number, p) = t BY <1>17, <1>19, <2>3
    <3>1. CASE d \in Used(m.heap)
      <4>1. Through(m, P, m.node[d]) BY <1>8, <1>16, <3>1, <3>4, SameWay
      <4>2. Covers(a0, m2.node[d]) BY <1>8, <1>15, <3>1, <4>1, SameWay
      <4>3. Covers(m2.node[c0], m2.node[d]) BY <1>1, <1>8, <4>2, SameWay DEF a0
      <4>4. c0 # NULL BY DEF c0
      <4> QED BY <3>0, <4>3, <4>4
    <3>2. CASE d = i BY <1>2, <1>7, <3>2, <3>4 DEF vi
    <3>3. CASE d = l
      <4>1. Side(N, p) = t BY <1>6, <3>3, <3>4 DEF vl
      <4> QED BY <1>5, <4>1 DEF s
    <3> QED BY <1>4, <3>1, <3>2, <3>3
  <2>4. CASE q \in Places(m) /\ q # P
    <3>0. Pointed(m2, q) = Pointed(m, q) /\ Through(m, q, m2.node[d]) BY <1>8, <1>19, <2>4, SameWay
    <3>5. Pointed(m, q) # NULL /\ Covers(m.node[Pointed(m, q)], m2.node[d])
      <4>1. CASE d \in Used(m.heap)
        <5>1. Through(m, q, m.node[d]) BY <1>8, <2>4, <3>0, <4>1, SameWay
        <5>2. Pointed(m, q) # NULL /\ Covers(m.node[Pointed(m, q)], m.node[d]) BY <2>4, <4>1, <5>1 DEF Shaped
        <5>3. Pointed(m, q) \in Used(m.heap) BY <2>4, <5>2 DEF Sound
        <5> QED BY <1>8, <4>1, <5>2, <5>3, SameWay DEF Covers, Kept
      <4>2. CASE d \in {i, l} BY <1>14, <2>4, <3>0, <4>2 DEF vi, vl
      <4> QED BY <1>4, <4>1, <4>2
    <3>6. Pointed(m, q) \in Used(m.heap) BY <2>4, <3>5 DEF Sound
    <3>7. Covers(m2.node[Pointed(m, q)], m2.node[d]) BY <1>8, <3>5, <3>6, SameWay
    <3> QED BY <3>0, <3>5, <3>7
  <2>5. q \in Places(m) \/ q = <<i, s>> \/ q = <<i, t>> BY <1>4, <1>5
  <2> HIDE DEF good
  <2> QED BY <2>1, <2>2, <2>3, <2>4, <2>5 DEF good
<1>20. ASSUME NEW q \in Places(m2), Pointed(m2, q) # NULL PROVE Through(m2, q, m2.node[Pointed(m2, q)])
  <2>1. CASE q = P BY <1>8, <1>12, <2>1, SameWay DEF vi
  <2>2. CASE q = <<i, s>>
    <3>1. Through(m2, <<i, s>>, vl)
      <4>1. Side(vl.number, p) = s BY <1>6 DEF s
      <4> QED BY <1>2, <1>6, <1>11, <1>17, <4>1
    <3> QED BY <1>4, <2>2, <3>1 DEF vl
  <2>3. CASE q = <<i, t>>
    <3>1. a0.bit_pos < p BY DEF a0, c0
    <3>2. Through(m2, <<i, t>>, a0) BY <1>5, <1>10, <1>17, <3>1
    <3>3. Through(m2, <<i, t>>, m2.node[c0]) BY <1>1, <1>8, <3>2 DEF Kept, a0, Through, Covers
    <3> QED BY <1>4, <2>3, <3>3
  <2>4. CASE q \in Places(m) /\ q # P
    <3>1. Pointed(m2, q) = Pointed(m, q) /\ Pointed(m, q) \in Used(m.heap) BY <1>8, <1>20, <2>4 DEF Sound
    <3>2. Through(m, q, m.node[Pointed(m, q)]) BY <1>20, <2>4, <3>1 DEF Shaped
    <3> QED BY <1>8, <2>4, <3>1, <3>2, SameWay
  <2>5. q \in Places(m) \/ q = <<i, s>> \/ q = <<i, t>> BY <1>4, <1>5
  <2> QED BY <2>1, <2>2, <2>3, <2>4, <2>5
<1>21. ASSUME NEW d \in Used(m.heap), NEW b \in {vi, vl}, Covers(b, m.node[d]), Covers(m.node[d], b) PROVE FALSE
  <2>1. IsNode(m.node[d]) /\ IsNode(b) /\ b.number = N BY <1>6, <1>7, NodeIs DEF NodesOK
  <2>2. Covers(vi, m.node[d]) BY <1>7, <1>11, <1>21, <2>1, CoversTrans
  <2>3. Covers(a0, m.node[d]) BY <1>15, <1>16, <2>2
  <2>4. Covers(a0, b) BY <1>1, <1>21, <2>1, <2>3, CoversTrans
  <2> QED BY <1>13, <2>1, <2>4
<1>22. ~Covers(vl, vi) BY <1>2, <1>6, <1>7 DEF Covers
<1>23. ASSUME NEW x \in Used(m2.heap), NEW y \in Used(m2.heap),
              Covers(m2.node[x], m2.node[y]), Covers(m2.node[y], m2.node[x])
       PROVE  x = y
  <2>1. CASE x \in Used(m.heap) /\ y \in Used(m.heap)
    <3>2. Covers(m.node[x], m.node[y]) /\ Covers(m.node[y], m.node[x]) BY <1>8, <1>23, <2>1, SameWay
    <3> QED BY <2>1, <3>2 DEF Shaped
  <2>2. CASE x \in {i, l} /\ y \in Used(m.heap)
    <3>2. Covers(m2.node[x], m.node[y]) /\ Covers(m.node[y], m2.node[x]) BY <1>8, <1>23, <2>2, SameWay
    <3> QED BY <1>21, <2>2, <3>2 DEF vi, vl
  <2>3. CASE x \in Used(m.heap) /\ y \in {i, l}
    <3>2. Covers(m2.node[y], m.node[x]) /\ Covers(m.node[x], m2.node[y]) BY <1>8, <1>23, <2>3, SameWay
    <3> QED BY <1>21, <2>3, <3>2 DEF vi, vl
  <2>4. CASE x \in {i, l} /\ y \in {i, l} BY <1>22, <1>23, <2>4 DEF vi, vl
  <2> QED BY <1>4, <2>1, <2>2, <2>3, <2>4
<1>24. Shaped(m2) BY <1>19, <1>20, <1>23 DEF Shaped
<1>25. Sound(m2)
  <2> SUFFICES ASSUME NEW q \in Places(m2) PROVE Pointed(m2, q) \in Used(m2.heap) \cup {NULL} BY DEF Sound
  <2>1. q \in Places(m) \/ q = <<i, s>> \/ q = <<i, t>> BY <1>4, <1>5
  <2>2. CASE q \in Places(m) BY <1>4, <1>8, <2>2 DEF Sound
  <2> QED BY <1>1, <1>4, <2>1, <2>2
<1>26. NoneEmpty(m) => NoneEmpty(m2)
  <2> SUFFICES ASSUME NoneEmpty(m), NEW x \in Used(m2.heap) PROVE m2.node[x].zero # 0 \/ m2.node[x].one # 0
    BY DEF NoneEmpty
  <2>1. CASE x = l BY <1>6, <2>1 DEF vl
  <2>2. CASE x \in Used(m.heap)
    <3>1. \A q \in Places(m) : Pointed(m, q) # NULL => Pointed(m2, q) # NULL BY <1>4, <1>8
    <3>2. m.node[x].zero # 0 \/ m.node[x].one # 0 BY <2>2 DEF NoneEmpty
    <3>3. m2.node[x].bit_pos = m.node[x].bit_pos /\ (m.node[x].bit_pos = 1 => m2.node[x] = m.node[x])
      BY <1>4, <2>2 DEF PointsTo
    <3> QED BY <1>4, <2>2, <3>1, <3>2, <3>3, StaysFilled
  <2>3. CASE x = i
    <3>1. <<i, s>> # Root /\ <<i, s>>[1] = i /\ <<i, s>>[2] = s BY DEF Root
    <3>2. m2.node[i][s] = l BY <1>4, <3>1 DEF Pointed
    <3>3. m2.node[i]["zero"] = l \/ m2.node[i]["one"] = l BY <1>5, <3>2
    <3> QED BY <1>4, <2>3, <3>3 DEF NULL
  <2> QED BY <1>4, <2>1, <2>2, <2>3
<1>27. \A x \in Used(m.heap) : m2.node[x].bit_pos = m.node[x].bit_pos /\ (m.node[x].bit_pos = 1 => m2.node[x] = m.node[x])
  BY <1>4 DEF PointsTo
<1>28. \A x \in Used(m2.heap) : m2.node[x].bit_pos = 1 => x = l \/ x \in Used(m.heap) BY <1>2, <1>4
<1>29. l \in Used(m2.heap) \ Used(m.heap) /\ Used(m.heap) \subseteq Used(m2.heap) BY <1>4
<1>30. Extended(m, m2, N) BY <1>4, <1>24, <1>25, <1>26, <1>27, <1>28, <1>29 DEF Extended
<1> QED BY <1>30 DEF m2

\* In m2 the node c of m is free, and all else is as before.
Freed(m, m2, c) ==
  /\ NodesOK(m2) /\ (Shaped(m) => Shaped(m2)) /\ m2.node = m.node /\ m2.tree = m.tree
  /\ Used(m2.heap) = Used(m.heap) \ {c} /\ Places(m2) = {q \in Places(m) : q = Root \/ q[1] # c}

(* A block is released and all pointers stay. *)
LEMMA NodeFreed ==
  ASSUME NEW m, NodesOK(m), NEW c \in Used(m.heap)
  PROVE  Freed(m, [m EXCEPT !.heap = Release(@, c)], c)
<1> DEFINE h == Release(m.heap, c)
           m2 == [m EXCEPT !.heap = h]
<1>1. HeapOK(h) /\ Used(h) = Used(m.heap) \ {c} /\ Blocks(h) = Blocks(m.heap) BY ReleaseFrees DEF NodesOK
<1> HIDE DEF h
<1>2. /\ m2 \in [heap : {m2.heap}, node : {m2.node}, tree : {m2.tree}]
      /\ m2.heap = h /\ m2.node = m.node /\ m2.tree = m.tree BY DEF NodesOK
<1> HIDE DEF m2
<1>3. Interior(m2) = Interior(m) \ {c} BY <1>1, <1>2 DEF Interior, IsLeaf
<1>4. Places(m2) = {q \in Places(m) : q = Root \/ q[1] # c}
  <2>1. \A x, s : <<x, s>> # Root /\ <<x, s>>[1] = x BY DEF Root
  <2> QED BY <1>3, <2>1 DEF Places
<1>5. \A q \in Places(m2) : q \in Places(m) /\ Pointed(m2, q) = Pointed(m, q) BY <1>2, <1>4 DEF Pointed
<1>6. NodesOK(m2)
  <2>1. \A q \in Places(m2) : Pointed(m2, q) \in DOMAIN m2.node \cup {NULL} BY <1>2, <1>5 DEF NodesOK
  <2> QED BY <1>1, <1>2, <2>1 DEF NodesOK
<1>7. ASSUME Shaped(m) PROVE Shaped(m2)
  <2>1. Kept(m, m2) BY <1>2 DEF Kept
  <2>2. Used(m2.heap) \subseteq Used(m.heap) /\ Places(m2) \subseteq Places(m) BY <1>1, <1>2, <1>5
  <2> QED BY <1>2, <1>5, <1>7, <2>1, <2>2, SameShape
<1>8. Freed(m, m2, c) BY <1>1, <1>2, <1>4, <1>6, <1>7 DEF Freed
<1> QED BY <1>8 DEF m2, h

\* In m2 the node that place points to in m is free, and place points to no node.
Removed(m, m2, place) ==
  /\ NodesOK(m2) /\ Shaped(m2) /\ Sound(m2) /\ Kept(m, m2) /\ place \in Places(m2)
  /\ Used(m2.heap) = Used(m.heap) \ {Pointed(m, place)}
  /\ Places(m2) = {q \in Places(m) : q = Root \/ q[1] # Pointed(m, place)}
  /\ \A q \in Places(m2) : Pointed(m2, q) = IF q = place THEN NULL ELSE Pointed(m, q)
  /\ \A x \in Used(m2.heap) :
       /\ m2.node[x].bit_pos = m.node[x].bit_pos /\ m2.node[x].number = m.node[x].number
       /\ m.node[x].bit_pos = 1 => m2.node[x] = m.node[x]
       /\ place = Root \/ place[1] # x => m2.node[x].zero = m.node[x].zero /\ m2.node[x].one = m.node[x].one

(* A node that has nothing below it is removed. *)
LEMMA NodeRemoved ==
  ASSUME NEW m, NodesOK(m), Shaped(m), Sound(m), NEW P \in Places(m), Pointed(m, P) # NULL,
         \A d \in Used(m.heap) : Covers(m.node[Pointed(m, P)], m.node[d]) => d = Pointed(m, P)
  PROVE  Removed(m, RemoveNode(m, P), P)
<1> DEFINE c == Pointed(m, P)
           m1 == [m EXCEPT !.heap = Release(@, c)]
           m2 == RemoveNode(m, P)
<1>1. c \in Used(m.heap) /\ c \in DOMAIN m.node /\ c # NULL BY DEF Sound, NodesOK
<1>2. Freed(m, m1, c) BY <1>1, NodeFreed
<1>3. m2 = Point(m1, P, NULL) BY DEF RemoveNode
<1> HIDE DEF m1
<1>4. /\ NodesOK(m1) /\ Shaped(m1) /\ m1.node = m.node /\ m1.tree = m.tree
      /\ Used(m1.heap) = Used(m.heap) \ {c} /\ Places(m1) = {q \in Places(m) : q = Root \/ q[1] # c}
  BY <1>2 DEF Freed
<1>5. P = Root \/ P[1] # c
  <2> SUFFICES ASSUME P # Root, P[1] = c PROVE FALSE OBVIOUS
  <2>1. m.node[c].bit_pos < m.node[c].bit_pos BY <1>1 DEF Shaped, Through
  <2>2. m.node[c].bit_pos \in Nat BY <1>1, NodeIs, Position DEF IsNode
  <2> QED BY <2>1, <2>2
<1>6. P \in Places(m1) /\ Typed(m1) BY <1>4, <1>5 DEF Typed, NodesOK
<1>7. OnlyPointed(m1, m2, P, NULL) BY <1>3, <1>6, PointChanges DEF NULL
<1> HIDE DEF m2
<1>8. /\ Typed(m2) /\ m2.heap = m1.heap /\ DOMAIN m2.node = DOMAIN m1.node /\ Places(m2) = Places(m1)
      /\ \A q \in Places(m1) : Pointed(m2, q) = IF q = P THEN NULL ELSE Pointed(m1, q)
      /\ \A x \in DOMAIN m1.node :
          /\ m2.node[x].bit_pos = m1.node[x].bit_pos /\ m2.node[x].number = m1.node[x].number
          /\ (x \notin Interior(m1) => m2.node[x] = m1.node[x])
  BY <1>7 DEF OnlyPointed
<1>9. /\ Used(m2.heap) = Used(m.heap) \ {c} /\ P \in Places(m2)
      /\ Places(m2) = {q \in Places(m) : q = Root \/ q[1] # c}
  BY <1>4, <1>6, <1>8
<1>10. \A q \in Places(m2) : q \in Places(m) /\ Pointed(m2, q) = IF q = P THEN NULL ELSE Pointed(m, q)
  BY <1>4, <1>8, <1>9 DEF Pointed
<1>11. NodesOK(m2)
  <2>1. \A q \in Places(m2) : Pointed(m2, q) \in DOMAIN m2.node \cup {NULL} BY <1>4, <1>8, <1>10 DEF NodesOK
  <2>2. HeapOK(m2.heap) /\ DOMAIN m2.node \subseteq Blocks(m2.heap) BY <1>4, <1>8 DEF NodesOK
  <2> QED BY <1>8, <2>1, <2>2 DEF NodesOK, Typed
<1>12. \A x \in Used(m.heap) : /\ m2.node[x].bit_pos = m.node[x].bit_pos /\ m2.node[x].number = m.node[x].number
  BY <1>4, <1>8 DEF NodesOK
<1>13. Kept(m, m2) BY <1>12 DEF Kept
<1>14. ASSUME NEW q \in Places(m2), NEW d \in Used(m2.heap), Through(m2, q, m2.node[d])
      PROVE  Pointed(m2, q) # NULL /\ Covers(m2.node[Pointed(m2, q)], m2.node[d])
  <2>1. q \in Places(m) /\ d \in Used(m.heap) /\ d # c BY <1>9
  <2>2. Through(m, q, m.node[d]) BY <1>13, <1>14, <2>1, SameWay
  <2>3. Pointed(m, q) # NULL /\ Covers(m.node[Pointed(m, q)], m.node[d]) BY <2>1, <2>2 DEF Shaped
  <2>4. q # P BY <2>1, <2>3
  <2>5. Pointed(m2, q) = Pointed(m, q) /\ Pointed(m, q) \in Used(m.heap) BY <1>10, <2>1, <2>3, <2>4 DEF Sound
  <2>6. Covers(m.node[Pointed(m, q)], m2.node[d]) BY <1>13, <2>1, <2>3, SameWay
  <2> QED BY <1>13, <2>3, <2>5, <2>6, SameWay
<1>15. ASSUME NEW q \in Places(m2), Pointed(m2, q) # NULL
       PROVE  Through(m2, q, m2.node[Pointed(m2, q)]) /\ Pointed(m2, q) \in Used(m2.heap)
  <2>1. q \in Places(m) /\ q # P /\ Pointed(m2, q) = Pointed(m, q) BY <1>10, <1>15
  <2>2. Pointed(m, q) \in Used(m.heap) /\ Through(m, q, m.node[Pointed(m, q)]) BY <1>15, <2>1 DEF Shaped, Sound
  <2>3. Pointed(m, q) # c BY <1>1, <2>1, PointedOnce
  <2> QED BY <1>9, <1>13, <2>1, <2>2, <2>3, SameWay
<1>16. ASSUME NEW x \in Used(m2.heap), NEW y \in Used(m2.heap),
              Covers(m2.node[x], m2.node[y]), Covers(m2.node[y], m2.node[x])
       PROVE  x = y
  <2>1. x \in Used(m.heap) /\ y \in Used(m.heap) BY <1>9
  <2>2. Covers(m.node[x], m.node[y]) /\ Covers(m.node[y], m.node[x]) BY <1>13, <1>16, <2>1, SameWay
  <2> QED BY <2>1, <2>2 DEF Shaped
<1>17. Shaped(m2) BY <1>14, <1>15, <1>16 DEF Shaped
<1>18. Sound(m2) BY <1>15 DEF Sound
<1>19. ASSUME NEW x \in Used(m2.heap)
       PROVE /\ m2.node[x].bit_pos = m.node[x].bit_pos /\ m2.node[x].number = m.node[x].number
             /\ m.node[x].bit_pos = 1 => m2.node[x] = m.node[x]
             /\ P = Root \/ P[1] # x => m2.node[x].zero = m.node[x].zero /\ m2.node[x].one = m.node[x].one
  <2>1. x \in Used(m.heap) /\ x \in DOMAIN m.node BY <1>9 DEF NodesOK
  <2>2. m.node[x].bit_pos = 1 => m2.node[x] = m.node[x] BY <1>4, <1>8, <2>1 DEF Interior, IsLeaf
  <2>3. ASSUME P = Root \/ P[1] # x, m.node[x].bit_pos # 1, NEW s \in {"zero", "one"}
        PROVE  m2.node[x][s] = m.node[x][s]
    <3>1. m2.node[x].bit_pos # 1 BY <1>12, <2>1, <2>3
    <3> DEFINE q == <<x, s>>
    <3>2. q \in Places(m2) /\ q # Root
      <4>1. x \in Used(m2.heap) /\ s \in {"zero", "one"} OBVIOUS
      <4>2. PlaceOf(m2, x, s) BY ONLY <3>1, <4>1, IsPlace
      <4> QED BY ONLY <4>2 DEF PlaceOf
    <3>3. q[1] = x /\ q[2] = s OBVIOUS
    <3> HIDE DEF q
    <3>4. P # q BY <2>3, <3>2, <3>3
    <3> QED BY <1>10, <3>2, <3>3, <3>4 DEF Pointed
  <2>4. ASSUME P = Root \/ P[1] # x, m.node[x].bit_pos # 1
        PROVE  m2.node[x].zero = m.node[x].zero /\ m2.node[x].one = m.node[x].one
    <3>1. m2.node[x]["zero"] = m.node[x]["zero"] BY <2>3, <2>4
    <3>2. m2.node[x]["one"] = m.node[x]["one"] BY <2>3, <2>4
    <3> QED BY <3>1, <3>2
  <2> QED BY <1>12, <2>1, <2>2, <2>4
<1> QED BY <1>9, <1>10, <1>11, <1>13, <1>17, <1>18, <1>19 DEF Removed, m2

\* In m2 the field of the leaf c for side s has the value k, and all else is as before.
Recounted(m, m2, c, s, k) ==
  /\ NodesOK(m2) /\ Shaped(m2) /\ m2.heap = m.heap /\ m2.tree = m.tree /\ Places(m2) = Places(m)
  /\ \A q \in Places(m) : Pointed(m2, q) = Pointed(m, q)
  /\ \A x \in Used(m.heap) : /\ m2.node[x].bit_pos = m.node[x].bit_pos /\ m2.node[x].number = m.node[x].number
                             /\ x # c => m2.node[x] = m.node[x]
  /\ m2.node[c][s] = k /\ \A t \in {"zero", "one"} : t # s => m2.node[c][t] = m.node[c][t]

(* A field of a leaf is set. *)
LEMMA LeafRecounted ==
  ASSUME NEW m, NodesOK(m), Shaped(m), NEW c \in Used(m.heap), m.node[c].bit_pos = 1,
         NEW s \in {"zero", "one"}, NEW k \in Nat
  PROVE  Recounted(m, [m EXCEPT !.node[c][s] = k], c, s, k)
<1> DEFINE a == [m.node[c] EXCEPT ![s] = k]
           m2 == [m EXCEPT !.node[c][s] = k]
<1>1. c \in DOMAIN m.node /\ m.node[c] \in NodeRecord /\ m.node \in [DOMAIN m.node -> NodeRecord] BY DEF NodesOK
<1>2. /\ a \in NodeRecord /\ a[s] = k /\ a.bit_pos = m.node[c].bit_pos /\ a.number = m.node[c].number
      /\ \A t \in {"zero", "one"} : t # s => a[t] = m.node[c][t]
  BY <1>1, FieldSet
<1>3. m2 = [m EXCEPT !.node = [m.node EXCEPT ![c] = a]] BY <1>1
<1> HIDE DEF a
<1>4. /\ m2 \in [heap : {m2.heap}, node : {m2.node}, tree : {m2.tree}]
      /\ m2.heap = m.heap /\ m2.tree = m.tree /\ m2.node = [m.node EXCEPT ![c] = a]
  BY <1>3 DEF NodesOK
<1> HIDE DEF m2
<1>5. /\ DOMAIN m2.node = DOMAIN m.node /\ m2.node[c] = a /\ m2.node \in [DOMAIN m.node -> NodeRecord]
      /\ \A x \in DOMAIN m.node : x # c => m2.node[x] = m.node[x]
  BY <1>1, <1>2, <1>4
<1>6. \A x \in Used(m.heap) : /\ m2.node[x].bit_pos = m.node[x].bit_pos /\ m2.node[x].number = m.node[x].number
                              /\ x # c => m2.node[x] = m.node[x]
  BY <1>2, <1>5 DEF NodesOK
<1>7. Places(m2) = Places(m) BY <1>4, <1>6 DEF Places, Interior, IsLeaf
<1>8. ASSUME NEW q \in Places(m) PROVE Pointed(m2, q) = Pointed(m, q)
  <2>1. q # Root => q[1] \in Used(m.heap) /\ q[1] # c
    <3>1. q # Root => q[1] \in Used(m.heap) /\ m.node[q[1]].bit_pos > 1 BY PlaceIs
    <3>2. ~(1 > 1) OBVIOUS
    <3> QED BY <3>1, <3>2
  <2> QED BY <1>4, <1>6, <2>1 DEF Pointed
<1>9. NodesOK(m2) BY <1>4, <1>5, <1>7, <1>8 DEF NodesOK
<1>10. Shaped(m2)
  <2>1. Kept(m, m2) BY <1>6 DEF Kept
  <2>2. ASSUME NEW x \in DOMAIN m.node
        PROVE  m2.node[x].bit_pos = m.node[x].bit_pos /\ m2.node[x].number = m.node[x].number
    BY <1>2, <1>5
  <2>3. \A q \in Places(m) : Pointed(m, q) # NULL => Pointed(m, q) \in DOMAIN m.node BY DEF NodesOK
  <2>4. Used(m2.heap) = Used(m.heap) BY <1>4
  <2> QED BY <1>7, <1>8, <2>1, <2>2, <2>3, <2>4, SameShape
<1>11. Recounted(m, m2, c, s, k) BY <1>2, <1>4, <1>5, <1>6, <1>7, <1>8, <1>9, <1>10 DEF Recounted
<1> QED BY <1>11 DEF m2

(* What is below a node is on one of its sides. *)
LEMMA BelowSide ==
  ASSUME NEW m, NodesOK(m), Shaped(m), NEW c \in Used(m.heap), NEW d \in Used(m.heap), c # d,
         Covers(m.node[c], m.node[d])
  PROVE  LET q == <<c, Side(m.node[d].number, m.node[c].bit_pos)>>
         IN /\ q \in Places(m) /\ q # Root /\ q[1] = c /\ q[2] \in {"zero", "one"}
            /\ Through(m, q, m.node[d]) /\ m.node[c].bit_pos > 1
<1> DEFINE a == m.node[c]
           b == m.node[d]
           s == Side(b.number, a.bit_pos)
           q == <<c, s>>
<1>1. IsNode(a) /\ IsNode(b) BY NodeIs DEF NodesOK
<1>2. a.bit_pos # b.bit_pos
  <2> SUFFICES ASSUME a.bit_pos = b.bit_pos PROVE FALSE OBVIOUS
  <2>1. Covers(b, a) BY <1>1, CoversBoth
  <2> QED BY <2>1 DEF Shaped
<1>3. /\ a.bit_pos \in Nat /\ b.bit_pos \in Nat /\ b.bit_pos >= 1
  BY <1>1, Position DEF IsNode
<1>4. b.bit_pos < a.bit_pos /\ a.bit_pos > 1
  <2>1. b.bit_pos <= a.bit_pos BY DEF Covers
  <2> HIDE DEF a, b
  <2> QED BY <1>2, <1>3, <2>1
<1>5. q \in Places(m) /\ q # Root /\ q[1] = c /\ q[2] = s /\ s \in {"zero", "one"}
  <2>1. s \in {"zero", "one"} BY SideIs
  <2>2. m.node[c].bit_pos # 1 BY <1>4
  <2> HIDE DEF s
  <2>3. PlaceOf(m, c, s) BY <2>1, <2>2, IsPlace
  <2> QED BY ONLY <2>1, <2>3 DEF PlaceOf
<1>6. Through(m, q, b)
  <2> HIDE DEF q
  <2> QED BY <1>4, <1>5 DEF Through
<1> QED BY <1>4, <1>5, <1>6

(* A node without subtrees has nothing below it. *)
LEMMA NothingBelow ==
  ASSUME NEW m, NodesOK(m), Shaped(m), NEW c \in Used(m.heap),
         m.node[c].bit_pos = 1 \/ (m.node[c].zero = 0 /\ m.node[c].one = 0),
         NEW d \in Used(m.heap), Covers(m.node[c], m.node[d])
  PROVE  d = c
<1> SUFFICES ASSUME d # c PROVE FALSE OBVIOUS
<1> DEFINE q == <<c, Side(m.node[d].number, m.node[c].bit_pos)>>
<1>1. q \in Places(m) /\ q # Root /\ q[1] = c /\ q[2] \in {"zero", "one"} /\ Through(m, q, m.node[d])
      /\ m.node[c].bit_pos > 1
  BY BelowSide
<1> HIDE DEF q
<1>2. Pointed(m, q) # NULL BY <1>1 DEF Shaped
<1>3. Pointed(m, q) = m.node[c][q[2]] BY <1>1 DEF Pointed
<1>4. ~(1 > 1) OBVIOUS
<1>5. m.node[c].zero = 0 /\ m.node[c].one = 0 BY <1>1, <1>4
<1> QED BY <1>1, <1>2, <1>3, <1>5 DEF NULL

(* Every node has a place that points to it. *)
LEMMA PointedAtAll ==
  ASSUME NEW m, NodesOK(m), Shaped(m), Sound(m), NEW d \in Used(m.heap)
  PROVE  \E q \in Places(m) : Pointed(m, q) = d
<1> DEFINE key(q) == IF q = Root THEN MAX_BITS + 1 ELSE m.node[q[1]].bit_pos
           T == {key(q) : q \in {r \in Places(m) : Through(m, r, m.node[d])}}
<1>1. \A q \in Places(m) : key(q) \in Nat
  <2> SUFFICES ASSUME NEW q \in Places(m) PROVE key(q) \in Nat OBVIOUS
  <2>1. CASE q = Root BY <2>1, RadixAssumption
  <2>2. CASE q # Root
    <3>1. IsNode(m.node[q[1]]) BY <2>2, PlaceIs, NodeIs
    <3> QED BY <2>2, <3>1, Position DEF IsNode
  <2> QED BY <2>1, <2>2
<1>2. T # {}
  <2>1. Root \in Places(m) /\ Through(m, Root, m.node[d]) BY DEF Places, Through
  <2> QED BY <2>1
<1>3. PICK k \in T : \A j \in T : k <= j
  <2>1. T \in SUBSET Nat BY <1>1
  <2> HIDE DEF T
  <2> QED BY <1>2, <2>1, LeastNumber
<1>4. PICK q \in Places(m) : k = key(q) /\ Through(m, q, m.node[d]) OBVIOUS
<1>5. \A r \in Places(m) : Through(m, r, m.node[d]) => key(q) <= key(r) BY <1>3, <1>4
<1> DEFINE e == Pointed(m, q)
<1>6. e \in Used(m.heap) /\ Covers(m.node[e], m.node[d]) /\ Through(m, q, m.node[e]) BY <1>4 DEF Shaped, Sound
<1>7. ASSUME e # d PROVE FALSE
  <2> DEFINE r == <<e, Side(m.node[d].number, m.node[e].bit_pos)>>
  <2>1. r \in Places(m) /\ r # Root /\ r[1] = e /\ Through(m, r, m.node[d])
    <3> HIDE DEF e
    <3> QED BY <1>6, <1>7, BelowSide
  <2> HIDE DEF r
  <2>2. key(r) = m.node[e].bit_pos BY <2>1
  <2>3. IsNode(m.node[e]) BY <1>6, NodeIs DEF NodesOK
  <2>4. m.node[e].bit_pos \in Nat /\ m.node[e].bit_pos <= MAX_BITS /\ MAX_BITS \in Nat
    BY <2>3, Position, RadixAssumption DEF IsNode
  <2>5. m.node[e].bit_pos < key(q)
    <3>1. CASE q = Root BY <2>4, <3>1
    <3>2. CASE q # Root BY <1>6, <3>2 DEF Through
    <3> QED BY <3>1, <3>2
  <2>6. key(q) <= key(r) BY <1>5, <2>1
  <2>7. key(q) \in Nat BY <1>1
  <2> HIDE DEF key, e
  <2> QED BY <2>2, <2>4, <2>5, <2>6, <2>7
<1> QED BY <1>7

-----------------------------------------------------------------------------
(* A6, the calls that have not returned.                                   *)

\* cs are the places on the way from the root to a node of m.
OnStack(m, cs) ==
  /\ cs \in Seq(Places(m)) /\ Len(cs) > 0 /\ cs[1] = Root
  /\ \A k \in 2 .. Len(cs) : cs[k] # Root /\ cs[k][1] = Pointed(m, cs[k - 1])
  /\ \A j \in 2 .. Len(cs) : \A k \in 1 .. j - 1 : Through(m, cs[k], m.node[cs[j][1]])

(* A sequence is over any set that all its elements are in. *)
LEMMA SeqOver ==
  ASSUME NEW S, NEW T, NEW s \in Seq(S), \A i \in 1 .. Len(s) : s[i] \in T PROVE s \in Seq(T)
<1>1. Len(s) \in Nat /\ s = [i \in 1 .. Len(s) |-> s[i]] OBVIOUS
<1>2. s \in [1 .. Len(s) -> T] BY <1>1
<1> QED BY <1>1, <1>2

(* The last call and those before it. *)
LEMMA FrontIs ==
  ASSUME NEW S, NEW cs \in Seq(S), Len(cs) > 0
  PROVE  /\ Last(cs) = cs[Len(cs)] /\ Last(cs) \in S /\ Len(cs) \in Nat /\ Len(cs) \in 1 .. Len(cs)
         /\ Front(cs) \in Seq(S) /\ Len(Front(cs)) = Len(cs) - 1
         /\ \A k \in 1 .. Len(cs) - 1 : Front(cs)[k] = cs[k]
<1>1. Len(cs) \in Nat /\ Len(cs) \in 1 .. Len(cs) OBVIOUS
<1>2. Last(cs) = cs[Len(cs)] BY DEF Last
<1>3. Front(cs) = [k \in 1 .. Len(cs) - 1 |-> cs[k]]
  <2>1. \A k \in 1 .. Len(cs) - 1 : k + 1 - 1 = k OBVIOUS
  <2> QED BY <1>1, <2>1 DEF Front
<1>4. \A k \in 1 .. Len(cs) - 1 : cs[k] \in S OBVIOUS
<1> DEFINE f == [k \in 1 .. Len(cs) - 1 |-> cs[k]]
<1>5. Len(cs) - 1 \in Nat BY <1>1
<1>6. f \in [1 .. Len(cs) - 1 -> S] BY <1>4
<1>7. f \in Seq(S) BY <1>5, <1>6
<1>8. Len(f) = Len(cs) - 1 BY <1>5
<1> QED BY <1>1, <1>2, <1>3, <1>7, <1>8

(* A call is for another node than the calls before it. *)
LEMMA StackApart ==
  ASSUME NEW m, NodesOK(m), NEW cs, OnStack(m, cs), NEW k \in 2 .. Len(cs), NEW j \in 1 .. k - 1
  PROVE  /\ cs[j] # cs[k] /\ (cs[j] # Root => cs[j][1] # cs[k][1])
         /\ cs[j] \in Places(m) /\ cs[k] \in Places(m) /\ cs[k] # Root
<1>1. cs[k] # Root /\ Through(m, cs[j], m.node[cs[k][1]]) BY DEF OnStack
<1>2. Len(cs) \in Nat /\ j \in 1 .. Len(cs) /\ k \in 1 .. Len(cs) BY DEF OnStack
<1>3. cs[j] \in Places(m) /\ cs[k] \in Places(m) BY <1>2 DEF OnStack
<1>4. ASSUME cs[j] # Root, cs[j][1] = cs[k][1] PROVE FALSE
  <2>1. m.node[cs[k][1]].bit_pos < m.node[cs[k][1]].bit_pos BY <1>1, <1>4 DEF Through
  <2>2. IsNode(m.node[cs[k][1]]) BY <1>1, <1>3, PlaceIs, NodeIs
  <2>3. m.node[cs[k][1]].bit_pos \in Nat BY <2>2, Position DEF IsNode
  <2> QED BY <2>1, <2>3
<1> QED BY <1>1, <1>3, <1>4

(* The way stays when its nodes and the pointers on it do. *)
LEMMA StackKept ==
  ASSUME NEW m, NodesOK(m), NEW cs, OnStack(m, cs), NEW m2, Kept(m, m2),
         \A k \in 1 .. Len(cs) : cs[k] \in Places(m2),
         \A k \in 1 .. Len(cs) - 1 : Pointed(m2, cs[k]) = Pointed(m, cs[k])
  PROVE  OnStack(m2, cs)
<1>1. cs \in Seq(Places(m)) /\ Len(cs) \in Nat /\ Len(cs) > 0 BY DEF OnStack
<1>2. cs \in Seq(Places(m2)) BY <1>1
<1>3. ASSUME NEW k \in 2 .. Len(cs) PROVE cs[k] # Root /\ cs[k][1] = Pointed(m2, cs[k - 1])
  <2>1. k - 1 \in 1 .. Len(cs) - 1 BY <1>1
  <2>2. cs[k] # Root /\ cs[k][1] = Pointed(m, cs[k - 1]) BY DEF OnStack
  <2> QED BY <2>1, <2>2
<1>4. ASSUME NEW j \in 2 .. Len(cs), NEW k \in 1 .. j - 1 PROVE Through(m2, cs[k], m2.node[cs[j][1]])
  <2>1. Through(m, cs[k], m.node[cs[j][1]]) BY DEF OnStack
  <2>2. cs[k] \in Places(m) /\ cs[j] \in Places(m) /\ cs[j] # Root BY StackApart
  <2>3. cs[j][1] \in Used(m.heap) BY <2>2, PlaceIs
  <2>4. Through(m, cs[k], m2.node[cs[j][1]]) BY <2>1, <2>2, <2>3, SameWay
  <2> QED BY <2>2, <2>4, SameWay
<1> QED BY <1>1, <1>2, <1>3, <1>4 DEF OnStack

\* The calls cs2 are those of cs and one for q.
Longer(m, cs, q, cs2) == /\ OnStack(m, cs2) /\ Len(cs2) = Len(cs) + 1 /\ Last(cs2) = q
                         /\ \A k \in 1 .. Len(cs) : cs2[k] = cs[k]

(* A call is made for a side of a node. *)
LEMMA Pushed ==
  ASSUME NEW m, NodesOK(m), Shaped(m), NEW cs, OnStack(m, cs), NEW c, c = Pointed(m, Last(cs)),
         c \in Used(m.heap), m.node[c].bit_pos # 1, NEW s \in {"zero", "one"}
  PROVE  Longer(m, cs, <<c, s>>, Append(cs, <<c, s>>))
<1> DEFINE N == Len(cs)
           q == <<c, s>>
           cs2 == Append(cs, q)
<1>1. cs \in Seq(Places(m)) /\ N \in Nat /\ N > 0 BY DEF OnStack
<1>2. q \in Places(m) /\ q # Root /\ q[1] = c /\ q[2] = s
  <2>1. PlaceOf(m, c, s) BY IsPlace
  <2> QED BY ONLY <2>1 DEF PlaceOf
<1> HIDE DEF q
<1>3. /\ cs2 \in Seq(Places(m)) /\ Len(cs2) = N + 1 /\ cs2[N + 1] = q
      /\ \A k \in 1 .. N : cs2[k] = cs[k]
  BY <1>1, <1>2
<1>4. Last(cs2) = q BY <1>3 DEF Last
<1> HIDE DEF cs2
<1>5. Last(cs) = cs[N] /\ cs[N] \in Places(m) BY <1>1, FrontIs
<1>6. ASSUME NEW k \in 2 .. N + 1 PROVE cs2[k] # Root /\ cs2[k][1] = Pointed(m, cs2[k - 1])
  <2>1. CASE k = N + 1
    <3>1. k - 1 = N /\ N \in 1 .. N BY <1>1, <2>1
    <3> QED BY <1>2, <1>3, <1>5, <2>1, <3>1
  <2>2. CASE k # N + 1
    <3>1. k \in 2 .. N /\ k \in 1 .. N /\ k - 1 \in 1 .. N BY <1>1, <2>2
    <3> QED BY <1>3, <3>1 DEF OnStack
  <2> QED BY <2>1, <2>2
<1>7. IsNode(m.node[c]) BY NodeIs DEF NodesOK
<1>8. Through(m, cs[N], m.node[c])
  <2>1. c # NULL BY NodeIs DEF NodesOK
  <2> QED BY <1>5, <2>1 DEF Shaped
<1>9. ASSUME NEW k \in 1 .. N PROVE Through(m, cs[k], m.node[c])
  <2>1. CASE k = N BY <1>8, <2>1
  <2>2. CASE k # N
    <3>1. N \in 2 .. N /\ k \in 1 .. N - 1 BY <1>1, <2>2
    <3>2. Through(m, cs[k], m.node[cs[N][1]]) BY <3>1 DEF OnStack
    <3>3. cs[N] # Root /\ cs[k] \in Places(m) BY <3>1, StackApart
    <3>4. Covers(m.node[cs[N][1]], m.node[c]) BY <1>8, <3>3 DEF Through
    <3>5. IsNode(m.node[cs[N][1]]) BY <1>5, <3>3, PlaceIs, NodeIs
    <3> QED BY <1>7, <3>2, <3>3, <3>4, <3>5, ThroughBelow
  <2> QED BY <2>1, <2>2
<1>10. ASSUME NEW j \in 2 .. N + 1, NEW k \in 1 .. j - 1 PROVE Through(m, cs2[k], m.node[cs2[j][1]])
  <2>1. k \in 1 .. N /\ cs2[k] = cs[k]
    <3>1. k \in 1 .. N BY <1>1
    <3> QED BY <1>3, <3>1
  <2>2. CASE j = N + 1 BY <1>2, <1>3, <1>9, <2>1, <2>2
  <2>3. CASE j # N + 1
    <3>1. j \in 2 .. N /\ j \in 1 .. N BY <1>1, <2>3
    <3> QED BY <1>3, <2>1, <3>1 DEF OnStack
  <2> QED BY <2>2, <2>3
<1>11. cs2[1] = Root
  <2>1. 1 \in 1 .. N BY <1>1
  <2> QED BY <1>3, <2>1 DEF OnStack
<1>12. OnStack(m, cs2) BY <1>1, <1>3, <1>6, <1>10, <1>11 DEF OnStack
<1> QED BY <1>3, <1>4, <1>12 DEF Longer, cs2, q

(* A call returns. *)
LEMMA Popped ==
  ASSUME NEW m, NEW cs, OnStack(m, cs), Len(cs) > 1
  PROVE  OnStack(m, Front(cs)) /\ Last(Front(cs)) = cs[Len(cs) - 1]
<1> DEFINE N == Len(cs)
           cs2 == Front(cs)
<1>1. cs \in Seq(Places(m)) /\ N \in Nat /\ N > 1 BY DEF OnStack
<1>2. cs2 \in Seq(Places(m)) /\ Len(cs2) = N - 1 /\ \A k \in 1 .. N - 1 : cs2[k] = cs[k] BY <1>1, FrontIs
<1> HIDE DEF cs2
<1>3. Last(cs2) = cs[N - 1]
  <2>1. N - 1 \in 1 .. N - 1 BY <1>1
  <2> QED BY <1>2, <2>1 DEF Last
<1>4. ASSUME NEW k \in 2 .. N - 1 PROVE cs2[k] # Root /\ cs2[k][1] = Pointed(m, cs2[k - 1])
  <2>1. k \in 1 .. N - 1 /\ k \in 2 .. N /\ k - 1 \in 1 .. N - 1 BY <1>1
  <2> QED BY <1>2, <2>1 DEF OnStack
<1>5. ASSUME NEW j \in 2 .. N - 1, NEW k \in 1 .. j - 1 PROVE Through(m, cs2[k], m.node[cs2[j][1]])
  <2>1. j \in 2 .. N /\ j \in 1 .. N - 1 /\ k \in 1 .. N - 1 BY <1>1
  <2> QED BY <1>2, <2>1 DEF OnStack
<1>6. cs2[1] = Root
  <2>1. 1 \in 1 .. N - 1 BY <1>1
  <2> QED BY <1>2, <2>1 DEF OnStack
<1>7. OnStack(m, cs2) BY <1>1, <1>2, <1>4, <1>5, <1>6 DEF OnStack
<1> QED BY <1>3, <1>7 DEF cs2

(* The call for the other side of a node follows. *)
LEMMA Turned ==
  ASSUME NEW m, NodesOK(m), NEW cs, OnStack(m, cs), Len(cs) > 1, NEW s \in {"zero", "one"}
  PROVE  LET c == Last(cs)[1]
             cs2 == Append(Front(cs), <<c, s>>)
         IN /\ OnStack(m, cs2) /\ Len(cs2) = Len(cs) /\ Last(cs2) = <<c, s>>
            /\ \A k \in 1 .. Len(cs) - 1 : cs2[k] = cs[k]
<1> DEFINE N == Len(cs)
           c == Last(cs)[1]
           q == <<c, s>>
           f == Front(cs)
           cs2 == Append(f, q)
<1>1. cs \in Seq(Places(m)) /\ N \in Nat /\ N > 1 BY DEF OnStack
<1>2. f \in Seq(Places(m)) /\ Len(f) = N - 1 /\ (\A k \in 1 .. N - 1 : f[k] = cs[k]) /\ Last(cs) = cs[N]
      /\ cs[N] \in Places(m)
  BY <1>1, FrontIs
<1> HIDE DEF f
<1>3. cs[N] # Root
  <2>1. N \in 2 .. N BY <1>1
  <2> QED BY <2>1 DEF OnStack
<1>4. c \in Used(m.heap) /\ m.node[c].bit_pos > 1 BY <1>2, <1>3, PlaceIs
<1>5. q \in Places(m) /\ q # Root /\ q[1] = c
  <2>1. m.node[c].bit_pos # 1
    <3>1. ~(1 > 1) OBVIOUS
    <3> QED BY <1>4, <3>1
  <2> HIDE DEF c
  <2>2. PlaceOf(m, c, s) BY <1>4, <2>1, IsPlace
  <2> QED BY ONLY <2>2 DEF PlaceOf
<1> HIDE DEF q, c
<1>6. cs2 \in Seq(Places(m)) /\ Len(cs2) = N /\ cs2[N] = q /\ \A k \in 1 .. N - 1 : cs2[k] = cs[k]
  <2>1. cs2 \in Seq(Places(m)) /\ Len(cs2) = N - 1 + 1 /\ cs2[N - 1 + 1] = q /\ \A k \in 1 .. N - 1 : cs2[k] = f[k]
    BY <1>1, <1>2, <1>5
  <2>2. N - 1 + 1 = N BY <1>1
  <2> HIDE DEF cs2
  <2> QED BY <1>2, <2>1, <2>2
<1> HIDE DEF cs2
<1>7. Last(cs2) = q BY <1>6 DEF Last
<1>8. \A k \in 1 .. N : cs2[k] # Root => cs2[k][1] = cs[k][1]
  <2> SUFFICES ASSUME NEW k \in 1 .. N, cs2[k] # Root PROVE cs2[k][1] = cs[k][1] OBVIOUS
  <2>1. CASE k = N BY <1>2, <1>5, <1>6, <2>1 DEF c
  <2>2. CASE k # N
    <3>1. k \in 1 .. N - 1 BY <1>1, <2>2
    <3> QED BY <1>6, <3>1
  <2> QED BY <2>1, <2>2
<1>9. ASSUME NEW k \in 2 .. N PROVE cs2[k] # Root /\ cs2[k][1] = Pointed(m, cs2[k - 1])
  <2>1. k \in 1 .. N /\ k - 1 \in 1 .. N - 1 BY <1>1
  <2>2. cs[k] # Root /\ cs[k][1] = Pointed(m, cs[k - 1]) BY DEF OnStack
  <2>3. cs2[k] # Root
    <3>1. CASE k = N BY <1>5, <1>6, <3>1
    <3>2. CASE k # N
      <4>1. k \in 1 .. N - 1 BY <1>1, <3>2
      <4> QED BY <1>6, <2>2, <4>1
    <3> QED BY <3>1, <3>2
  <2> QED BY <1>6, <1>8, <2>1, <2>2, <2>3
<1>10. ASSUME NEW j \in 2 .. N, NEW k \in 1 .. j - 1 PROVE Through(m, cs2[k], m.node[cs2[j][1]])
  <2>1. k \in 1 .. N - 1 /\ j \in 1 .. N BY <1>1
  <2>2. cs2[j][1] = cs[j][1] BY <1>8, <1>9, <2>1
  <2>3. Through(m, cs[k], m.node[cs[j][1]]) BY DEF OnStack
  <2> QED BY <1>6, <2>1, <2>2, <2>3
<1>11. cs2[1] = Root
  <2>1. 1 \in 1 .. N - 1 BY <1>1
  <2> QED BY <1>6, <2>1 DEF OnStack
<1>12. OnStack(m, cs2) BY <1>1, <1>6, <1>9, <1>10, <1>11 DEF OnStack
<1> QED BY <1>6, <1>7, <1>12 DEF cs2, q, c, f

-----------------------------------------------------------------------------
(* A6, the inductive invariant of the radix sort.                          *)

\* What is known of main's variables and of the position in add_number.
Control == /\ doing \in {"main", "add", "take", "write", "release", "ended"}
           /\ entry \in Numbers \cup (-MaxTake .. -1) /\ limit \in 0 .. MaxTake
           /\ batch \in Seq(Numbers) /\ Len(batch) <= Batch
           /\ reads \in 0 .. MaxReads /\ bit_pos \in Positions /\ back \in BOOLEAN
           /\ parent \in Places(memory)

\* The places that release_tree has been called for, and that may point to a free block.
Gone(cs, b, place) == \/ \E k \in 2 .. Len(cs) : cs[k][2] = "one" /\ place = <<cs[k][1], "zero">>
                      \/ b /\ place = Last(cs)

\* No place points to a free block but those that release_tree has left.
Linked == IF doing \in {"release", "ended"}
          THEN /\ \A q \in Places(memory) : Pointed(memory, q) \in Nodes \cup {NULL} \/ Gone(calls, back, q)
               /\ doing = "ended" => Nodes = {}
          ELSE Sound(memory)

\* The number that is added is searched for through parent.
Adding == IF doing = "add"
          THEN /\ entry \in Numbers
               /\ Through(memory, parent, [bit_pos |-> 1, number |-> entry])
               /\ bit_pos = IF parent = Root THEN MAX_BITS ELSE memory.node[parent[1]].bit_pos \div 2
          ELSE parent = Root /\ bit_pos = MAX_BITS

\* There are calls below the outermost one in take_numbers_2 and release_tree alone.
Stacked == /\ OnStack(memory, calls)
           /\ doing \notin {"take", "release"} => Len(calls) = 1 /\ (doing # "ended" => ~back)

\* There is nothing left in what has been visited.
Visited(m, cs, b) ==
  /\ \A k \in 2 .. Len(cs), x \in Used(m.heap) :
       cs[k][2] = "one" => ~Through(m, <<cs[k][1], "zero">>, m.node[x])
  /\ b => \A x \in Used(m.heap) : ~Through(m, Last(cs), m.node[x])

\* So it is while a batch has room, or nodes are released.
Cleared == doing = "release" \/ (doing = "take" /\ Len(batch) < take_max) => Visited(memory, calls, back)

\* A node without any number is one that a call has not come back from.
Bare(m, cs, b) == \A c \in Used(m.heap) : m.node[c].zero = 0 /\ m.node[c].one = 0 =>
                    \E k \in 1 .. Len(cs) : Pointed(m, cs[k]) = c /\ (k = Len(cs) => ~b)
Filled == IF doing = "take" THEN Bare(memory, calls, back) ELSE NoneEmpty(memory)

\* The numbers asked for and those taken.
Asked == /\ doing \in {"take", "write"} => Len(batch) <= take_max /\ limit > 0
         /\ doing \notin {"take", "write"} => batch = <<>> /\ limit = 0

InvRadix == /\ Control /\ NodesOK(memory) /\ Shaped(memory) /\ Linked
            /\ Adding /\ Stacked /\ Cleared /\ Filled /\ Asked

(* The empty tree is in order. *)
LEMMA RadixInit == Init => InvRadix
<1> SUFFICES ASSUME Init PROVE InvRadix OBVIOUS
<1> DEFINE h == init_heap
<1>1. HeapOK(h) /\ Used(h) = {} /\ Blocks(h) = {} BY InitHeap
<1>2. memory = [heap |-> h, node |-> <<>>, tree |-> NULL] BY DEF Init
<1> HIDE DEF h
<1>3. memory \in [heap : {memory.heap}, node : {memory.node}, tree : {memory.tree}]
      /\ memory.heap = h /\ memory.node = <<>> /\ memory.tree = NULL BY <1>2
<1>4. DOMAIN memory.node = {} /\ memory.node \in [{} -> NodeRecord] BY <1>3
<1>5. Places(memory) = {Root} /\ \A q \in Places(memory) : Pointed(memory, q) = NULL
  BY <1>1, <1>3 DEF Places, Interior, Pointed
<1>6. NodesOK(memory) BY <1>1, <1>3, <1>4, <1>5 DEF NodesOK
<1>7. Shaped(memory) /\ Sound(memory) /\ NoneEmpty(memory) /\ Nodes = {}
  BY <1>1, <1>3, <1>5 DEF Shaped, Sound, NoneEmpty, Nodes
<1>8. /\ doing = "main" /\ entry = 0 /\ limit = 0 /\ batch = <<>> /\ reads = 0
      /\ parent = Root /\ bit_pos = MAX_BITS /\ calls = <<Root>> /\ back = FALSE BY DEF Init
<1>9. Control
  <2>1. 0 \in Numbers /\ Batch \in Nat BY RadixAssumption DEF Numbers
  <2>2. batch \in Seq(Numbers) /\ Len(batch) <= Batch BY <1>8, <2>1
  <2>3. limit \in 0 .. MaxTake /\ reads \in 0 .. MaxReads BY <1>8, RadixAssumption
  <2>4. parent \in Places(memory) /\ bit_pos \in Positions BY <1>5, <1>8, Position
  <2> QED BY <1>8, <2>1, <2>2, <2>3, <2>4 DEF Control
<1>10. OnStack(memory, calls)
  <2>1. calls \in Seq(Places(memory)) /\ Len(calls) = 1 /\ calls[1] = Root BY <1>5, <1>8
  <2> QED BY <2>1 DEF OnStack
<1>11. Stacked BY <1>8, <1>10 DEF Stacked
<1> QED BY <1>6, <1>7, <1>8, <1>9, <1>11 DEF InvRadix, Linked, Adding, Cleared, Filled, Asked

(* Before a batch is begun nothing has been visited. *)
LEMMA FirstCall ==
  ASSUME NEW m, NEW cs, Len(cs) = 1 PROVE Visited(m, cs, FALSE)
BY DEF Visited

(* The batch has room for as many numbers as are asked for, and at most for 100. *)
LEMMA MaxIs ==
  ASSUME Control PROVE take_max \in Nat /\ take_max <= limit /\ take_max <= Batch /\ (limit > 0 => take_max > 0)
BY RadixAssumption DEF Control, take_max

(* Every action keeps the invariant, one lemma for each. *)
LEMMA ReadNumberStep == ASSUME InvRadix, ReadNumber PROVE InvRadix'
<1>1. /\ doing = "main" /\ reads < MaxReads /\ reads' = reads + 1 /\ entry' \in Numbers /\ doing' = "add"
      /\ memory' = memory /\ limit' = limit /\ batch' = batch /\ parent' = parent /\ bit_pos' = bit_pos
      /\ calls' = calls /\ back' = back
  BY DEF ReadNumber, adding, walking
<1>2. Control' BY <1>1, RadixAssumption DEF InvRadix, Control
<1>3. Linked' /\ Filled' /\ Cleared' /\ Asked' BY <1>1 DEF InvRadix, Linked, Filled, Cleared, Asked
<1>4. Stacked' BY <1>1 DEF InvRadix, Stacked
<1>5. Adding' BY <1>1 DEF InvRadix, Adding, Through
<1> QED BY <1>1, <1>2, <1>3, <1>4, <1>5 DEF InvRadix

LEMMA ReadTakeStep == ASSUME InvRadix, ReadTake PROVE InvRadix'
<1>1. /\ doing = "main" /\ reads < MaxReads /\ reads' = reads + 1 /\ entry' \in -MaxTake .. -1 /\ doing' = "take"
      /\ memory' = memory /\ limit' = -entry' /\ batch' = batch /\ parent' = parent /\ bit_pos' = bit_pos
      /\ calls' = calls /\ back' = back
  BY DEF ReadTake, adding, walking
<1>2. Control' /\ limit' > 0
  <2>3. MaxTake \in Nat BY RadixAssumption
  <2>4. entry' \in -MaxTake .. -1 /\ limit' = -entry' BY <1>1
  <2>5. \A e \in -MaxTake .. -1 : -e \in 0 .. MaxTake /\ -e > 0 BY <2>3
  <2>1. limit' \in 0 .. MaxTake /\ limit' > 0 BY <2>4, <2>5
  <2>2. reads' \in 0 .. MaxReads BY <1>1, RadixAssumption DEF InvRadix, Control
  <2> QED BY <1>1, <2>1, <2>2 DEF InvRadix, Control
<1>3. Linked' BY <1>1 DEF InvRadix, Linked
<1>4. Stacked' /\ back' = FALSE /\ Len(calls') = 1 BY <1>1 DEF InvRadix, Stacked, Control
<1>5. Adding' BY <1>1 DEF InvRadix, Adding, Through
<1>6. Cleared' BY <1>4, FirstCall DEF Cleared
<1>7. Filled' BY <1>1 DEF InvRadix, Filled, NoneEmpty, Bare
<1>8. Asked'
  <2>1. Len(batch') = 0 BY <1>1 DEF InvRadix, Asked
  <2>2. limit' \in Nat BY <1>2, RadixAssumption DEF Control
  <2>3. take_max' \in Nat BY <2>2, RadixAssumption DEF take_max
  <2>4. Len(batch') <= take_max' BY <2>1, <2>3
  <2>5. doing' = "take" /\ limit' > 0 BY <1>1, <1>2
  <2> QED BY <2>4, <2>5 DEF Asked
<1> QED BY <1>1, <1>2, <1>3, <1>4, <1>5, <1>6, <1>7, <1>8 DEF InvRadix

LEMMA WriteBatchStep == ASSUME InvRadix, WriteBatch PROVE InvRadix'
<1>1. /\ doing = "write" /\ batch' = <<>> /\ limit' = (IF batch = <<>> THEN 0 ELSE limit - Len(batch))
      /\ doing' = (IF limit' > 0 THEN "take" ELSE "main")
      /\ memory' = memory /\ entry' = entry /\ reads' = reads /\ parent' = parent /\ bit_pos' = bit_pos
      /\ calls' = calls /\ back' = back
  BY DEF WriteBatch, adding, walking
<1>2. Control BY DEF InvRadix
<1>3. limit' \in 0 .. MaxTake
  <2>1. MaxTake \in Nat /\ limit \in 0 .. MaxTake /\ Len(batch) \in Nat BY <1>2, RadixAssumption DEF Control
  <2>2. take_max \in Nat /\ take_max <= limit BY <1>2, MaxIs
  <2>3. Len(batch) <= take_max BY <1>1 DEF InvRadix, Asked
  <2> QED BY <1>1, <2>1, <2>2, <2>3
<1>4. batch' \in Seq(Numbers) /\ Len(batch') = 0 /\ Len(batch') <= Batch BY <1>1, RadixAssumption
<1>5. Control' BY <1>1, <1>2, <1>3, <1>4 DEF Control
<1>6. Linked' BY <1>1 DEF InvRadix, Linked
<1>7. Stacked' /\ back' = FALSE /\ Len(calls') = 1 BY <1>1, <1>2 DEF InvRadix, Stacked, Control
<1>8. Adding' BY <1>1 DEF InvRadix, Adding
<1>9. Cleared' BY <1>7, FirstCall DEF Cleared
<1>10. Filled' BY <1>1 DEF InvRadix, Filled, NoneEmpty, Bare
<1>11. Asked'
  <2>1. limit' \in Nat BY <1>3, RadixAssumption
  <2>2. take_max' \in Nat BY <2>1, RadixAssumption DEF take_max
  <2>3. Len(batch') <= take_max' BY <1>4, <2>2
  <2>4. ~(limit' > 0) => limit' = 0 BY <2>1
  <2> QED BY <1>1, <2>3, <2>4 DEF Asked
<1> QED BY <1>1, <1>5, <1>6, <1>7, <1>8, <1>9, <1>10, <1>11 DEF InvRadix

LEMMA EndStep == ASSUME InvRadix, End PROVE InvRadix'
<1>1. /\ doing = "main" /\ doing' = "release" /\ limit' = limit /\ batch' = batch
      /\ memory' = memory /\ entry' = entry /\ reads' = reads /\ parent' = parent /\ bit_pos' = bit_pos
      /\ calls' = calls /\ back' = back
  BY DEF End, adding, walking
<1>2. Control' BY <1>1 DEF InvRadix, Control
<1>3. Linked' BY <1>1 DEF InvRadix, Linked, Sound, Nodes
<1>4. Stacked' /\ back' = FALSE /\ Len(calls') = 1 BY <1>1 DEF InvRadix, Stacked, Control
<1>5. Adding' BY <1>1 DEF InvRadix, Adding
<1>6. Cleared' BY <1>4, FirstCall DEF Cleared
<1>7. Filled' /\ Asked' BY <1>1 DEF InvRadix, Filled, Asked
<1> QED BY <1>1, <1>2, <1>3, <1>4, <1>5, <1>6, <1>7 DEF InvRadix

(* What add_number knows at the node it has come to: its position is not above bit_pos, and
   the number agrees with its numbers above that. *)
LEMMA SearchIs ==
  ASSUME InvRadix, doing = "add", Pointed(memory, parent) # NULL
  PROVE  LET c == Pointed(memory, parent) IN
         /\ c \in Nodes /\ IsNode(memory.node[c]) /\ memory.node[c].bit_pos \in Nat /\ memory.node[c].bit_pos >= 1
         /\ entry \in Numbers /\ entry \in Nat /\ bit_pos \in Nat
         /\ Level = memory.node[c].bit_pos /\ Level <= bit_pos /\ Agree(entry, memory.node[c].number, bit_pos)
         /\ parent # Root => memory.node[parent[1]].bit_pos \in Nat /\ bit_pos < memory.node[parent[1]].bit_pos
<1> DEFINE m == memory
           c == Pointed(m, parent)
           b == m.node[c]
           x == m.node[parent[1]]
<1>1. NodesOK(m) /\ Shaped(m) /\ Sound(m) /\ parent \in Places(m) /\ bit_pos \in Positions
  BY DEF InvRadix, Linked, Control
<1>2. /\ entry \in Numbers /\ Through(m, parent, [bit_pos |-> 1, number |-> entry])
      /\ bit_pos = IF parent = Root THEN MAX_BITS ELSE x.bit_pos \div 2
  BY DEF InvRadix, Adding
<1>3. c \in Used(m.heap) /\ c \in DOMAIN m.node /\ IsNode(b) /\ b.number \in Numbers
  BY <1>1, NodeIs DEF Sound, NodesOK
<1>4. entry \in Nat BY <1>2, RadixAssumption DEF Numbers
<1>5. /\ b.bit_pos \in Nat /\ b.bit_pos >= 1 /\ b.bit_pos <= MAX_BITS /\ bit_pos \in Nat /\ MAX_BITS \in Nat
      /\ b.bit_pos \in Positions /\ b.number \in Nat
  BY <1>1, <1>3, Position, RadixAssumption DEF IsNode
<1>6. /\ b.bit_pos <= bit_pos /\ Agree(entry, b.number, bit_pos)
      /\ parent # Root => x.bit_pos \in Nat /\ bit_pos < x.bit_pos
  <2>1. CASE parent = Root
    <3>1. Agree(entry, b.number, MAX_BITS) BY <1>2, <1>3, AgreeTop
    <3> QED BY <1>2, <1>5, <2>1, <3>1
  <2>2. CASE parent # Root
    <3>1. IsNode(x) /\ x.bit_pos > 1 BY <1>1, <2>2, PlaceIs, NodeIs
    <3>2. /\ x.bit_pos \in Positions /\ x.bit_pos \in Nat /\ x.bit_pos = 2 * (x.bit_pos \div 2) /\ x.number \in Nat
          /\ bit_pos = x.bit_pos \div 2
      BY <1>2, <2>2, <3>1, Position DEF IsNode
    <3>3. Agree(entry, x.number, x.bit_pos) /\ Side(entry, x.bit_pos) = parent[2]
      BY <1>2, <2>2 DEF Through, Covers, Agree
    <3>4. Through(m, parent, b) BY <1>1 DEF Shaped
    <3>5. Agree(b.number, x.number, x.bit_pos) /\ Side(b.number, x.bit_pos) = parent[2] /\ b.bit_pos < x.bit_pos
      BY <2>2, <3>4 DEF Through, Covers, Agree
    <3>6. Agree(entry, b.number, x.bit_pos) /\ Side(entry, x.bit_pos) = Side(b.number, x.bit_pos)
      BY <3>3, <3>5 DEF Agree
    <3>7. Agree(entry, b.number, x.bit_pos \div 2) BY <1>4, <1>5, <3>1, <3>2, <3>6, AgreeNext
    <3>8. PICK k \in Nat : k >= 1 /\ x.bit_pos = (2 * b.bit_pos) * k BY <1>5, <3>2, <3>5, Multiple
    <3> DEFINE u == b.bit_pos
               v == bit_pos
               w == x.bit_pos
    <3>9. w = 2 * v /\ w = (2 * u) * k /\ u \in Nat /\ v \in Nat /\ w \in Nat /\ u >= 1 BY <1>5, <3>2, <3>8
    <3> HIDE DEF u, v, w
    <3>10. v = u * k BY <3>9
    <3>11. u <= u * k BY <3>8, <3>9
    <3>12. u <= v /\ v < w
      <4>1. u <= v BY <3>10, <3>11
      <4>2. v >= 1 BY <3>9, <4>1
      <4> QED BY <3>9, <4>1, <4>2
    <3> QED BY <3>2, <3>7, <3>12 DEF u, v, w
  <2> QED BY <2>1, <2>2
<1>7. Level = b.bit_pos
  <2>1. Level = IF bit_pos > b.bit_pos THEN b.bit_pos ELSE bit_pos BY DEF Level, ParentNode
  <2> HIDE DEF b
  <2> QED BY <1>5, <1>6, <2>1
<1> QED BY <1>2, <1>3, <1>4, <1>5, <1>6, <1>7 DEF Nodes

(* add_number returns to main with a tree that is in order. *)
LEMMA AddReturnsStep ==
  ASSUME InvRadix, doing = "add", AddReturns, NodesOK(memory'), Shaped(memory'), Sound(memory'), NoneEmpty(memory')
  PROVE  InvRadix'
<1>1. /\ doing' = "main" /\ parent' = Root /\ bit_pos' = MAX_BITS /\ entry' = entry /\ limit' = limit
      /\ batch' = batch /\ reads' = reads /\ calls' = calls /\ back' = back
  BY DEF AddReturns, walking
<1>2. Root \in Places(memory') BY DEF Places
<1>3. Control' BY <1>1, <1>2, Position DEF InvRadix, Control
<1>4. Linked' /\ Filled' /\ Cleared' /\ Asked' /\ Adding'
  BY <1>1 DEF InvRadix, Linked, Filled, Cleared, Asked, Adding
<1>5. Len(calls) = 1 /\ calls[1] = Root /\ calls \in Seq(Places(memory)) /\ ~back BY DEF InvRadix, Stacked, OnStack
<1>6. OnStack(memory', calls')
  <2>2. \A i \in 1 .. Len(calls) : calls[i] \in Places(memory') BY <1>2, <1>5
  <2>3. calls \in Seq(Places(memory')) BY <1>5, <2>2, SeqOver
  <2>1. calls' \in Seq(Places(memory')) BY <1>1, <2>3
  <2> QED BY <1>1, <1>5, <2>1 DEF OnStack
<1>7. Stacked' BY <1>1, <1>5, <1>6 DEF Stacked
<1> QED BY <1>3, <1>4, <1>7 DEF InvRadix

(* The leaf or the interior node that is made is where it belongs. *)
LEMMA AddLeafIs ==
  ASSUME InvRadix, AddLeaf PROVE Extended(memory, memory', entry) /\ entry \in Numbers
<1>1. doing = "add" /\ Pointed(memory, parent) = NULL /\ memory' = create_leaf(memory, parent, entry) BY DEF AddLeaf
<1>2. /\ NodesOK(memory) /\ Shaped(memory) /\ Sound(memory) /\ parent \in Places(memory)
      /\ entry \in Numbers /\ Through(memory, parent, [bit_pos |-> 1, number |-> entry])
  BY <1>1 DEF InvRadix, Linked, Control, Adding
<1> QED BY <1>1, <1>2, LeafAdded

(* The number leaves the subtree between the position of its node and that of the node above it. *)
LEMMA AddNodeIs ==
  ASSUME InvRadix, AddNode PROVE Extended(memory, memory', entry) /\ entry \in Numbers
<1> DEFINE b == ParentNode
           diff == Differs(entry, b.number, bit_pos, Level)
<1>1. doing = "add" /\ Pointed(memory, parent) # NULL BY DEF AddNode
<1>2. PICK p \in diff : (\A q \in diff : q <= p) /\ memory' = Inject(memory, parent, entry, p) BY DEF AddNode
<1>3. /\ NodesOK(memory) /\ Shaped(memory) /\ Sound(memory) /\ parent \in Places(memory) /\ bit_pos \in Positions
      /\ entry \in Numbers /\ Through(memory, parent, [bit_pos |-> 1, number |-> entry])
  BY <1>1 DEF InvRadix, Linked, Control, Adding
<1>4. /\ IsNode(b) /\ b.bit_pos \in Nat /\ entry \in Nat /\ bit_pos \in Nat
      /\ Level = b.bit_pos /\ Level <= bit_pos /\ Agree(entry, b.number, bit_pos)
      /\ parent # Root => memory.node[parent[1]].bit_pos \in Nat /\ bit_pos < memory.node[parent[1]].bit_pos
  BY <1>1, SearchIs DEF ParentNode
<1>5. b.number \in Nat /\ b.bit_pos \in Positions BY <1>4 DEF IsNode
<1> HIDE DEF b
<1>6. p \in Positions /\ Level < p /\ p <= bit_pos /\ Side(entry, p) # Side(b.number, p) /\ p \in Nat
  <2>1. p \in Positions /\ Level < p /\ p <= bit_pos /\ Side(entry, p) # Side(b.number, p)
    BY <1>4, <1>5, DiffersSide
  <2> QED BY <2>1, Position
<1>7. Agree(entry, b.number, p)
  <2>1. Level \in Positions /\ Level <= p BY <1>4, <1>5, <1>6
  <2> QED BY <1>2, <1>3, <1>4, <1>5, <1>6, <2>1, DiffersShows
<1>8. b.bit_pos < p /\ (parent # Root => p < memory.node[parent[1]].bit_pos) BY <1>4, <1>6
<1>9. Extended(memory, Inject(memory, parent, entry, p), entry)
  <2>1. b = memory.node[Pointed(memory, parent)] BY DEF b, ParentNode
  <2> QED BY <1>1, <1>3, <1>6, <1>7, <1>8, <2>1, InnerAdded
<1> QED BY <1>2, <1>3, <1>9

LEMMA AddStep == ASSUME InvRadix, AddLeaf \/ AddNode PROVE InvRadix'
<1>1. Extended(memory, memory', entry) BY AddLeafIs, AddNodeIs
<1>2. doing = "add" /\ AddReturns BY DEF AddLeaf, AddNode
<1>3. NoneEmpty(memory) BY <1>2 DEF InvRadix, Filled
<1> QED BY <1>1, <1>2, <1>3, AddReturnsStep DEF Extended

(* Without a difference the number is one of those the node stands for. *)
LEMMA SameIs ==
  ASSUME InvRadix, doing = "add", Same
  PROVE  LET c == Pointed(memory, parent) IN
         /\ c \in Nodes /\ memory.node[c].bit_pos = Level /\ Level \in Positions /\ entry \in Numbers
         /\ IsNode(memory.node[c]) /\ entry \in Nat /\ Agree(entry, memory.node[c].number, Level)
<1> DEFINE b == ParentNode
           c == Pointed(memory, parent)
<1>1. /\ c \in Nodes /\ IsNode(b) /\ b.bit_pos \in Nat /\ entry \in Nat /\ bit_pos \in Nat /\ entry \in Numbers
      /\ Level = b.bit_pos /\ Level <= bit_pos /\ Agree(entry, b.number, bit_pos) /\ b = memory.node[c]
  BY SearchIs DEF ParentNode, Same
<1>2. b.number \in Nat /\ b.bit_pos \in Positions BY <1>1 DEF IsNode
<1>3. bit_pos \in Positions /\ Differs(entry, b.number, bit_pos, Level) = {} BY DEF InvRadix, Control, Same
<1> HIDE DEF b, c
<1>4. \A q \in Differs(entry, b.number, bit_pos, Level) : q <= Level BY <1>3
<1>5. Level \in Positions /\ Level \in Nat BY <1>1, <1>2
<1>6. Agree(entry, b.number, Level)
  <2>1. Level <= Level BY <1>5
  <2> QED BY <1>1, <1>2, <1>3, <1>4, <1>5, <2>1, DiffersShows
<1> QED BY <1>1, <1>5, <1>6 DEF c

LEMMA DescendStep == ASSUME InvRadix, Descend PROVE InvRadix'
<1> DEFINE c == Pointed(memory, parent)
           b == memory.node[c]
           q == <<c, Side(entry, Level)>>
<1>1. /\ doing = "add" /\ Same /\ Level > 1 /\ parent' = q /\ bit_pos' = Level \div 2
      /\ memory' = memory /\ doing' = doing /\ entry' = entry /\ limit' = limit /\ batch' = batch /\ reads' = reads
      /\ calls' = calls /\ back' = back
  BY DEF Descend, walking
<1>2. /\ c \in Nodes /\ b.bit_pos = Level /\ Level \in Positions /\ entry \in Numbers
      /\ IsNode(b) /\ entry \in Nat /\ Agree(entry, b.number, Level) /\ Level \in Nat
  BY <1>1, SameIs, Position
<1>3. q \in Places(memory) /\ q # Root /\ q[1] = c /\ q[2] = Side(entry, Level)
  <2>1. Side(entry, Level) \in {"zero", "one"} BY SideIs
  <2>2. b.bit_pos # 1 BY <1>1, <1>2
  <2> HIDE DEF c
  <2>3. PlaceOf(memory, c, Side(entry, Level)) BY <1>2, <2>1, <2>2, IsPlace DEF Nodes
  <2> QED BY ONLY <2>3 DEF PlaceOf
<1> HIDE DEF q, c
<1>4. Level \div 2 \in Positions BY <1>1, <1>2, Position
<1>5. Control' BY <1>1, <1>3, <1>4 DEF InvRadix, Control
<1>6. Linked' /\ Filled' /\ Cleared' /\ Asked' /\ Stacked'
  BY <1>1 DEF InvRadix, Linked, Filled, Cleared, Asked, Stacked
<1>7. Through(memory, q, [bit_pos |-> 1, number |-> entry])
  <2> DEFINE a == [bit_pos |-> 1, number |-> entry]
  <2>1. a.bit_pos = 1 /\ a.number = entry OBVIOUS
  <2> HIDE DEF a
  <2>2. a.bit_pos < b.bit_pos /\ a.bit_pos <= b.bit_pos BY <1>1, <1>2, <2>1
  <2>3. Covers(b, a) BY <1>2, <2>1, <2>2 DEF Covers, Agree
  <2>4. Side(a.number, b.bit_pos) = q[2] BY <1>2, <1>3, <2>1
  <2>5. Through(memory, q, a) BY <1>3, <2>2, <2>3, <2>4 DEF Through
  <2> QED BY <2>5 DEF a
<1>8. Adding' BY <1>1, <1>2, <1>3, <1>7 DEF Adding
<1> QED BY <1>1, <1>5, <1>6, <1>8 DEF InvRadix

(* The leaf that is found counts the number. *)
LEMMA CountIs ==
  ASSUME InvRadix, Count
  PROVE  LET c == Pointed(memory, parent)
             s == Side(entry, 1) IN
         /\ c \in Nodes /\ memory.node[c].bit_pos = 1 /\ s \in {"zero", "one"} /\ entry \in Numbers
         /\ memory.node[c][s] \in Nat /\ Agree(entry, memory.node[c].number, 1)
         /\ Recounted(memory, memory', c, s, memory.node[c][s] + 1)
<1> DEFINE c == Pointed(memory, parent)
           s == Side(entry, 1)
           k == memory.node[c][s]
<1>1. doing = "add" /\ Same /\ Level = 1 /\ memory' = [memory EXCEPT !.node[c][s] = @ + 1]
  BY DEF Count
<1>2. c \in Nodes /\ memory.node[c].bit_pos = 1 /\ Agree(entry, memory.node[c].number, 1) /\ entry \in Numbers
  BY <1>1, SameIs
<1>3. NodesOK(memory) /\ Shaped(memory) BY DEF InvRadix
<1>4. s \in {"zero", "one"} BY SideIs
<1>5. c \in Used(memory.heap) /\ memory.node[c].zero \in Nat /\ memory.node[c].one \in Nat
  BY <1>2, <1>3, NodeIs DEF Nodes, NodesOK
<1>6. k \in Nat BY <1>4, <1>5
<1>7. memory' = [memory EXCEPT !.node[c][s] = k + 1] BY <1>1
<1> HIDE DEF c, s, k
<1>8. Recounted(memory, [memory EXCEPT !.node[c][s] = k + 1], c, s, k + 1)
  <2>1. k + 1 \in Nat BY <1>6
  <2> QED BY <1>2, <1>3, <1>4, <1>5, <2>1, LeafRecounted
<1> QED BY <1>2, <1>4, <1>6, <1>7, <1>8 DEF c, s, k

LEMMA CountStep == ASSUME InvRadix, Count PROVE InvRadix'
<1> DEFINE c == Pointed(memory, parent)
           s == Side(entry, 1)
           k == memory.node[c][s]
<1>1. /\ c \in Nodes /\ memory.node[c].bit_pos = 1 /\ s \in {"zero", "one"} /\ k \in Nat
      /\ Recounted(memory, memory', c, s, k + 1)
  BY CountIs
<1>2. doing = "add" /\ AddReturns BY DEF Count
<1>3. NoneEmpty(memory) /\ Sound(memory) BY <1>2 DEF InvRadix, Filled, Linked
<1> HIDE DEF c, s, k
<1>4. /\ NodesOK(memory') /\ Shaped(memory') /\ memory'.heap = memory.heap /\ Places(memory') = Places(memory)
      /\ \A q \in Places(memory) : Pointed(memory', q) = Pointed(memory, q)
      /\ \A x \in Used(memory.heap) : x # c => memory'.node[x] = memory.node[x]
      /\ memory'.node[c][s] = k + 1
  BY <1>1 DEF Recounted
<1>5. Sound(memory') BY <1>3, <1>4 DEF Sound
<1>6. NoneEmpty(memory')
  <2> SUFFICES ASSUME NEW x \in Used(memory.heap) PROVE memory'.node[x].zero # 0 \/ memory'.node[x].one # 0
    BY <1>4 DEF NoneEmpty
  <2>1. CASE x # c BY <1>3, <1>4, <2>1 DEF NoneEmpty
  <2>2. CASE x = c
    <3>1. k + 1 # 0 BY <1>1
    <3>2. memory'.node[c]["zero"] = k + 1 \/ memory'.node[c]["one"] = k + 1 BY <1>1, <1>4
    <3> QED BY <2>2, <3>1, <3>2
  <2> QED BY <2>1, <2>2
<1> QED BY <1>2, <1>4, <1>5, <1>6, AddReturnsStep

(* The innermost call. *)
LEMMA TopIs ==
  ASSUME NEW m, NEW cs, OnStack(m, cs)
  PROVE  /\ Len(cs) \in Nat /\ Len(cs) > 0 /\ Len(cs) \in 1 .. Len(cs) /\ Last(cs) = cs[Len(cs)]
         /\ cs \in Seq(Places(m)) /\ Last(cs) \in Places(m)
         /\ Last(cs) = Root <=> Len(cs) = 1
         /\ Last(cs) # Root => /\ Len(cs) > 1 /\ Len(cs) \in 2 .. Len(cs) /\ Len(cs) - 1 \in 1 .. Len(cs)
                               /\ Last(cs)[1] = Pointed(m, cs[Len(cs) - 1])
<1> DEFINE N == Len(cs)
<1>1. cs \in Seq(Places(m)) /\ N \in Nat /\ N > 0 BY DEF OnStack
<1>2. N \in 1 .. N /\ Last(cs) = cs[N] /\ Last(cs) \in Places(m) BY <1>1, FrontIs
<1>3. ASSUME N = 1 PROVE Last(cs) = Root BY <1>2, <1>3 DEF OnStack
<1>4. ASSUME N # 1
      PROVE  N > 1 /\ N \in 2 .. N /\ N - 1 \in 1 .. N /\ Last(cs) # Root /\ Last(cs)[1] = Pointed(m, cs[N - 1])
  <2>1. N > 1 /\ N \in 2 .. N /\ N - 1 \in 1 .. N
    <3>1. N \in Nat /\ N > 0 /\ N # 1 BY <1>1, <1>4
    <3> HIDE DEF N
    <3> QED BY <3>1
  <2> QED BY <1>2, <2>1 DEF OnStack
<1> QED BY <1>1, <1>2, <1>3, <1>4

(* The place that a call is for has not been left. *)
LEMMA NotLeft ==
  ASSUME NEW m, NodesOK(m), NEW cs, OnStack(m, cs) PROVE ~Gone(cs, FALSE, Last(cs))
<1> SUFFICES ASSUME NEW k \in 2 .. Len(cs), cs[k][2] = "one", Last(cs) = <<cs[k][1], "zero">> PROVE FALSE
  BY DEF Gone
<1>1. Last(cs) # Root /\ Last(cs)[1] = cs[k][1] /\ Last(cs)[2] = "zero" BY DEF Root
<1>2. Len(cs) \in Nat /\ Last(cs) = cs[Len(cs)] /\ Len(cs) \in 2 .. Len(cs) BY <1>1, TopIs
<1>3. CASE k = Len(cs) BY <1>1, <1>2, <1>3
<1>4. CASE k # Len(cs)
  <2>1. k \in 1 .. Len(cs) - 1 BY <1>2, <1>4
  <2>2. cs[k] # Root /\ cs[k][1] # cs[Len(cs)][1] BY <1>2, <2>1, StackApart DEF OnStack
  <2> QED BY <1>1, <1>2, <2>2
<1> QED BY <1>3, <1>4

(* A call is for a node of the tree, or there is no subtree. *)
LEMMA Entered ==
  ASSUME InvRadix, Called
  PROVE  /\ nptr \in Nodes \cup {NULL} /\ back = FALSE /\ doing \in {"take", "release"}
         /\ NodesOK(memory) /\ Shaped(memory) /\ OnStack(memory, calls) /\ Top \in Places(memory)
<1>1. NodesOK(memory) /\ Shaped(memory) /\ OnStack(memory, calls) /\ back = FALSE /\ doing \in {"take", "release"}
  BY DEF InvRadix, Stacked, Called, Control
<1>2. Top \in Places(memory) BY <1>1, TopIs DEF Top
<1>3. CASE doing = "take" BY <1>1, <1>2, <1>3 DEF InvRadix, Linked, Sound, Nodes, nptr
<1>4. CASE doing = "release"
  <2>1. nptr \in Nodes \cup {NULL} \/ Gone(calls, back, Top) BY <1>2, <1>4 DEF InvRadix, Linked, nptr
  <2>2. ~Gone(calls, FALSE, Top) BY <1>1, NotLeft DEF Top
  <2> QED BY <1>1, <1>2, <2>1, <2>2
<1> QED BY <1>1, <1>2, <1>3, <1>4

\* What a step of the walk leaves alone.
LEMMA WalkControl ==
  ASSUME InvRadix, doing \in {"take", "release"}, doing' = doing, entry' = entry, limit' = limit, reads' = reads,
         parent' = parent, bit_pos' = bit_pos, back' \in BOOLEAN, batch' = batch
  PROVE  Control' /\ Adding' /\ Asked'
<1>1. parent = Root /\ bit_pos = MAX_BITS BY DEF InvRadix, Adding
<1>2. Root \in Places(memory') BY DEF Places
<1>3. Control' BY <1>1, <1>2 DEF InvRadix, Control
<1>4. Adding' BY <1>1 DEF Adding
<1>5. Asked' BY DEF InvRadix, Asked, take_max
<1> QED BY <1>3, <1>4, <1>5

LEMMA CallOnNullStep == ASSUME InvRadix, CallOnNull PROVE InvRadix'
<1>1. /\ Called /\ nptr = NULL /\ back' = TRUE /\ memory' = memory /\ doing' = doing /\ entry' = entry
      /\ limit' = limit /\ batch' = batch /\ reads' = reads /\ parent' = parent /\ bit_pos' = bit_pos /\ calls' = calls
  BY DEF CallOnNull, adding
<1>2. /\ back = FALSE /\ doing \in {"take", "release"} /\ NodesOK(memory) /\ Shaped(memory)
      /\ OnStack(memory, calls) /\ Top \in Places(memory)
  BY <1>1, Entered
<1>3. Control' /\ Adding' /\ Asked' BY <1>1, <1>2, WalkControl
<1>4. Linked'
  <2>1. \A q : Gone(calls, back, q) => Gone(calls, TRUE, q) BY <1>2 DEF Gone
  <2>2. CASE doing = "take" BY <1>1, <2>2 DEF InvRadix, Linked
  <2>3. CASE doing = "release"
    <3>1. \A q \in Places(memory) : Pointed(memory, q) \in Nodes \cup {NULL} \/ Gone(calls, TRUE, q)
      BY <2>1, <2>3 DEF InvRadix, Linked
    <3> QED BY <1>1, <2>3, <3>1 DEF Linked, Nodes
  <2> QED BY <1>2, <2>2, <2>3
<1>5. Stacked' BY <1>1, <1>2 DEF InvRadix, Stacked
<1>6. Cleared'
  <2> SUFFICES ASSUME Visited(memory, calls, back) PROVE Visited(memory, calls, TRUE)
    BY <1>1 DEF InvRadix, Cleared, take_max
  <2>1. \A x \in Used(memory.heap) : ~Through(memory, Top, memory.node[x])
    BY <1>1, <1>2 DEF Shaped, nptr
  <2> QED BY <2>1 DEF Visited, Top
<1>7. Filled'
  <2>1. CASE doing = "take"
    <3> SUFFICES ASSUME NEW c \in Used(memory.heap), memory.node[c].zero = 0, memory.node[c].one = 0
                 PROVE \E k \in 1 .. Len(calls) : Pointed(memory, calls[k]) = c /\ (k = Len(calls) => ~TRUE)
      BY <1>1, <2>1 DEF Filled, Bare
    <3>1. PICK k \in 1 .. Len(calls) : Pointed(memory, calls[k]) = c BY <2>1 DEF InvRadix, Filled, Bare
    <3>2. c # NULL BY <1>2, NodeIs DEF NodesOK
    <3>3. k # Len(calls) BY <1>1, <1>2, <3>1, <3>2, TopIs DEF nptr, Top
    <3> QED BY <3>1, <3>3
  <2>2. CASE doing # "take" BY <1>1, <2>2 DEF InvRadix, Filled
  <2> QED BY <2>1, <2>2
<1> QED BY <1>1, <1>2, <1>3, <1>4, <1>5, <1>6, <1>7 DEF InvRadix

LEMMA FirstSideStep == ASSUME InvRadix, FirstSide PROVE InvRadix'
<1> DEFINE c == nptr
           N == Len(calls)
           q == <<c, "zero">>
           cs2 == Append(calls, q)
<1>1. /\ Called /\ c # NULL /\ memory.node[c].bit_pos # 1 /\ calls' = cs2
      /\ memory' = memory /\ doing' = doing /\ entry' = entry
      /\ limit' = limit /\ batch' = batch /\ reads' = reads /\ parent' = parent /\ bit_pos' = bit_pos /\ back' = back
  BY DEF FirstSide, adding, IsLeaf, Sides
<1>2. /\ back = FALSE /\ doing \in {"take", "release"} /\ NodesOK(memory) /\ Shaped(memory)
      /\ OnStack(memory, calls) /\ Top \in Places(memory) /\ c \in Used(memory.heap)
  BY <1>1, Entered DEF Nodes
<1>3. Control' /\ Adding' /\ Asked' BY <1>1, <1>2, WalkControl
<1>4. /\ OnStack(memory, cs2) /\ Len(cs2) = N + 1 /\ Last(cs2) = q /\ \A k \in 1 .. N : cs2[k] = calls[k]
  <2>1. c = Pointed(memory, Last(calls)) BY DEF nptr, Top
  <2>2. memory.node[c].bit_pos # 1 /\ "zero" \in {"zero", "one"} BY <1>1
  <2> HIDE DEF c
  <2>3. Longer(memory, calls, q, cs2) BY <1>2, <2>1, <2>2, Pushed
  <2> QED BY <2>3 DEF Longer
<1>5. N \in Nat /\ N > 0 BY <1>2, TopIs
<1>6. cs2[N + 1] = q BY <1>2, <1>4, TopIs
<1> HIDE DEF cs2
<1>7. Linked'
  <2>1. \A p : Gone(calls, FALSE, p) => Gone(cs2, FALSE, p)
    <3> SUFFICES ASSUME NEW k \in 2 .. N PROVE k \in 2 .. Len(cs2) /\ cs2[k] = calls[k] BY DEF Gone
    <3> QED BY <1>4, <1>5
  <2>2. CASE doing = "take" BY <1>1, <2>2 DEF InvRadix, Linked
  <2>3. CASE doing = "release"
    <3>1. \A p \in Places(memory) : Pointed(memory, p) \in Nodes \cup {NULL} \/ Gone(cs2, FALSE, p)
      BY <1>2, <2>1, <2>3 DEF InvRadix, Linked
    <3> QED BY <1>1, <1>2, <2>3, <3>1 DEF Linked, Nodes
  <2> QED BY <1>2, <2>2, <2>3
<1>8. Stacked' BY <1>1, <1>2, <1>4 DEF Stacked
<1>9. Cleared'
  <2> SUFFICES ASSUME Visited(memory, calls, back) PROVE Visited(memory, cs2, back)
    BY <1>1 DEF InvRadix, Cleared, take_max
  <2> SUFFICES ASSUME NEW k \in 2 .. Len(cs2), NEW x \in Used(memory.heap), cs2[k][2] = "one"
               PROVE  ~Through(memory, <<cs2[k][1], "zero">>, memory.node[x])
    BY <1>2 DEF Visited
  <2>1. k # N + 1 BY <1>6
  <2>2. k \in 2 .. N /\ cs2[k] = calls[k] BY <1>4, <1>5, <2>1
  <2> QED BY <2>2 DEF Visited
<1>10. Filled'
  <2>1. CASE doing = "take"
    <3> SUFFICES ASSUME NEW x \in Used(memory.heap), memory.node[x].zero = 0, memory.node[x].one = 0
                 PROVE \E k \in 1 .. Len(cs2) : Pointed(memory, cs2[k]) = x
      BY <1>1, <1>2, <2>1 DEF Filled, Bare
    <3>1. PICK k \in 1 .. N : Pointed(memory, calls[k]) = x BY <2>1 DEF InvRadix, Filled, Bare
    <3>2. k \in 1 .. Len(cs2) /\ cs2[k] = calls[k] BY <1>4, <1>5
    <3> QED BY <3>1, <3>2
  <2>2. CASE doing # "take" BY <1>1, <2>2 DEF InvRadix, Filled
  <2> QED BY <2>1, <2>2
<1> QED BY <1>1, <1>2, <1>3, <1>7, <1>8, <1>9, <1>10 DEF InvRadix

LEMMA SecondSideStep == ASSUME InvRadix, SecondSide PROVE InvRadix'
<1> DEFINE c == Last(calls)[1]
           N == Len(calls)
           q == <<c, "one">>
           cs2 == Append(Front(calls), q)
<1>1. /\ Returned /\ Top # Root /\ Top[2] = "zero" /\ calls' = cs2 /\ back' = FALSE
      /\ memory' = memory /\ doing' = doing /\ entry' = entry
      /\ limit' = limit /\ batch' = batch /\ reads' = reads /\ parent' = parent /\ bit_pos' = bit_pos
  BY DEF SecondSide, adding, Sides, Top
<1>2. /\ back = TRUE /\ doing \in {"take", "release"} /\ NodesOK(memory) /\ OnStack(memory, calls)
  BY <1>1 DEF InvRadix, Stacked, Returned, Control
<1>3. N \in Nat /\ N > 1 /\ Top = calls[N] /\ Top \in Places(memory) /\ N \in 2 .. N BY <1>1, <1>2, TopIs DEF Top
<1>4. Top = <<c, "zero">> BY <1>1, <1>2, <1>3, PlaceIs DEF Top
<1>5. OnStack(memory, cs2) /\ Len(cs2) = N /\ Last(cs2) = q /\ \A k \in 1 .. N - 1 : cs2[k] = calls[k]
  BY <1>2, <1>3, Turned
<1>6. cs2[N] = q BY <1>5, TopIs
<1> HIDE DEF cs2
<1>7. Control' /\ Adding' /\ Asked' BY <1>1, <1>2, WalkControl
<1>8. Linked'
  <2>1. ASSUME NEW p, Gone(calls, back, p) PROVE Gone(cs2, FALSE, p)
    <3>1. CASE p = Top
      <4>1. cs2[N][2] = "one" /\ cs2[N][1] = c BY <1>6
      <4> QED BY <1>3, <1>4, <1>5, <3>1, <4>1 DEF Gone
    <3>2. CASE p # Top
      <4>1. PICK k \in 2 .. N : calls[k][2] = "one" /\ p = <<calls[k][1], "zero">> BY <2>1, <3>2 DEF Gone, Top
      <4>2. k # N BY <1>1, <1>3, <4>1
      <4>3. k \in 2 .. Len(cs2) /\ cs2[k] = calls[k] BY <1>3, <1>5, <4>2
      <4> QED BY <4>1, <4>3 DEF Gone
    <3> QED BY <3>1, <3>2
  <2>2. CASE doing = "take" BY <1>1, <2>2 DEF InvRadix, Linked
  <2>3. CASE doing = "release"
    <3>1. \A p \in Places(memory) : Pointed(memory, p) \in Nodes \cup {NULL} \/ Gone(cs2, FALSE, p)
      BY <2>1, <2>3 DEF InvRadix, Linked
    <3> QED BY <1>1, <2>3, <3>1 DEF Linked, Nodes
  <2> QED BY <1>2, <2>2, <2>3
<1>9. Stacked' BY <1>1, <1>2, <1>5 DEF Stacked
<1>10. Cleared'
  <2> SUFFICES ASSUME Visited(memory, calls, back) PROVE Visited(memory, cs2, FALSE)
    BY <1>1 DEF InvRadix, Cleared, take_max
  <2> SUFFICES ASSUME NEW k \in 2 .. Len(cs2), NEW x \in Used(memory.heap), cs2[k][2] = "one"
               PROVE  ~Through(memory, <<cs2[k][1], "zero">>, memory.node[x])
    BY DEF Visited
  <2>1. CASE k = N
    <3>1. ~Through(memory, Top, memory.node[x]) BY <1>2 DEF Visited, Top
    <3>2. cs2[k][1] = c BY <1>6, <2>1
    <3> QED BY <1>4, <3>1, <3>2
  <2>2. CASE k # N
    <3>1. k \in 2 .. N /\ cs2[k] = calls[k] BY <1>3, <1>5, <2>2
    <3> QED BY <3>1 DEF Visited
  <2> QED BY <2>1, <2>2
<1>11. Filled'
  <2>1. CASE doing = "take"
    <3> SUFFICES ASSUME NEW x \in Used(memory.heap), memory.node[x].zero = 0, memory.node[x].one = 0
                 PROVE \E k \in 1 .. Len(cs2) : Pointed(memory, cs2[k]) = x
      BY <1>1, <2>1 DEF Filled, Bare
    <3>1. PICK k \in 1 .. N : Pointed(memory, calls[k]) = x /\ (k = N => ~back) BY <2>1 DEF InvRadix, Filled, Bare
    <3>2. k \in 1 .. Len(cs2) /\ cs2[k] = calls[k] BY <1>2, <1>3, <1>5, <3>1
    <3> QED BY <3>1, <3>2
  <2>2. CASE doing # "take" BY <1>1, <2>2 DEF InvRadix, Filled
  <2> QED BY <2>1, <2>2
<1> QED BY <1>1, <1>2, <1>7, <1>8, <1>9, <1>10, <1>11 DEF InvRadix

LEMMA TakeReturnsStep == ASSUME InvRadix, TakeReturns PROVE InvRadix'
<1>1. /\ doing = "take" /\ back = TRUE /\ Top = Root /\ doing' = "write" /\ back' = FALSE
      /\ memory' = memory /\ entry' = entry /\ calls' = calls
      /\ limit' = limit /\ batch' = batch /\ reads' = reads /\ parent' = parent /\ bit_pos' = bit_pos
  BY DEF TakeReturns, adding, Returned, InvRadix, Control
<1>2. OnStack(memory, calls) BY DEF InvRadix, Stacked
<1>3. Len(calls) = 1 BY <1>1, <1>2, TopIs DEF Top
<1>4. Control' BY <1>1 DEF InvRadix, Control
<1>5. Linked' /\ Adding' /\ Cleared' BY <1>1 DEF InvRadix, Linked, Adding, Cleared
<1>6. Stacked' BY <1>1, <1>2, <1>3 DEF Stacked
<1>7. Asked' BY <1>1 DEF InvRadix, Asked, take_max
<1>8. Filled'
  <2> SUFFICES ASSUME NEW x \in Used(memory.heap), memory.node[x].zero = 0, memory.node[x].one = 0 PROVE FALSE
    BY <1>1 DEF Filled, NoneEmpty
  <2>1. PICK k \in 1 .. Len(calls) : k = Len(calls) => ~back BY <1>1 DEF InvRadix, Filled, Bare
  <2>2. k = Len(calls) BY <1>3, <2>1
  <2> QED BY <1>1, <2>1, <2>2
<1> QED BY <1>1, <1>4, <1>5, <1>6, <1>7, <1>8 DEF InvRadix

LEMMA ReleaseReturnsStep == ASSUME InvRadix, ReleaseReturns PROVE InvRadix'
<1>1. /\ doing = "release" /\ back = TRUE /\ Top = Root /\ doing' = "ended" /\ back' = back
      /\ memory' = memory /\ entry' = entry /\ calls' = calls
      /\ limit' = limit /\ batch' = batch /\ reads' = reads /\ parent' = parent /\ bit_pos' = bit_pos
  BY DEF ReleaseReturns, adding, walking, Returned, InvRadix, Control
<1>2. OnStack(memory, calls) BY DEF InvRadix, Stacked
<1>3. Len(calls) = 1 BY <1>1, <1>2, TopIs DEF Top
<1>4. Control' BY <1>1 DEF InvRadix, Control
<1>5. Used(memory.heap) = {}
  <2>1. \A x \in Used(memory.heap) : ~Through(memory, Top, memory.node[x]) BY <1>1 DEF InvRadix, Cleared, Visited, Top
  <2> QED BY <1>1, <2>1 DEF Through
<1>6. Linked' BY <1>1, <1>5 DEF InvRadix, Linked, Nodes
<1>7. Adding' /\ Cleared' BY <1>1 DEF InvRadix, Adding, Cleared
<1>8. Stacked' BY <1>1, <1>2, <1>3 DEF Stacked
<1>9. Asked' /\ Filled' BY <1>1 DEF InvRadix, Asked, take_max, Filled
<1> QED BY <1>1, <1>4, <1>6, <1>7, <1>8, <1>9 DEF InvRadix

(* The numbers of a leaf. *)
LEMMA LeafNumbers ==
  ASSUME NEW N \in Numbers
  PROVE  /\ 2 * (N \div 2) \in Numbers /\ 2 * (N \div 2) + 1 \in Numbers
         /\ (2 * (N \div 2)) \div 2 = N \div 2 /\ (2 * (N \div 2) + 1) \div 2 = N \div 2
         /\ BitAt(2 * (N \div 2), 1) = 0 /\ BitAt(2 * (N \div 2) + 1, 1) = 1
<1>1. MAX_BITS \in Nat /\ MAX_BITS > 0 BY RadixAssumption
<1>2. N \in Nat /\ N < 2 * MAX_BITS BY <1>1 DEF Numbers
<1> DEFINE h == N \div 2
<1>3. h \in Nat /\ h < MAX_BITS BY <1>1, <1>2
<1> HIDE DEF h
<1>4. 2 * h \in Numbers /\ 2 * h + 1 \in Numbers BY <1>1, <1>3 DEF Numbers
<1>5. (2 * h) \div 2 = h /\ (2 * h + 1) \div 2 = h BY <1>3
<1>6. (2 * h) % 2 = 0 /\ (2 * h + 1) % 2 = 1 BY <1>3
<1>7. \A i \in Nat : i \div 1 = i
  <2> SUFFICES ASSUME NEW i \in Nat PROVE i \div 1 = i OBVIOUS
  <2>1. i = i * 1 + 0 OBVIOUS
  <2> QED BY <2>1, Quotient
<1>8. BitAt(2 * h, 1) = 0 /\ BitAt(2 * h + 1, 1) = 1 BY <1>3, <1>6, <1>7 DEF BitAt
<1> QED BY <1>4, <1>5, <1>8 DEF h

(* A number is taken from a leaf: the smaller of its numbers that is there. *)
LEMMA TakeIs ==
  ASSUME InvRadix, TakeNumber
  PROVE  \E s \in {"zero", "one"} :
           LET k == memory.node[nptr][s]
               N == memory.node[nptr].number
           IN /\ nptr \in Nodes /\ memory.node[nptr].bit_pos = 1 /\ k \in Nat /\ k > 0 /\ N \in Numbers
              /\ Recounted(memory, memory', nptr, s, k - 1)
              /\ batch' = Append(batch, IF s = "zero" THEN 2 * (N \div 2) ELSE 2 * (N \div 2) + 1)
              /\ s = "one" => memory.node[nptr].zero = 0
<1> DEFINE c == nptr
           b == memory.node[c]
           even == 2 * (b.number \div 2)
<1>1. /\ Called /\ c # NULL /\ b.bit_pos = 1
      /\ \/ b.zero > 0 /\ batch' = Append(batch, even) /\ memory' = [memory EXCEPT !.node[c].zero = @ - 1]
         \/ b.zero = 0 /\ b.one > 0 /\ batch' = Append(batch, even + 1)
            /\ memory' = [memory EXCEPT !.node[c].one = @ - 1]
  BY DEF TakeNumber, IsLeaf
<1>2. NodesOK(memory) /\ Shaped(memory) /\ c \in Used(memory.heap) BY <1>1, Entered DEF Nodes
<1>3. b.zero \in Nat /\ b.one \in Nat /\ b.number \in Numbers BY <1>2, NodeIs DEF NodesOK
<1> HIDE DEF c
<1>4. CASE b.zero > 0 /\ batch' = Append(batch, even) /\ memory' = [memory EXCEPT !.node[c].zero = @ - 1]
  <2> DEFINE k == memory.node[c]["zero"]
  <2>1. k = b.zero /\ k - 1 \in Nat BY <1>3, <1>4
  <2>2. memory' = [memory EXCEPT !.node[c]["zero"] = k - 1] BY <1>4
  <2> HIDE DEF k
  <2>3. Recounted(memory, [memory EXCEPT !.node[c]["zero"] = k - 1], c, "zero", k - 1)
    <3>1. memory.node[c].bit_pos = 1 /\ "zero" \in {"zero", "one"} BY <1>1
    <3> QED BY <1>2, <2>1, <3>1, LeafRecounted
  <2>4. /\ c \in Nodes /\ k \in Nat /\ k > 0 /\ Recounted(memory, memory', c, "zero", k - 1)
        /\ batch' = Append(batch, even)
    BY <1>2, <1>3, <1>4, <2>1, <2>2, <2>3 DEF Nodes
  <2> QED BY <1>1, <1>3, <2>4 DEF k, c
<1>5. CASE b.zero = 0 /\ b.one > 0 /\ batch' = Append(batch, even + 1)
           /\ memory' = [memory EXCEPT !.node[c].one = @ - 1]
  <2> DEFINE k == memory.node[c]["one"]
  <2>1. k = b.one /\ k - 1 \in Nat BY <1>3, <1>5
  <2>2. memory' = [memory EXCEPT !.node[c]["one"] = k - 1] BY <1>5
  <2> HIDE DEF k
  <2>3. Recounted(memory, [memory EXCEPT !.node[c]["one"] = k - 1], c, "one", k - 1)
    <3>1. memory.node[c].bit_pos = 1 /\ "one" \in {"zero", "one"} BY <1>1
    <3> QED BY <1>2, <2>1, <3>1, LeafRecounted
  <2>4. /\ c \in Nodes /\ k \in Nat /\ k > 0 /\ Recounted(memory, memory', c, "one", k - 1)
        /\ batch' = Append(batch, even + 1) /\ b.zero = 0
    BY <1>2, <1>3, <1>5, <2>1, <2>2, <2>3 DEF Nodes
  <2> QED BY <1>1, <1>3, <2>4 DEF k, c
<1> QED BY <1>1, <1>4, <1>5

LEMMA TakeNumberStep == ASSUME InvRadix, TakeNumber PROVE InvRadix'
<1>1. /\ doing = "take" /\ Called /\ nptr # NULL /\ Len(batch) < take_max
      /\ doing' = doing /\ entry' = entry /\ calls' = calls /\ back' = back
      /\ limit' = limit /\ reads' = reads /\ parent' = parent /\ bit_pos' = bit_pos
  BY DEF TakeNumber, adding, walking
<1> DEFINE c == nptr
           N == memory.node[c].number
<1>2. PICK s \in {"zero", "one"} :
           LET k == memory.node[nptr][s]
           IN /\ nptr \in Nodes /\ memory.node[nptr].bit_pos = 1 /\ k \in Nat /\ k > 0 /\ N \in Numbers
              /\ Recounted(memory, memory', nptr, s, k - 1)
              /\ batch' = Append(batch, IF s = "zero" THEN 2 * (N \div 2) ELSE 2 * (N \div 2) + 1)
  BY TakeIs
<1>3. /\ back = FALSE /\ NodesOK(memory) /\ OnStack(memory, calls)
      /\ Sound(memory) /\ Bare(memory, calls, back) /\ Control
  BY <1>1, Entered DEF InvRadix, Linked, Filled
<1>4. /\ NodesOK(memory') /\ Shaped(memory') /\ memory'.heap = memory.heap /\ Places(memory') = Places(memory)
      /\ \A q \in Places(memory) : Pointed(memory', q) = Pointed(memory, q)
      /\ \A x \in Used(memory.heap) : /\ memory'.node[x].bit_pos = memory.node[x].bit_pos
                                      /\ memory'.node[x].number = memory.node[x].number
                                      /\ x # c => memory'.node[x] = memory.node[x]
  BY <1>2 DEF Recounted
<1>5. Kept(memory, memory') BY <1>4 DEF Kept
<1>6. batch' \in Seq(Numbers) /\ Len(batch') = Len(batch) + 1 /\ Len(batch') <= take_max
  <2> DEFINE i == IF s = "zero" THEN 2 * (N \div 2) ELSE 2 * (N \div 2) + 1
  <2>1. i \in Numbers BY <1>2, LeafNumbers
  <2>2. batch' = Append(batch, i) BY <1>2
  <2> HIDE DEF i
  <2>3. batch \in Seq(Numbers) /\ Len(batch) \in Nat BY <1>3 DEF Control
  <2>4. batch' \in Seq(Numbers) /\ Len(batch') = Len(batch) + 1 BY <2>1, <2>2, <2>3
  <2>5. take_max \in Nat BY <1>3, MaxIs
  <2> QED BY <1>1, <2>3, <2>4, <2>5
<1>7. Control'
  <2>1. take_max \in Nat /\ take_max <= Batch BY <1>3, MaxIs
  <2>2. Len(batch') <= Batch
    <3>1. Len(batch') \in Nat /\ Batch \in Nat BY <1>6, RadixAssumption
    <3> QED BY <1>6, <2>1, <3>1
  <2> QED BY <1>1, <1>3, <1>4, <1>6, <2>2 DEF Control
<1>8. Linked' BY <1>1, <1>3, <1>4 DEF Linked, Sound
<1>9. Adding' BY <1>1 DEF InvRadix, Adding
<1>10. Stacked'
  <2>1. \A k \in 1 .. Len(calls) : calls[k] \in Places(memory) BY <1>3 DEF OnStack
  <2>2. \A k \in 1 .. Len(calls) - 1 : Pointed(memory', calls[k]) = Pointed(memory, calls[k])
    <3>1. \A k \in 1 .. Len(calls) - 1 : k \in 1 .. Len(calls) BY <1>3, TopIs
    <3> QED BY <1>4, <2>1, <3>1
  <2>3. OnStack(memory', calls) BY <1>3, <1>4, <1>5, <2>1, <2>2, StackKept
  <2> QED BY <1>1, <2>3 DEF Stacked
<1>11. Cleared'
  <2>1. Visited(memory, calls, back) BY <1>1 DEF InvRadix, Cleared
  <2>2. Visited(memory', calls, back)
    <3> SUFFICES ASSUME NEW k \in 2 .. Len(calls), NEW x \in Used(memory.heap), calls[k][2] = "one"
                 PROVE  ~Through(memory', <<calls[k][1], "zero">>, memory'.node[x])
      BY <1>3, <1>4 DEF Visited
    <3>1. ~Through(memory, <<calls[k][1], "zero">>, memory.node[x]) BY <2>1 DEF Visited
    <3>2. calls[k] # Root /\ calls[k] \in Places(memory)
      <4>1. 1 \in 1 .. k - 1 OBVIOUS
      <4> QED BY <1>3, <4>1, StackApart
    <3>3. calls[k][1] \in Used(memory.heap) /\ memory.node[calls[k][1]].bit_pos > 1 BY <1>3, <3>2, PlaceIs
    <3>4. <<calls[k][1], "zero">> \in Places(memory)
      <4>1. ~(1 > 1) OBVIOUS
      <4>2. PlaceOf(memory, calls[k][1], "zero") BY <3>3, <4>1, IsPlace
      <4> QED BY ONLY <4>2 DEF PlaceOf
    <3> QED BY <1>3, <1>5, <3>1, <3>4, SameWay
  <2> QED BY <1>1, <2>2 DEF Cleared
<1>12. Filled'
  <2> SUFFICES ASSUME NEW x \in Used(memory.heap), memory'.node[x].zero = 0, memory'.node[x].one = 0
               PROVE \E k \in 1 .. Len(calls) : Pointed(memory', calls[k]) = x
    BY <1>1, <1>3, <1>4 DEF Filled, Bare
  <2>1. \A k \in 1 .. Len(calls) : calls[k] \in Places(memory) BY <1>3 DEF OnStack
  <2>2. CASE x = c
    <3>1. Len(calls) \in 1 .. Len(calls) /\ Pointed(memory, calls[Len(calls)]) = c BY <1>3, TopIs DEF nptr, Top
    <3> QED BY <1>4, <2>1, <2>2, <3>1
  <2>3. CASE x # c
    <3>1. memory.node[x].zero = 0 /\ memory.node[x].one = 0 BY <1>4, <2>3
    <3>2. PICK k \in 1 .. Len(calls) : Pointed(memory, calls[k]) = x BY <1>3, <3>1 DEF Bare
    <3> QED BY <1>4, <2>1, <3>2
  <2> QED BY <2>2, <2>3
<1>13. Asked'
  <2>1. take_max' = take_max BY <1>1 DEF take_max
  <2> QED BY <1>1, <1>6, <2>1 DEF InvRadix, Asked
<1> QED BY <1>4, <1>7, <1>8, <1>9, <1>10, <1>11, <1>12, <1>13 DEF InvRadix

(* All the calls are on the way to the node that the innermost one is for. *)
LEMMA OnWayToTop ==
  ASSUME NEW m, NodesOK(m), Shaped(m), NEW cs, OnStack(m, cs), NEW c \in Used(m.heap), c = Pointed(m, Last(cs)),
         NEW k \in 1 .. Len(cs)
  PROVE  Through(m, cs[k], m.node[c]) /\ cs[k] \in Places(m) /\ (cs[k] = Root \/ cs[k][1] # c)
<1>1. /\ Len(cs) \in Nat /\ Last(cs) = cs[Len(cs)] /\ Last(cs) \in Places(m) /\ cs[k] \in Places(m)
  <2>1. Len(cs) \in Nat /\ Last(cs) = cs[Len(cs)] /\ Last(cs) \in Places(m) BY TopIs
  <2>2. cs[k] \in Places(m) BY DEF OnStack
  <2> QED BY <2>1, <2>2
<1>2. IsNode(m.node[c]) /\ c # NULL BY NodeIs DEF NodesOK
<1>3. Through(m, Last(cs), m.node[c]) BY <1>1, <1>2 DEF Shaped
<1>4. Through(m, cs[k], m.node[c])
  <2>1. CASE k = Len(cs) BY <1>1, <1>3, <2>1
  <2>2. CASE k # Len(cs)
    <3>1. Len(cs) \in 2 .. Len(cs) /\ k \in 1 .. Len(cs) - 1 BY <1>1, <2>2
    <3>2. Through(m, cs[k], m.node[Last(cs)[1]]) /\ Last(cs) # Root BY <1>1, <3>1 DEF OnStack
    <3>3. Covers(m.node[Last(cs)[1]], m.node[c]) /\ IsNode(m.node[Last(cs)[1]])
      BY <1>1, <1>3, <3>2, PlaceIs, NodeIs DEF Through
    <3> QED BY <1>1, <1>2, <3>2, <3>3, ThroughBelow
  <2> QED BY <2>1, <2>2
<1>5. ASSUME cs[k] # Root, cs[k][1] = c PROVE FALSE
  <2>1. m.node[c].bit_pos < m.node[c].bit_pos BY <1>4, <1>5 DEF Through
  <2>2. m.node[c].bit_pos \in Nat BY <1>2, Position DEF IsNode
  <2> QED BY <2>1, <2>2
<1> QED BY <1>1, <1>4, <1>5

\* In m2 the node that the innermost call of cs is for is left, and removed when it was empty.
LeftOver(m, m2, cs) ==
  LET c == Pointed(m, Last(cs)) IN
  /\ NodesOK(m2) /\ Shaped(m2) /\ Sound(m2) /\ OnStack(m2, cs) /\ Bare(m2, cs, TRUE) /\ Kept(m, m2)
  /\ Used(m2.heap) \subseteq Used(m.heap)
  /\ \A x \in Used(m.heap) : x \in Used(m2.heap) \/ (m.node[x].zero = 0 /\ m.node[x].one = 0)
  /\ \A x \in Used(m2.heap) : m.node[x].bit_pos = 1 => m2.node[x] = m.node[x]
  /\ m.node[c].zero = 0 /\ m.node[c].one = 0 => \A x \in Used(m2.heap) : ~Through(m2, Last(cs), m2.node[x])

(* take_numbers_2 removes the node it leaves if nothing is left in it. *)
LEMMA EmptyRemoved ==
  ASSUME NEW m, NodesOK(m), Shaped(m), Sound(m), NEW cs, OnStack(m, cs), Pointed(m, Last(cs)) # NULL,
         NEW m2, m2 = (IF /\ m.node[Pointed(m, Last(cs))].zero = 0
                          /\ m.node[Pointed(m, Last(cs))].one = 0 THEN RemoveNode(m, Last(cs)) ELSE m),
         \A x \in Used(m.heap) : m.node[x].zero = 0 /\ m.node[x].one = 0 =>
            \E k \in 1 .. Len(cs) : Pointed(m, cs[k]) = x
  PROVE  LeftOver(m, m2, cs)
<1> DEFINE P == Last(cs)
           c == Pointed(m, P)
           N == Len(cs)
           E == m.node[c].zero = 0 /\ m.node[c].one = 0
<1>1. /\ N \in Nat /\ N > 0 /\ P = cs[N] /\ P \in Places(m) /\ N \in 1 .. N
      /\ P # Root => N - 1 \in 1 .. N /\ P[1] = Pointed(m, cs[N - 1])
  BY TopIs
<1>2. c \in Used(m.heap) BY <1>1 DEF Sound
<1>3. CASE ~E
  <2>1. m2 = m BY <1>3
  <2>2. Kept(m, m) BY DEF Kept
  <2>3. Bare(m, cs, TRUE)
    <3> SUFFICES ASSUME NEW x \in Used(m.heap), m.node[x].zero = 0, m.node[x].one = 0
                 PROVE \E k \in 1 .. N : Pointed(m, cs[k]) = x /\ k # N
      BY DEF Bare
    <3>1. PICK k \in 1 .. N : Pointed(m, cs[k]) = x OBVIOUS
    <3>2. k # N BY <1>1, <1>3, <3>1
    <3> QED BY <3>1, <3>2
  <2> QED BY <1>3, <2>1, <2>2, <2>3 DEF LeftOver
<1>4. CASE E
  <2>1. m2 = RemoveNode(m, P) BY <1>4
  <2>2. \A d \in Used(m.heap) : Covers(m.node[c], m.node[d]) => d = c
    <3> HIDE DEF c
    <3> QED BY <1>2, <1>4, NothingBelow
  <2>3. Removed(m, m2, P) BY <1>1, <2>1, <2>2, NodeRemoved
  <2>4. /\ NodesOK(m2) /\ Shaped(m2) /\ Sound(m2) /\ Kept(m, m2) /\ P \in Places(m2)
        /\ Used(m2.heap) = Used(m.heap) \ {c}
        /\ Places(m2) = {q \in Places(m) : q = Root \/ q[1] # c}
        /\ \A q \in Places(m2) : Pointed(m2, q) = IF q = P THEN NULL ELSE Pointed(m, q)
        /\ \A x \in Used(m2.heap) :
             /\ m.node[x].bit_pos = 1 => m2.node[x] = m.node[x]
             /\ P = Root \/ P[1] # x => m2.node[x].zero = m.node[x].zero /\ m2.node[x].one = m.node[x].one
    BY <2>3 DEF Removed
  <2>5. \A k \in 1 .. N : cs[k] \in Places(m2)
    <3> SUFFICES ASSUME NEW k \in 1 .. N PROVE cs[k] \in Places(m2) OBVIOUS
    <3>1. cs[k] \in Places(m) /\ (cs[k] = Root \/ cs[k][1] # c) BY <1>2, OnWayToTop
    <3>2. Places(m2) = {q \in Places(m) : q = Root \/ q[1] # c} BY <2>4
    <3> QED BY <3>1, <3>2
  <2>6. ASSUME NEW k \in 1 .. N - 1 PROVE Pointed(m2, cs[k]) = Pointed(m, cs[k])
    <3>1. N \in 2 .. N /\ k \in 1 .. N BY <1>1
    <3>2. cs[k] # P BY <1>1, <3>1, StackApart
    <3> QED BY <2>4, <2>5, <3>1, <3>2
  <2>7. OnStack(m2, cs) BY <2>4, <2>5, <2>6, StackKept
  <2>8. Bare(m2, cs, TRUE)
    <3> SUFFICES ASSUME NEW x \in Used(m2.heap), m2.node[x].zero = 0, m2.node[x].one = 0
                 PROVE \E k \in 1 .. N : Pointed(m2, cs[k]) = x /\ k # N
      BY DEF Bare
    <3>1. x \in Used(m.heap) /\ x # c BY <2>4
    <3>2. CASE P # Root /\ P[1] = x
      <4>1. N - 1 \in 1 .. N /\ P[1] = Pointed(m, cs[N - 1]) /\ N - 1 # N /\ cs[N - 1] # P
        <5>1. N - 1 \in 1 .. N /\ P[1] = Pointed(m, cs[N - 1]) /\ N - 1 # N BY <1>1, <3>2
        <5>2. N \in 2 .. N /\ N - 1 \in 1 .. N - 1 BY <1>1, <5>1
        <5>3. cs[N - 1] # P BY <1>1, <5>2, StackApart
        <5> QED BY <5>1, <5>3
      <4>2. Pointed(m2, cs[N - 1]) = x BY <2>4, <2>5, <3>2, <4>1
      <4> QED BY <4>1, <4>2
    <3>3. CASE P = Root \/ P[1] # x
      <4>1. m.node[x].zero = 0 /\ m.node[x].one = 0 BY <2>4, <3>3
      <4>2. PICK k \in 1 .. N : Pointed(m, cs[k]) = x BY <3>1, <4>1
      <4>3. k # N BY <1>1, <3>1, <4>2
      <4>4. k \in 1 .. N - 1 BY <1>1, <4>3
      <4> QED BY <2>6, <4>2, <4>3, <4>4
    <3> QED BY <3>2, <3>3
  <2>9. ASSUME NEW x \in Used(m2.heap) PROVE ~Through(m2, P, m2.node[x])
    <3>1. x \in Used(m.heap) /\ x # c BY <2>4
    <3>2. ~Through(m, P, m.node[x]) BY <1>1, <2>2, <3>1 DEF Shaped
    <3>3. P \in Places(m) /\ Kept(m, m2) BY <1>1, <2>4
    <3> HIDE DEF P, c, N, E
    <3>4. Through(m, P, m2.node[x]) <=> Through(m, P, m.node[x]) BY <3>1, <3>3, SameWay
    <3>5. Through(m2, P, m2.node[x]) <=> Through(m, P, m2.node[x]) BY <3>3, SameWay
    <3> QED BY <3>2, <3>4, <3>5
  <2>10. \A x \in Used(m.heap) : x \in Used(m2.heap) \/ (m.node[x].zero = 0 /\ m.node[x].one = 0) BY <1>4, <2>4
  <2> QED BY <2>4, <2>7, <2>8, <2>9, <2>10 DEF LeftOver
<1> QED BY <1>3, <1>4

(* What has been visited stays so when nodes are removed and calls return. *)
LEMMA SidesVisited ==
  ASSUME NEW m, NodesOK(m), NEW cs, OnStack(m, cs), NEW b, Visited(m, cs, b), NEW m2, Kept(m, m2),
         Used(m2.heap) \subseteq Used(m.heap), NEW cs2, Len(cs2) \in Nat, Len(cs2) <= Len(cs),
         \A k \in 1 .. Len(cs2) : cs2[k] = cs[k]
  PROVE  Visited(m2, cs2, FALSE)
<1> SUFFICES ASSUME NEW k \in 2 .. Len(cs2), NEW x \in Used(m2.heap), cs2[k][2] = "one"
             PROVE  ~Through(m2, <<cs2[k][1], "zero">>, m2.node[x])
  BY DEF Visited
<1>1. k \in 2 .. Len(cs) /\ cs2[k] = cs[k]
  <2>1. Len(cs) \in Nat /\ k \in 1 .. Len(cs2) BY TopIs
  <2> QED BY <2>1
<1>2. ~Through(m, <<cs[k][1], "zero">>, m.node[x]) BY <1>1 DEF Visited
<1>3. cs[k] # Root /\ cs[k] \in Places(m)
  <2>1. 1 \in 1 .. k - 1 OBVIOUS
  <2> QED BY <1>1, <2>1, StackApart
<1>4. cs[k][1] \in Used(m.heap) /\ m.node[cs[k][1]].bit_pos > 1 BY <1>3, PlaceIs
<1>5. <<cs[k][1], "zero">> \in Places(m)
  <2>1. ~(1 > 1) OBVIOUS
  <2>2. PlaceOf(m, cs[k][1], "zero") BY <1>4, <2>1, IsPlace
  <2> QED BY ONLY <2>2 DEF PlaceOf
<1>6. x \in Used(m.heap) OBVIOUS
<1> QED BY <1>1, <1>2, <1>5, <1>6, SameWay

(* A leaf or an interior node is left by take_numbers_2. *)
LEMMA LeaveLeafIs ==
  ASSUME InvRadix, LeaveLeaf
  PROVE  /\ LeftOver(memory, memory', calls) /\ nptr \in Nodes
         /\ Len(batch) < take_max => memory.node[nptr].zero = 0 /\ memory.node[nptr].one = 0
<1>1. /\ Called /\ nptr # NULL /\ doing = "take" /\ RemoveEmpty(Top)
      /\ Len(batch) < take_max => memory.node[nptr].zero = 0 /\ memory.node[nptr].one = 0
  BY DEF LeaveLeaf
<1>2. /\ NodesOK(memory) /\ Shaped(memory) /\ OnStack(memory, calls) /\ nptr \in Nodes
      /\ Sound(memory) /\ Bare(memory, calls, back)
  BY <1>1, Entered DEF InvRadix, Linked, Filled
<1>3. memory' = IF memory.node[Pointed(memory, Last(calls))].zero = 0 /\ memory.node[Pointed(memory, Last(calls))].one = 0
                THEN RemoveNode(memory, Last(calls)) ELSE memory
  BY <1>1 DEF RemoveEmpty, Top
<1>4. Pointed(memory, Last(calls)) # NULL BY <1>1 DEF nptr, Top
<1>5. \A x \in Used(memory.heap) : memory.node[x].zero = 0 /\ memory.node[x].one = 0 =>
            \E k \in 1 .. Len(calls) : Pointed(memory, calls[k]) = x
  BY <1>2 DEF Bare
<1>6. LeftOver(memory, memory', calls) BY <1>2, <1>3, <1>4, <1>5, EmptyRemoved
<1> QED BY <1>1, <1>2, <1>6

LEMMA LeaveLeafStep == ASSUME InvRadix, LeaveLeaf PROVE InvRadix'
<1>1. /\ doing = "take" /\ Called /\ back' = TRUE
      /\ doing' = doing /\ entry' = entry /\ calls' = calls /\ batch' = batch
      /\ limit' = limit /\ reads' = reads /\ parent' = parent /\ bit_pos' = bit_pos
  BY DEF LeaveLeaf, adding
<1>2. LeftOver(memory, memory', calls)
      /\ (Len(batch) < take_max => memory.node[nptr].zero = 0 /\ memory.node[nptr].one = 0)
  BY LeaveLeafIs
<1>3. /\ NodesOK(memory') /\ Shaped(memory') /\ Sound(memory') /\ OnStack(memory', calls) /\ Bare(memory', calls, TRUE)
      /\ Kept(memory, memory') /\ Used(memory'.heap) \subseteq Used(memory.heap)
      /\ memory.node[nptr].zero = 0 /\ memory.node[nptr].one = 0 =>
           \A x \in Used(memory'.heap) : ~Through(memory', Last(calls), memory'.node[x])
  BY <1>2 DEF LeftOver, nptr, Top
<1>4. Control' /\ Adding' /\ Asked' BY <1>1, WalkControl
<1>5. Linked' /\ Stacked' /\ Filled' BY <1>1, <1>3 DEF Linked, Stacked, Filled
<1>6. Cleared'
  <2> SUFFICES ASSUME Len(batch) < take_max PROVE Visited(memory', calls, TRUE)
    BY <1>1 DEF Cleared, take_max
  <2>1. Visited(memory, calls, back) BY <1>1 DEF InvRadix, Cleared
  <2>2. NodesOK(memory) /\ OnStack(memory, calls) BY DEF InvRadix, Stacked
  <2>3. Len(calls) \in Nat /\ Len(calls) <= Len(calls) BY <2>2, TopIs
  <2>4. Visited(memory', calls, FALSE) BY <1>3, <2>1, <2>2, <2>3, SidesVisited
  <2> QED BY <1>2, <1>3, <2>4 DEF Visited
<1> QED BY <1>3, <1>4, <1>5, <1>6 DEF InvRadix

(* An interior node is left after its second side. *)
LEMMA LeaveNodeIs ==
  ASSUME InvRadix, LeaveNode
  PROVE  LET cs == Front(calls)
             c == Pointed(memory, Last(cs))
         IN /\ LeftOver(memory, memory', cs) /\ OnStack(memory, cs) /\ c = Top[1] /\ c \in Nodes
            /\ memory.node[c].bit_pos > 1 /\ Len(cs) = Len(calls) - 1 /\ \A k \in 1 .. Len(cs) : cs[k] = calls[k]
            /\ Len(batch) < take_max => memory.node[c].zero = 0 /\ memory.node[c].one = 0
<1> DEFINE N == Len(calls)
           cs == Front(calls)
           P == Last(cs)
           c == Pointed(memory, P)
<1>1. /\ doing = "take" /\ back = TRUE /\ Top # Root /\ Top[2] = "one" /\ calls' = cs /\ RemoveEmpty(P)
  BY DEF LeaveNode, BothDone, Returned, Sides, InvRadix, Control
<1>2. /\ NodesOK(memory) /\ Shaped(memory) /\ OnStack(memory, calls) /\ Sound(memory) /\ Bare(memory, calls, TRUE)
  BY <1>1 DEF InvRadix, Linked, Filled, Stacked
<1>3. N \in Nat /\ N > 1 /\ Top = calls[N] /\ Top[1] = Pointed(memory, calls[N - 1]) /\ Top \in Places(memory)
      /\ N \in 2 .. N
  BY <1>1, <1>2, TopIs DEF Top
<1>4. OnStack(memory, cs) /\ P = calls[N - 1] BY <1>2, <1>3, Popped
<1>5. Len(cs) = N - 1 /\ \A k \in 1 .. Len(cs) : cs[k] = calls[k]
  <2>1. calls \in Seq(Places(memory)) BY <1>2 DEF OnStack
  <2> QED BY <1>3, <2>1, FrontIs
<1> HIDE DEF cs, P
<1>6. c = Top[1] /\ c \in Used(memory.heap) /\ memory.node[c].bit_pos > 1 /\ Top = <<c, "one">>
  <2>1. c = Top[1] BY <1>3, <1>4
  <2> QED BY <1>1, <1>2, <1>3, <2>1, PlaceIs
<1>7. c # NULL BY <1>2, <1>6, NodeIs DEF NodesOK
<1>8. \A x \in Used(memory.heap) : memory.node[x].zero = 0 /\ memory.node[x].one = 0 =>
            \E k \in 1 .. Len(cs) : Pointed(memory, cs[k]) = x
  <2> SUFFICES ASSUME NEW x \in Used(memory.heap), memory.node[x].zero = 0, memory.node[x].one = 0
               PROVE \E k \in 1 .. Len(cs) : Pointed(memory, cs[k]) = x
    OBVIOUS
  <2>1. PICK k \in 1 .. N : Pointed(memory, calls[k]) = x /\ k # N BY <1>2 DEF Bare
  <2>2. k \in 1 .. Len(cs) BY <1>3, <1>5, <2>1
  <2> QED BY <1>5, <2>1, <2>2
<1>9. memory' = IF memory.node[c].zero = 0 /\ memory.node[c].one = 0 THEN RemoveNode(memory, P) ELSE memory
  BY <1>1 DEF RemoveEmpty
<1>10. LeftOver(memory, memory', cs) BY <1>2, <1>4, <1>7, <1>8, <1>9, EmptyRemoved DEF P
<1>11. ASSUME Len(batch) < take_max PROVE memory.node[c].zero = 0 /\ memory.node[c].one = 0
  <2>1. Visited(memory, calls, TRUE) BY <1>1, <1>11 DEF InvRadix, Cleared
  <2>2. ASSUME NEW s \in {"zero", "one"} PROVE memory.node[c][s] = 0
    <3> DEFINE q == <<c, s>>
    <3>1. q \in Places(memory) /\ q # Root /\ q[1] = c /\ q[2] = s
      <4>1. memory.node[c].bit_pos # 1
        <5>1. ~(1 > 1) OBVIOUS
        <5> QED BY <1>6, <5>1
      <4> HIDE DEF c
      <4>2. PlaceOf(memory, c, s) BY <1>6, <4>1, IsPlace
      <4> QED BY ONLY <4>2 DEF PlaceOf
    <3>2. \A x \in Used(memory.heap) : ~Through(memory, q, memory.node[x])
      <4>1. CASE s = "one" BY <1>6, <2>1, <4>1 DEF Visited, Top
      <4>2. CASE s = "zero"
        <5>1. calls[N][2] = "one" /\ calls[N][1] = c BY <1>1, <1>3, <1>6
        <5> QED BY <1>3, <2>1, <4>2, <5>1 DEF Visited
      <4> QED BY <4>1, <4>2
    <3> HIDE DEF q
    <3>3. Pointed(memory, q) = NULL
      <4> SUFFICES ASSUME Pointed(memory, q) # NULL PROVE FALSE OBVIOUS
      <4>1. Pointed(memory, q) \in Used(memory.heap) BY <1>2, <3>1 DEF Sound
      <4>2. Through(memory, q, memory.node[Pointed(memory, q)]) BY <1>2, <3>1 DEF Shaped
      <4> QED BY <3>2, <4>1, <4>2
    <3> QED BY <3>1, <3>3 DEF Pointed, NULL
  <2>3. memory.node[c]["zero"] = 0 BY <2>2
  <2>4. memory.node[c]["one"] = 0 BY <2>2
  <2> QED BY <2>3, <2>4
<1> QED BY <1>4, <1>5, <1>6, <1>10, <1>11 DEF Nodes, P, cs

LEMMA LeaveNodeStep == ASSUME InvRadix, LeaveNode PROVE InvRadix'
<1> DEFINE cs == Front(calls)
           c == Pointed(memory, Last(cs))
<1>1. /\ doing = "take" /\ back = TRUE /\ calls' = cs
      /\ doing' = doing /\ entry' = entry /\ back' = back /\ batch' = batch
      /\ limit' = limit /\ reads' = reads /\ parent' = parent /\ bit_pos' = bit_pos
  BY DEF LeaveNode, adding, BothDone, Returned, InvRadix, Control
<1>2. /\ LeftOver(memory, memory', cs) /\ OnStack(memory, cs)
      /\ Len(cs) = Len(calls) - 1 /\ \A k \in 1 .. Len(cs) : cs[k] = calls[k]
      /\ Len(batch) < take_max => memory.node[c].zero = 0 /\ memory.node[c].one = 0
  BY LeaveNodeIs
<1> HIDE DEF cs
<1>3. /\ NodesOK(memory') /\ Shaped(memory') /\ Sound(memory') /\ OnStack(memory', cs) /\ Bare(memory', cs, TRUE)
      /\ Kept(memory, memory') /\ Used(memory'.heap) \subseteq Used(memory.heap)
      /\ memory.node[c].zero = 0 /\ memory.node[c].one = 0 =>
           \A x \in Used(memory'.heap) : ~Through(memory', Last(cs), memory'.node[x])
  BY <1>2 DEF LeftOver
<1>4. Control' /\ Adding' /\ Asked'
  <2>1. back' \in BOOLEAN BY <1>1
  <2> QED BY <1>1, <2>1, WalkControl
<1>5. Linked' /\ Stacked' /\ Filled' BY <1>1, <1>3 DEF Linked, Stacked, Filled
<1>6. Cleared'
  <2> SUFFICES ASSUME Len(batch) < take_max PROVE Visited(memory', cs, TRUE)
    BY <1>1 DEF Cleared, take_max
  <2>1. Visited(memory, calls, back) BY <1>1 DEF InvRadix, Cleared
  <2>2. NodesOK(memory) /\ OnStack(memory, calls) BY DEF InvRadix, Stacked
  <2>3. Len(calls) \in Nat /\ Len(cs) \in Nat /\ Len(cs) <= Len(calls) BY <1>2, <2>2, TopIs
  <2>4. Visited(memory', cs, FALSE) BY <1>2, <1>3, <2>1, <2>2, <2>3, SidesVisited
  <2> QED BY <1>2, <1>3, <2>4 DEF Visited
<1> QED BY <1>3, <1>4, <1>5, <1>6 DEF InvRadix

(* The node that the innermost call of cs is for is released by release_tree. *)
LEMMA FreedStack ==
  ASSUME NEW m, NodesOK(m), Shaped(m), NEW cs, OnStack(m, cs), NEW c \in Used(m.heap), c = Pointed(m, Last(cs)),
         NEW m2, Freed(m, m2, c)
  PROVE  OnStack(m2, cs) /\ Kept(m, m2)
<1>1. /\ m2.node = m.node /\ m2.tree = m.tree /\ Places(m2) = {q \in Places(m) : q = Root \/ q[1] # c} BY DEF Freed
<1>2. Kept(m, m2) BY <1>1 DEF Kept
<1>3. \A k \in 1 .. Len(cs) : cs[k] \in Places(m2) BY <1>1, OnWayToTop
<1>4. \A k \in 1 .. Len(cs) - 1 : Pointed(m2, cs[k]) = Pointed(m, cs[k]) BY <1>1 DEF Pointed
<1> QED BY <1>2, <1>3, <1>4, StackKept

LEMMA ReleaseLeafStep == ASSUME InvRadix, ReleaseLeaf PROVE InvRadix'
<1> DEFINE c == nptr
<1>1. /\ doing = "release" /\ Called /\ c # NULL /\ memory.node[c].bit_pos = 1 /\ back' = TRUE
      /\ memory' = [memory EXCEPT !.heap = Release(@, c)]
      /\ doing' = doing /\ entry' = entry /\ calls' = calls /\ batch' = batch
      /\ limit' = limit /\ reads' = reads /\ parent' = parent /\ bit_pos' = bit_pos
  BY DEF ReleaseLeaf, adding, IsLeaf
<1>2. /\ back = FALSE /\ NodesOK(memory) /\ Shaped(memory) /\ OnStack(memory, calls) /\ Top \in Places(memory)
      /\ c \in Used(memory.heap) /\ c = Pointed(memory, Top)
  BY <1>1, Entered DEF Nodes, nptr
<1> HIDE DEF c
<1>3. Freed(memory, memory', c) BY <1>1, <1>2, NodeFreed
<1>4. /\ NodesOK(memory') /\ Shaped(memory') /\ memory'.node = memory.node /\ memory'.tree = memory.tree
      /\ Used(memory'.heap) = Used(memory.heap) \ {c}
      /\ Places(memory') = {q \in Places(memory) : q = Root \/ q[1] # c}
  BY <1>2, <1>3 DEF Freed
<1>5. OnStack(memory', calls) /\ Kept(memory, memory') BY <1>2, <1>3, FreedStack DEF Top
<1>6. Control' /\ Adding' /\ Asked' BY <1>1, WalkControl
<1>7. Linked'
  <2> SUFFICES ASSUME NEW q \in Places(memory')
               PROVE Pointed(memory', q) \in Used(memory'.heap) \cup {NULL} \/ Gone(calls, TRUE, q)
    BY <1>1 DEF Linked, Nodes
  <2>1. q \in Places(memory) /\ Pointed(memory', q) = Pointed(memory, q) BY <1>4 DEF Pointed
  <2>2. Pointed(memory, q) \in Used(memory.heap) \cup {NULL} \/ Gone(calls, FALSE, q)
    BY <1>1, <1>2, <2>1 DEF InvRadix, Linked, Nodes
  <2>3. CASE Pointed(memory, q) = c
    <3>1. q = Top BY <1>1, <1>2, <2>1, <2>3, PointedOnce
    <3> QED BY <3>1 DEF Gone, Top
  <2>4. CASE Gone(calls, FALSE, q) BY <2>4 DEF Gone
  <2> QED BY <1>4, <2>1, <2>2, <2>3, <2>4
<1>8. Stacked' BY <1>1, <1>5 DEF Stacked
<1>9. Cleared'
  <2>1. Visited(memory, calls, back) BY <1>1 DEF InvRadix, Cleared
  <2>2. Len(calls) \in Nat /\ Len(calls) <= Len(calls) BY <1>2, TopIs
  <2>3. Used(memory'.heap) \subseteq Used(memory.heap) BY <1>4
  <2>4. Visited(memory', calls, FALSE) BY <1>2, <1>5, <2>1, <2>2, <2>3, SidesVisited
  <2>5. ASSUME NEW x \in Used(memory'.heap) PROVE ~Through(memory', Top, memory'.node[x])
    <3>1. x \in Used(memory.heap) /\ x # c BY <1>4
    <3>2. ~Covers(memory.node[c], memory.node[x]) BY <1>1, <1>2, <3>1, NothingBelow
    <3>3. ~Through(memory, Top, memory.node[x]) BY <1>2, <3>1, <3>2 DEF Shaped
    <3> QED BY <1>2, <1>5, <3>1, <3>3, SameWay
  <2>6. Visited(memory', calls, TRUE) BY <2>4, <2>5 DEF Visited, Top
  <2> QED BY <1>1, <2>6 DEF Cleared
<1>10. Filled' BY <1>1, <1>4 DEF InvRadix, Filled, NoneEmpty
<1> QED BY <1>4, <1>6, <1>7, <1>8, <1>9, <1>10 DEF InvRadix

LEMMA ReleaseNodeStep == ASSUME InvRadix, ReleaseNode PROVE InvRadix'
<1> DEFINE N == Len(calls)
           cs == Front(calls)
           P == Last(cs)
           c == Top[1]
<1>1. /\ doing = "release" /\ back = TRUE /\ Top # Root /\ Top[2] = "one" /\ calls' = cs /\ back' = back
      /\ memory' = [memory EXCEPT !.heap = Release(@, c)]
      /\ doing' = doing /\ entry' = entry /\ batch' = batch
      /\ limit' = limit /\ reads' = reads /\ parent' = parent /\ bit_pos' = bit_pos
  BY DEF ReleaseNode, adding, BothDone, Returned, Sides, InvRadix, Control
<1>2. /\ NodesOK(memory) /\ Shaped(memory) /\ OnStack(memory, calls) /\ Visited(memory, calls, TRUE)
      /\ NoneEmpty(memory)
  BY <1>1 DEF InvRadix, Linked, Filled, Stacked, Cleared
<1>3. N \in Nat /\ N > 1 /\ Top = calls[N] /\ Top[1] = Pointed(memory, calls[N - 1]) /\ Top \in Places(memory)
      /\ N \in 2 .. N
  BY <1>1, <1>2, TopIs DEF Top
<1>4. OnStack(memory, cs) /\ P = calls[N - 1] BY <1>2, <1>3, Popped
<1>5. Len(cs) = N - 1 /\ \A k \in 1 .. Len(cs) : cs[k] = calls[k]
  <2>1. calls \in Seq(Places(memory)) BY <1>2 DEF OnStack
  <2> QED BY <1>3, <2>1, FrontIs
<1>6. c \in Used(memory.heap) /\ memory.node[c].bit_pos > 1 /\ Top = <<c, "one">> BY <1>1, <1>2, <1>3, PlaceIs
<1>7. P \in Places(memory) /\ c = Pointed(memory, P) /\ c # NULL
  <2>1. P \in Places(memory) BY <1>4, TopIs
  <2>2. c # NULL BY <1>2, <1>6, NodeIs DEF NodesOK
  <2> QED BY <1>3, <1>4, <2>1, <2>2
<1> HIDE DEF c
<1>8. Freed(memory, memory', c) BY <1>1, <1>2, <1>6, NodeFreed
<1>9. /\ NodesOK(memory') /\ Shaped(memory') /\ memory'.node = memory.node /\ memory'.tree = memory.tree
      /\ Used(memory'.heap) = Used(memory.heap) \ {c}
      /\ Places(memory') = {q \in Places(memory) : q = Root \/ q[1] # c}
  BY <1>2, <1>8 DEF Freed
<1> HIDE DEF cs
<1>10. OnStack(memory', cs) /\ Kept(memory, memory') BY <1>2, <1>4, <1>6, <1>7, <1>8, FreedStack
<1> HIDE DEF P
<1>11. Control' /\ Adding' /\ Asked'
  <2>1. back' \in BOOLEAN BY <1>1
  <2> QED BY <1>1, <2>1, WalkControl
<1>12. Linked'
  <2> SUFFICES ASSUME NEW q \in Places(memory')
               PROVE Pointed(memory', q) \in Used(memory'.heap) \cup {NULL} \/ Gone(cs, TRUE, q)
    BY <1>1 DEF Linked, Nodes
  <2>1. q \in Places(memory) /\ Pointed(memory', q) = Pointed(memory, q) /\ (q = Root \/ q[1] # c)
    BY <1>9 DEF Pointed
  <2>2. Pointed(memory, q) \in Used(memory.heap) \cup {NULL} \/ Gone(calls, TRUE, q)
    BY <1>1, <2>1 DEF InvRadix, Linked, Nodes
  <2>3. CASE Pointed(memory, q) = c
    <3>1. q = P BY <1>2, <1>7, <2>1, <2>3, PointedOnce
    <3> QED BY <3>1 DEF Gone, P
  <2>4. CASE Gone(calls, TRUE, q)
    <3>1. q # Top BY <1>1, <1>6, <2>1
    <3>2. PICK k \in 2 .. N : calls[k][2] = "one" /\ q = <<calls[k][1], "zero">> BY <2>4, <3>1 DEF Gone, Top
    <3>3. q # Root /\ q[1] = calls[k][1] BY <3>2 DEF Root
    <3>4. k # N
      <4>1. calls[N][1] = c BY <1>3, <1>6
      <4> HIDE DEF N
      <4> QED BY <2>1, <3>3, <4>1
    <3>5. k \in 2 .. Len(cs) /\ k \in 1 .. Len(cs) BY <1>3, <1>5, <3>4
    <3> QED BY <1>5, <3>2, <3>5 DEF Gone
  <2> QED BY <1>9, <2>1, <2>2, <2>3, <2>4
<1>13. Stacked' BY <1>1, <1>10 DEF Stacked
<1>14. Cleared'
  <2>1. Len(cs) \in Nat /\ Len(cs) <= Len(calls) BY <1>3, <1>5
  <2>2. Used(memory'.heap) \subseteq Used(memory.heap) BY <1>9
  <2>3. Visited(memory', cs, FALSE) BY <1>2, <1>5, <1>10, <2>1, <2>2, SidesVisited
  <2>4. ASSUME NEW x \in Used(memory'.heap) PROVE ~Through(memory', P, memory'.node[x])
    <3>1. x \in Used(memory.heap) /\ x # c BY <1>9
    <3>2. ~Covers(memory.node[c], memory.node[x])
      <4> SUFFICES ASSUME Covers(memory.node[c], memory.node[x]) PROVE FALSE OBVIOUS
      <4> DEFINE s == Side(memory.node[x].number, memory.node[c].bit_pos)
      <4>1. s \in {"zero", "one"} /\ Through(memory, <<c, s>>, memory.node[x])
        <5>1. s \in {"zero", "one"} BY SideIs
        <5> QED BY <1>2, <1>6, <3>1, <5>1, BelowSide
      <4> HIDE DEF s
      <4>2. CASE s = "one" BY <1>2, <1>6, <3>1, <4>1, <4>2 DEF Visited, Top
      <4>3. CASE s = "zero"
        <5>1. calls[N][2] = "one" /\ calls[N][1] = c BY <1>1, <1>3, <1>6
        <5> QED BY <1>2, <1>3, <3>1, <4>1, <4>3, <5>1 DEF Visited
      <4> QED BY <4>1, <4>2, <4>3
    <3>3. ~Through(memory, P, memory.node[x]) BY <1>2, <1>7, <3>1, <3>2 DEF Shaped
    <3> QED BY <1>2, <1>7, <1>10, <3>1, <3>3, SameWay
  <2>5. Visited(memory', cs, TRUE) BY <2>3, <2>4 DEF Visited, P
  <2> QED BY <1>1, <2>5 DEF Cleared
<1>15. Filled' BY <1>1, <1>2, <1>9 DEF Filled, NoneEmpty
<1> QED BY <1>9, <1>11, <1>12, <1>13, <1>14, <1>15 DEF InvRadix

(* Every step keeps the invariant. *)
LEMMA RadixStep == InvRadix /\ [Next]_vars => InvRadix'
<1> SUFFICES ASSUME InvRadix, [Next]_vars PROVE InvRadix' OBVIOUS
<1>1. CASE ReadNumber \/ ReadTake \/ WriteBatch \/ End
  BY <1>1, ReadNumberStep, ReadTakeStep, WriteBatchStep, EndStep
<1>2. CASE AddLeaf \/ AddNode \/ Descend \/ Count BY <1>2, AddStep, DescendStep, CountStep
<1>3. CASE CallOnNull \/ FirstSide \/ SecondSide BY <1>3, CallOnNullStep, FirstSideStep, SecondSideStep
<1>4. CASE TakeNumber \/ LeaveLeaf \/ LeaveNode \/ TakeReturns
  BY <1>4, TakeNumberStep, LeaveLeafStep, LeaveNodeStep, TakeReturnsStep
<1>5. CASE ReleaseLeaf \/ ReleaseNode \/ ReleaseReturns BY <1>5, ReleaseLeafStep, ReleaseNodeStep, ReleaseReturnsStep
<1>6. CASE UNCHANGED vars
  <2>1. /\ memory' = memory /\ doing' = doing /\ entry' = entry /\ limit' = limit /\ batch' = batch /\ reads' = reads
        /\ parent' = parent /\ bit_pos' = bit_pos /\ calls' = calls /\ back' = back
    BY <1>6 DEF vars, adding, walking
  <2>2. Control' BY <2>1 DEF InvRadix, Control
  <2>3. Linked' /\ Stacked' BY <2>1 DEF InvRadix, Linked, Stacked, Nodes
  <2>4. Adding' BY <2>1 DEF InvRadix, Adding
  <2>5. Cleared' /\ Asked' BY <2>1 DEF InvRadix, Cleared, Asked, take_max
  <2>6. Filled' BY <2>1 DEF InvRadix, Filled
  <2> QED BY <2>1, <2>2, <2>3, <2>4, <2>5, <2>6 DEF InvRadix
<1> QED BY <1>1, <1>2, <1>3, <1>4, <1>5, <1>6 DEF Next

(* The invariant has every variable in its type. *)
LEMMA RadixTyped == InvRadix => TypeOK
<1> SUFFICES ASSUME InvRadix PROVE TypeOK OBVIOUS
<1>1. NodesOK(memory) /\ Control /\ OnStack(memory, calls) BY DEF InvRadix, Stacked
<1>2. memory.heap \in HeapRecord(Blocks(memory.heap)) BY <1>1 DEF NodesOK, HeapOK
<1>3. /\ memory.heap.free_space \in Nat \ {0} /\ memory.heap.header \in Blocks(memory.heap) \cup {NULL}
      /\ memory.heap.word \in [Blocks(memory.heap) -> Blocks(memory.heap) \cup {NULL, Size}]
  BY <1>2 DEF HeapRecord
<1>4. memory.node \in [DOMAIN memory.node -> NodeRecord] BY <1>1 DEF NodesOK
<1>5. memory.tree \in DOMAIN memory.node \cup {NULL}
  <2>1. Root \in Places(memory) BY DEF Places
  <2>2. Pointed(memory, Root) = memory.tree BY DEF Pointed
  <2> QED BY <1>1, <2>1, <2>2 DEF NodesOK
<1>6. calls \in Seq(Places(memory)) BY <1>1 DEF OnStack
<1> QED BY <1>1, <1>3, <1>4, <1>5, <1>6 DEF TypeOK, Control

(* The invariant says that the tree is well formed, *)
LEMMA RadixWellFormed == InvRadix => WellFormed
<1> SUFFICES ASSUME InvRadix PROVE WellFormed OBVIOUS
<1>1. NodesOK(memory) /\ Shaped(memory) /\ Filled BY DEF InvRadix
<1>2. ASSUME NEW place \in Places(memory)
      PROVE  LET c == Pointed(memory, place)
             IN /\ \A d \in Nodes : Through(memory, place, memory.node[d]) =>
                     c # NULL /\ Covers(memory.node[c], memory.node[d])
                /\ c # NULL => Through(memory, place, memory.node[c])
  BY <1>1 DEF Shaped, Nodes
<1>3. ASSUME NEW c \in Nodes, NEW d \in Nodes, Covers(memory.node[c], memory.node[d]), Covers(memory.node[d], memory.node[c])
      PROVE  c = d
  BY <1>1, <1>3 DEF Shaped, Nodes
<1>4. ASSUME doing \in {"main", "add", "write"}, NEW c \in Nodes
      PROVE  memory.node[c].zero > 0 \/ memory.node[c].one > 0
  <2>1. memory.node[c].zero # 0 \/ memory.node[c].one # 0 BY <1>1, <1>4 DEF Filled, NoneEmpty, Nodes
  <2>2. memory.node[c].zero \in Nat /\ memory.node[c].one \in Nat BY <1>1, NodeIs DEF NodesOK, Nodes
  <2> QED BY <2>1, <2>2
<1> QED BY <1>2, <1>3, <1>4 DEF WellFormed

(* and that no block is lost. *)
LEMMA RadixNoLeak == InvRadix => NoLeak
<1> SUFFICES ASSUME InvRadix PROVE NoLeak OBVIOUS
<1>1. NodesOK(memory) /\ Shaped(memory) /\ Linked BY DEF InvRadix
<1>2. ListOK(memory.heap) BY <1>1, ListIsOK DEF NodesOK
<1>3. ASSUME doing \notin {"release", "ended"}
      PROVE  /\ \A c \in Nodes : \E p \in Places(memory) : \A q \in Places(memory) : (Pointed(memory, q) = c) = (q = p)
             /\ \A q \in Places(memory) : Pointed(memory, q) \in Nodes \cup {NULL}
  <2>1. Sound(memory) BY <1>1, <1>3 DEF Linked
  <2>2. ASSUME NEW c \in Nodes
        PROVE  \E p \in Places(memory) : \A q \in Places(memory) : (Pointed(memory, q) = c) = (q = p)
    <3>1. c \in Used(memory.heap) /\ c # NULL BY <1>1, NodeIs DEF Nodes, NodesOK
    <3>2. PICK p \in Places(memory) : Pointed(memory, p) = c BY <1>1, <2>1, <3>1, PointedAtAll
    <3>3. \A q \in Places(memory) : Pointed(memory, q) = c => q = p BY <1>1, <3>1, <3>2, PointedOnce
    <3>4. \A q \in Places(memory) : (Pointed(memory, q) = c) <=> (q = p) BY <3>2, <3>3
    <3>5. \A q \in Places(memory) : (Pointed(memory, q) = c) = (q = p) BY <3>4
    <3> QED BY <3>5
  <2> QED BY <2>1, <2>2 DEF Sound, Nodes
<1>4. doing = "ended" => Nodes = {} BY <1>1 DEF Linked
<1> QED BY <1>2, <1>3, <1>4 DEF NoLeak

(* radix.c:31-276 with lib.c:146-201: at every step the free list and the tree are in order, every
   place on the stack of calls is one of the tree, and what was visited while there was room in the
   batch is empty. *)
THEOREM RadixInvariant == Spec => []InvRadix
BY RadixInit, RadixStep, PTL DEF Spec

(* radix.c:28-220 and lib.c:146-201: every variable has its type at every step. *)
THEOREM RadixTypeCorrect == Spec => []TypeOK
BY RadixInvariant, RadixTyped, PTL

(* radix.c:56-113 and 172-202: the tree is well formed at every step. *)
THEOREM TreeWellFormed == Spec => []WellFormed
BY RadixInvariant, RadixWellFormed, PTL

(* lib.c:146-201 and radix.c:172-220: no block is lost, pointed to twice or pointed to while it is free. *)
THEOREM NoBlockLost == Spec => []NoLeak
BY RadixInvariant, RadixNoLeak, PTL

-----------------------------------------------------------------------------
(* A6, the refinement: what the tree counts.                               *)

\* c is the leaf for N.
LeafFor(m, c, N) == c \in Used(m.heap) /\ m.node[c].bit_pos = 1 /\ m.node[c].number \div 2 = N \div 2

\* How often N is in the tree of m.
CountOf(m, N) == LET leaf == {c \in Used(m.heap) : LeafFor(m, c, N)}
                 IN IF leaf = {} THEN 0 ELSE m.node[CHOOSE c \in leaf : TRUE][Side(N, 1)]

Dropped == doing \in {"release", "ended"}

(* What the refinement mapping counts is what the tree counts, until it is released. *)
LEMMA CountsIs ==
  ASSUME NEW N \in Numbers
  PROVE  Counts[N] = IF Dropped THEN 0 ELSE CountOf(memory, N)
<1> DEFINE A(M) == {c \in Nodes : IsLeaf(memory, c) /\ memory.node[c].number \div 2 = M \div 2}
           L(M) == {c \in Used(memory.heap) : LeafFor(memory, c, M)}
           value(X, M) == memory.node[CHOOSE c \in X : TRUE][Side(M, 1)]
<1>1. A(N) = L(N) BY DEF Nodes, IsLeaf, LeafFor
<1>2. Counts[N] = IF A(N) = {} \/ Dropped THEN 0 ELSE value(A(N), N)
  <2>1. Counts = [M \in Numbers |-> IF A(M) = {} \/ Dropped THEN 0 ELSE value(A(M), M)] BY DEF Counts, Dropped
  <2> HIDE DEF A, value
  <2> QED BY <2>1
<1>3. CountOf(memory, N) = IF L(N) = {} THEN 0 ELSE value(L(N), N) BY DEF CountOf
<1> HIDE DEF A, L, value
<1> QED BY <1>1, <1>2, <1>3

(* There is one leaf for a number, or none. *)
LEMMA OneLeaf ==
  ASSUME NEW m, Shaped(m), NEW N, NEW c, NEW d, LeafFor(m, c, N), LeafFor(m, d, N)
  PROVE  c = d
<1>1. m.node[c].bit_pos = 1 /\ m.node[d].bit_pos = 1 /\ c \in Used(m.heap) /\ d \in Used(m.heap)
      /\ m.node[c].number \div 2 = m.node[d].number \div 2
  BY DEF LeafFor
<1>2. 2 * 1 = 2 /\ 1 <= 1 OBVIOUS
<1>3. Covers(m.node[c], m.node[d]) /\ Covers(m.node[d], m.node[c]) BY <1>1, <1>2 DEF Covers
<1> QED BY <1>1, <1>3 DEF Shaped

(* The leaf for a number counts it, *)
LEMMA CountAt ==
  ASSUME NEW m, Shaped(m), NEW N, NEW c, LeafFor(m, c, N)
  PROVE  CountOf(m, N) = m.node[c][Side(N, 1)]
<1> DEFINE leaf == {x \in Used(m.heap) : LeafFor(m, x, N)}
           d == CHOOSE x \in leaf : TRUE
<1>1. c \in leaf BY DEF LeafFor
<1>2. d \in leaf BY <1>1
<1>3. LeafFor(m, d, N) BY <1>2
<1>4. d = c BY <1>3, OneLeaf
<1>5. leaf # {} BY <1>1
<1> QED BY <1>4, <1>5 DEF CountOf

(* and without one it counts for nothing. *)
LEMMA CountNone ==
  ASSUME NEW m, NEW N, \A c \in Used(m.heap) : ~LeafFor(m, c, N)
  PROVE  CountOf(m, N) = 0
BY DEF CountOf

(* Counts are natural numbers. *)
LEMMA CountNat ==
  ASSUME NEW m, NodesOK(m), Shaped(m), NEW N PROVE CountOf(m, N) \in Nat
<1>1. CASE \E c : LeafFor(m, c, N)
  <2>1. PICK c : LeafFor(m, c, N) BY <1>1
  <2>2. c \in DOMAIN m.node BY <2>1 DEF LeafFor, NodesOK
  <2>3. m.node[c].zero \in Nat /\ m.node[c].one \in Nat BY <2>2, NodeIs
  <2>4. m.node[c][Side(N, 1)] \in Nat BY <2>3, SideIs
  <2> QED BY <2>1, <2>4, CountAt
<1>2. CASE ~\E c : LeafFor(m, c, N) BY <1>2, CountNone
<1> QED BY <1>1, <1>2

(* The counts stay when the leaves stay but for empty ones. *)
LEMMA SameCount ==
  ASSUME NEW m, NodesOK(m), Shaped(m), NEW m2, Shaped(m2), Used(m2.heap) \subseteq Used(m.heap),
         Kept(m, m2),
         \A x \in Used(m.heap) : x \in Used(m2.heap) \/ (m.node[x].zero = 0 /\ m.node[x].one = 0),
         \A x \in Used(m2.heap) : m.node[x].bit_pos = 1 => m2.node[x] = m.node[x],
         NEW N
  PROVE  CountOf(m2, N) = CountOf(m, N)
<1>1. CASE \E c : LeafFor(m, c, N)
  <2>1. PICK c : LeafFor(m, c, N) BY <1>1
  <2>2. CountOf(m, N) = m.node[c][Side(N, 1)] BY <2>1, CountAt
  <2>3. CASE c \in Used(m2.heap)
    <3>1. m2.node[c] = m.node[c] /\ LeafFor(m2, c, N) BY <2>1, <2>3 DEF LeafFor
    <3> QED BY <2>2, <3>1, CountAt
  <2>4. CASE c \notin Used(m2.heap)
    <3>1. m.node[c].zero = 0 /\ m.node[c].one = 0 BY <2>1, <2>4 DEF LeafFor
    <3>2. m.node[c][Side(N, 1)] = 0 BY <3>1, SideIs
    <3>3. ASSUME NEW d \in Used(m2.heap) PROVE ~LeafFor(m2, d, N)
      <4> SUFFICES ASSUME LeafFor(m2, d, N) PROVE FALSE OBVIOUS
      <4>1. LeafFor(m, d, N) BY DEF LeafFor, Kept
      <4>2. d = c BY <2>1, <4>1, OneLeaf
      <4> QED BY <2>4, <4>2
    <3> QED BY <2>2, <3>2, <3>3, CountNone
  <2> QED BY <2>3, <2>4
<1>2. CASE ~\E c : LeafFor(m, c, N)
  <2>1. ASSUME NEW d \in Used(m2.heap) PROVE ~LeafFor(m2, d, N)
    <3> SUFFICES ASSUME LeafFor(m2, d, N) PROVE FALSE OBVIOUS
    <3>1. LeafFor(m, d, N) BY DEF LeafFor, Kept
    <3> QED BY <1>2, <3>1
  <2>2. CountOf(m2, N) = 0 BY <2>1, CountNone
  <2>3. CountOf(m, N) = 0 BY <1>2, CountNone
  <2> QED BY <2>2, <2>3
<1> QED BY <1>1, <1>2

(* A number is what its leaf and its last bit say. *)
LEMMA NumberIs ==
  ASSUME NEW x \in Nat, NEW y \in Nat, x \div 2 = y \div 2
  PROVE  /\ x = y <=> Side(x, 1) = Side(y, 1)
         /\ x < y => Side(x, 1) = "zero" /\ Side(y, 1) = "one"
<1>1. 1 \in Positions BY Position
<1>2. x \div 1 = x /\ y \div 1 = y /\ 2 * 1 = 2 OBVIOUS
<1>3. /\ x = 2 * (x \div 2) + BitAt(x, 1) /\ y = 2 * (y \div 2) + BitAt(y, 1)
      /\ BitAt(x, 1) \in {0, 1} /\ BitAt(y, 1) \in {0, 1} /\ x \div 2 \in Nat
  BY <1>1, <1>2, Bit
<1> DEFINE a == BitAt(x, 1)
           b == BitAt(y, 1)
           h == x \div 2
<1>4. x = 2 * h + a /\ y = 2 * h + b /\ a \in {0, 1} /\ b \in {0, 1} /\ h \in Nat BY <1>3
<1>5. Side(x, 1) = (IF a = 1 THEN "one" ELSE "zero") /\ Side(y, 1) = (IF b = 1 THEN "one" ELSE "zero") BY DEF Side
<1> HIDE DEF a, b, h
<1>6. x = y <=> a = b BY <1>4
<1>7. x < y => a = 0 /\ b = 1 BY <1>4
<1> QED BY <1>4, <1>5, <1>6, <1>7

(* A leaf is added for a number that has none: it is counted once. *)
LEMMA AddedCount ==
  ASSUME NEW m, NodesOK(m), Shaped(m), NEW m2, NEW N \in Numbers, Extended(m, m2, N), NEW x \in Numbers
  PROVE  CountOf(m2, x) = IF x = N THEN CountOf(m, N) + 1 ELSE CountOf(m, x)
<1>1. PICK l \in Used(m2.heap) \ Used(m.heap) :
        /\ m2.node[l] = LeafOf(N)
        /\ \A y \in Used(m2.heap) : m2.node[y].bit_pos = 1 => y = l \/ y \in Used(m.heap)
  BY DEF Extended
<1>2. /\ Shaped(m2) /\ Used(m.heap) \subseteq Used(m2.heap)
      /\ \A y \in Used(m.heap) : m2.node[y].bit_pos = m.node[y].bit_pos
      /\ \A y \in Used(m.heap) : m.node[y].bit_pos = 1 => m2.node[y] = m.node[y]
  BY DEF Extended
<1>3. x \in Nat /\ N \in Nat BY RadixAssumption DEF Numbers
<1>4. LeafOf(N).bit_pos = 1 /\ LeafOf(N).number = N BY LeafIs
<1>5. ASSUME NEW c, LeafFor(m, c, x) PROVE LeafFor(m2, c, x) /\ m2.node[c] = m.node[c] /\ c # l
  BY <1>1, <1>2, <1>5 DEF LeafFor
<1>6. CASE x \div 2 = N \div 2
  <2>1. LeafFor(m2, l, x) BY <1>1, <1>4, <1>6 DEF LeafFor
  <2>2. CountOf(m2, x) = LeafOf(N)[Side(x, 1)] BY <1>1, <1>2, <2>1, CountAt
  <2>3. ASSUME NEW c \in Used(m.heap) PROVE ~LeafFor(m, c, x) BY <1>2, <1>5, <2>1, OneLeaf
  <2>4. CountOf(m, x) = 0 BY <2>3, CountNone
  <2>5. LeafOf(N)[Side(x, 1)] = IF x = N THEN 1 ELSE 0
    <3>1. x = N <=> Side(x, 1) = Side(N, 1) BY <1>3, <1>6, NumberIs
    <3>2. LeafOf(N).zero = 1 - BitAt(N, 1) /\ LeafOf(N).one = BitAt(N, 1) BY DEF LeafOf
    <3>3. BitAt(N, 1) \in {0, 1} BY <1>3, Position, Bit
    <3>4. CASE BitAt(N, 1) = 1
      <4>1. Side(N, 1) = "one" /\ LeafOf(N).zero = 0 /\ LeafOf(N).one = 1 BY <3>2, <3>4 DEF Side
      <4> QED BY <3>1, <4>1, SideIs
    <3>5. CASE BitAt(N, 1) = 0
      <4>1. Side(N, 1) = "zero" /\ LeafOf(N).zero = 1 /\ LeafOf(N).one = 0 BY <3>2, <3>5 DEF Side
      <4> QED BY <3>1, <4>1, SideIs
    <3> QED BY <3>3, <3>4, <3>5
  <2> QED BY <2>2, <2>4, <2>5
<1>7. CASE x \div 2 # N \div 2
  <2>1. x # N BY <1>7
  <2>2. CASE \E c : LeafFor(m, c, x)
    <3>1. PICK c : LeafFor(m, c, x) BY <2>2
    <3>2. CountOf(m, x) = m.node[c][Side(x, 1)] BY <3>1, CountAt
    <3>3. CountOf(m2, x) = m2.node[c][Side(x, 1)] BY <1>2, <1>5, <3>1, CountAt
    <3> QED BY <1>5, <2>1, <3>1, <3>2, <3>3
  <2>3. CASE ~\E c : LeafFor(m, c, x)
    <3>1. ASSUME NEW c \in Used(m2.heap), LeafFor(m2, c, x) PROVE FALSE
      <4>1. m2.node[c].bit_pos = 1 /\ m2.node[c].number \div 2 = x \div 2 BY <3>1 DEF LeafFor
      <4>2. c # l BY <1>1, <1>4, <1>7, <4>1
      <4>3. c \in Used(m.heap) BY <1>1, <4>1, <4>2
      <4>4. m2.node[c] = m.node[c] BY <1>2, <4>1, <4>3
      <4> QED BY <2>3, <4>1, <4>3, <4>4 DEF LeafFor
    <3>2. CountOf(m2, x) = 0 BY <3>1, CountNone
    <3>3. CountOf(m, x) = 0 BY <2>3, CountNone
    <3> QED BY <2>1, <3>2, <3>3
  <2> QED BY <2>2, <2>3
<1> QED BY <1>6, <1>7

(* A leaf has another count for one of its numbers. *)
LEMMA ChangedCount ==
  ASSUME NEW m, NodesOK(m), Shaped(m), NEW m2, NEW c, NEW k, NEW N \in Numbers, LeafFor(m, c, N),
         Recounted(m, m2, c, Side(N, 1), k), NEW x \in Numbers
  PROVE  CountOf(m2, x) = IF x = N THEN k ELSE CountOf(m, x)
<1> DEFINE s == Side(N, 1)
<1>1. /\ Shaped(m2) /\ m2.heap = m.heap
      /\ \A y \in Used(m.heap) : /\ m2.node[y].bit_pos = m.node[y].bit_pos /\ m2.node[y].number = m.node[y].number
                                 /\ y # c => m2.node[y] = m.node[y]
      /\ m2.node[c][s] = k /\ \A t \in {"zero", "one"} : t # s => m2.node[c][t] = m.node[c][t]
  BY DEF Recounted
<1> HIDE DEF s
<1>2. \A y, z : LeafFor(m2, y, z) <=> LeafFor(m, y, z) BY <1>1 DEF LeafFor
<1>3. x \in Nat /\ N \in Nat BY RadixAssumption DEF Numbers
<1>4. CASE \E d : LeafFor(m, d, x)
  <2>1. PICK d : LeafFor(m, d, x) BY <1>4
  <2>2. CountOf(m, x) = m.node[d][Side(x, 1)] BY <2>1, CountAt
  <2>3. CountOf(m2, x) = m2.node[d][Side(x, 1)] BY <1>1, <1>2, <2>1, CountAt
  <2>4. CASE d = c
    <3>1. x \div 2 = N \div 2 BY <2>1, <2>4 DEF LeafFor
    <3>2. x = N <=> Side(x, 1) = s BY <1>3, <3>1, NumberIs DEF s
    <3>3. Side(x, 1) \in {"zero", "one"} BY SideIs
    <3> QED BY <1>1, <2>2, <2>3, <2>4, <3>2, <3>3
  <2>5. CASE d # c
    <3>1. x # N BY <2>1, <2>5, OneLeaf
    <3>2. m2.node[d] = m.node[d] BY <1>1, <2>1, <2>5 DEF LeafFor
    <3> QED BY <2>2, <2>3, <3>1, <3>2
  <2> QED BY <2>4, <2>5
<1>5. CASE ~\E d : LeafFor(m, d, x)
  <2>1. x # N BY <1>5
  <2>2. CountOf(m, x) = 0 BY <1>5, CountNone
  <2>3. CountOf(m2, x) = 0 BY <1>2, <1>5, CountNone
  <2> QED BY <2>1, <2>2, <2>3
<1> QED BY <1>4, <1>5

\* The counts of m, which are given up when the tree is released.
CountsIn(m, dropped) == [N \in Numbers |-> IF dropped THEN 0 ELSE CountOf(m, N)]

(* The counts before and after a step. *)
LEMMA CountsBoth == Counts = CountsIn(memory, Dropped) /\ Counts' = CountsIn(memory', Dropped')
<1>1. Counts = CountsIn(memory, Dropped)
  <2>1. Counts = [N \in Numbers |-> Counts[N]] BY DEF Counts
  <2>2. \A N \in Numbers : Counts[N] = IF Dropped THEN 0 ELSE CountOf(memory, N) BY CountsIs
  <2> QED BY <2>1, <2>2 DEF CountsIn
<1>2. (Counts = CountsIn(memory, Dropped))' BY <1>1, PTL
<1> QED BY <1>1, <1>2

(* The counts stay when those of the tree do. *)
LEMMA CountsStay ==
  ASSUME Dropped' = Dropped, Dropped \/ \A N \in Numbers : CountOf(memory', N) = CountOf(memory, N)
  PROVE  Counts' = Counts
BY CountsBoth DEF CountsIn

\* main's variables as the sorted numbers have them.
Doing == IF doing = "release" THEN "ended" ELSE doing

(* A step of the tree that is none of the sorted numbers. *)
LEMMA Stutters ==
  ASSUME Doing' = Doing, entry' = entry, limit' = limit, batch' = batch, Counts' = Counts
  PROVE  UNCHANGED List!vars
BY DEF List!vars, Doing

(* While a batch has room, all numbers in other leaves are larger than those of the leaf that
   the innermost call is for. *)
LEMMA LeafSmallest ==
  ASSUME NEW m, NodesOK(m), Shaped(m), NEW cs, OnStack(m, cs), Visited(m, cs, FALSE),
         NEW c \in Used(m.heap), c = Pointed(m, Last(cs)), m.node[c].bit_pos = 1,
         NEW x \in Used(m.heap), x # c, m.node[x].bit_pos = 1,
         NEW a \in Nat, a \div 2 = m.node[c].number \div 2,
         NEW b \in Nat, b \div 2 = m.node[x].number \div 2
  PROVE  a < b
<1> DEFINE N == Len(cs)
           U == {k \in 1 .. N : ~Covers(m.node[Pointed(m, cs[k])], m.node[x])}
<1>1. /\ N \in Nat /\ N > 0 /\ Last(cs) = cs[N] /\ N \in 1 .. N
      /\ \A k \in 1 .. N : cs[k] \in Places(m)
  BY TopIs
<1>2. c \in DOMAIN m.node /\ x \in DOMAIN m.node /\ IsNode(m.node[c]) /\ IsNode(m.node[x])
  BY NodeIs DEF NodesOK
<1>3. N \in U
  <2>1. ~Covers(m.node[c], m.node[x]) BY NothingBelow
  <2> QED BY <1>1, <2>1
<1>4. PICK k \in U : \A j \in U : k <= j
  <2>1. U \in SUBSET Nat BY <1>1
  <2> QED BY <1>3, <2>1, LeastNumber
<1>5. k \in 1 .. N /\ ~Covers(m.node[Pointed(m, cs[k])], m.node[x]) BY <1>4
<1>6. k # 1
  <2>1. Root \in Places(m) /\ Through(m, Root, m.node[x]) BY DEF Places, Through
  <2>2. Covers(m.node[Pointed(m, Root)], m.node[x]) BY <2>1 DEF Shaped
  <2>3. cs[1] = Root BY DEF OnStack
  <2> QED BY <1>5, <2>2, <2>3
<1> DEFINE d == cs[k][1]
           p == m.node[d].bit_pos
           s == Side(m.node[x].number, p)
<1>7. k \in 2 .. N /\ k - 1 \in 1 .. N /\ k - 1 \in Nat /\ ~(k <= k - 1) BY <1>1, <1>5, <1>6
<1>8. /\ cs[k] # Root /\ d = Pointed(m, cs[k - 1]) /\ cs[k] = <<d, cs[k][2]>> /\ cs[k][2] \in {"zero", "one"}
      /\ d \in Used(m.heap) /\ d \in DOMAIN m.node /\ p > 1
  <2>1. cs[k] # Root /\ d = Pointed(m, cs[k - 1]) BY <1>7 DEF OnStack
  <2> QED BY <1>1, <1>7, <2>1, PlaceIs
<1>9. Covers(m.node[d], m.node[x])
  <2>1. k - 1 \notin U BY <1>4, <1>7
  <2> QED BY <1>7, <1>8, <2>1
<1>10. d # x
  <2>1. ~(1 > 1) OBVIOUS
  <2> QED BY <1>8, <2>1
<1>11. Through(m, <<d, s>>, m.node[x]) /\ s \in {"zero", "one"} /\ <<d, s>> \in Places(m)
  <2>1. LET q == <<d, Side(m.node[x].number, m.node[d].bit_pos)>>
        IN q \in Places(m) /\ q[2] \in {"zero", "one"} /\ Through(m, q, m.node[x])
    <3> HIDE DEF d
    <3> QED BY <1>8, <1>9, <1>10, BelowSide
  <2>2. s \in {"zero", "one"} BY SideIs
  <2> QED BY <2>1, <2>2
<1>12. <<d, s>> # cs[k]
  <2> SUFFICES ASSUME <<d, s>> = cs[k] PROVE FALSE OBVIOUS
  <2>1. Through(m, cs[k], m.node[x]) BY <1>11
  <2>2. Covers(m.node[Pointed(m, cs[k])], m.node[x]) BY <1>1, <1>5, <2>1 DEF Shaped
  <2> QED BY <1>5, <2>2
<1>13. cs[k][2] = "zero" /\ s = "one"
  <2>1. cs[k][2] # s BY <1>8, <1>12
  <2>2. ~(cs[k][2] = "one" /\ s = "zero") BY <1>7, <1>11 DEF Visited
  <2> QED BY <1>8, <1>11, <2>1, <2>2
<1>14. Covers(m.node[d], m.node[c]) /\ Side(m.node[c].number, p) = "zero"
  <2>1. Through(m, cs[k], m.node[c]) BY <1>5, OnWayToTop
  <2> QED BY <1>8, <1>13, <2>1 DEF Through
<1> DEFINE e == m.node[c].number
           f == m.node[x].number
<1>15. p \in Positions /\ e \in Nat /\ f \in Nat /\ Agree(e, f, p) /\ Side(e, p) = "zero" /\ Side(f, p) = "one"
  <2>1. p \in Positions /\ e \in Nat /\ f \in Nat BY <1>2, <1>8, NodeIs DEF IsNode
  <2> QED BY <1>9, <1>13, <1>14, <2>1 DEF Covers, Agree
<1>16. Agree(a, e, 1) /\ Agree(b, f, 1)
  <2>1. 2 * 1 = 2 OBVIOUS
  <2> QED BY <2>1 DEF Agree
<1> HIDE DEF e, f, p, s, d, U, N
<1>17. 1 \in Positions /\ 1 < p BY <1>8, <1>15, Position
<1>18. Agree(a, e, p) /\ Side(a, p) = Side(e, p) BY <1>15, <1>16, <1>17, AgreeUp
<1>19. Agree(b, f, p) /\ Side(b, p) = Side(f, p) BY <1>15, <1>16, <1>17, AgreeUp
<1>20. Agree(a, b, p) /\ Side(a, p) = "zero" /\ Side(b, p) = "one" BY <1>15, <1>18, <1>19 DEF Agree
<1> QED BY <1>15, <1>20, ZeroSmaller

-----------------------------------------------------------------------------
(* A6, the refinement: the steps.                                          *)

(* A tree without nodes counts nothing. *)
LEMMA NothingCounted ==
  ASSUME Dropped \/ Nodes = {} PROVE Counts = List!Empty
<1>1. ASSUME NEW N \in Numbers, ~Dropped PROVE CountOf(memory, N) = 0
  BY <1>1, CountNone DEF Nodes
<1>2. CountsIn(memory, Dropped) = [N \in Numbers |-> 0] BY <1>1 DEF CountsIn
<1> QED BY <1>2, CountsBoth DEF List!Empty

(* At the start no number is kept. *)
LEMMA RadixInitRefines == Init => List!Init
<1> SUFFICES ASSUME Init PROVE List!Init OBVIOUS
<1>1. Nodes = {} BY InitHeap DEF Init, Nodes
<1>2. Counts = List!Empty BY <1>1, NothingCounted
<1> QED BY <1>2 DEF Init, List!Init

(* What main and add_number do with a number. *)
LEMMA ReadRefines == ASSUME InvRadix, ReadNumber PROVE List!Next
<1>1. /\ doing = "main" /\ doing' = "add" /\ entry' \in Numbers
      /\ memory' = memory /\ limit' = limit /\ batch' = batch
  BY DEF ReadNumber
<1>2. Counts' = Counts BY <1>1, CountsStay DEF Dropped
<1>3. List!Read(entry') BY <1>1, <1>2 DEF List!Read
<1> QED BY <1>1, <1>3 DEF List!Next

(* A negative entry asks for numbers. *)
LEMMA AskRefines == ASSUME InvRadix, ReadTake PROVE List!Next
<1>1. /\ doing = "main" /\ doing' = "take" /\ entry' \in -MaxTake .. -1 /\ limit' = -entry'
      /\ memory' = memory /\ batch' = batch
  BY DEF ReadTake
<1>2. Counts' = Counts BY <1>1, CountsStay DEF Dropped
<1>3. entry' < 0 /\ entry' = -(-entry')
  <2>1. MaxTake \in Nat BY RadixAssumption
  <2>2. \A e \in -MaxTake .. -1 : e < 0 /\ e = -(-e) BY <2>1
  <2> QED BY <1>1, <2>2
<1>4. List!Ask(-entry') BY <1>1, <1>2, <1>3 DEF List!Ask
<1> QED BY <1>3, <1>4 DEF List!Next

(* A number is added when its leaf is made or counts it. *)
LEMMA AddRefines == ASSUME InvRadix, AddLeaf \/ AddNode \/ Count PROVE List!Next
<1>1. doing = "add" /\ AddReturns /\ entry \in Numbers BY DEF AddLeaf, AddNode, Count, InvRadix, Adding
<1>2. doing' = "main" /\ entry' = entry /\ limit' = limit /\ batch' = batch BY <1>1 DEF AddReturns
<1>3. NodesOK(memory) /\ Shaped(memory) BY DEF InvRadix
<1>4. ASSUME NEW x \in Numbers
      PROVE  CountOf(memory', x) = IF x = entry THEN CountOf(memory, entry) + 1 ELSE CountOf(memory, x)
  <2>1. CASE AddLeaf \/ AddNode
    <3>1. Extended(memory, memory', entry) BY <2>1, AddLeafIs, AddNodeIs
    <3> QED BY <1>1, <1>3, <3>1, AddedCount
  <2>2. CASE Count
    <3> DEFINE c == Pointed(memory, parent)
               s == Side(entry, 1)
               k == memory.node[c][s] + 1
    <3>1. /\ c \in Nodes /\ memory.node[c].bit_pos = 1 /\ Agree(entry, memory.node[c].number, 1)
          /\ Recounted(memory, memory', c, s, k)
      BY <2>2, CountIs
    <3> HIDE DEF c
    <3>2. LeafFor(memory, c, entry)
      <4>1. 2 * 1 = 2 OBVIOUS
      <4> QED BY <3>1, <4>1 DEF LeafFor, Agree, Nodes
    <3>3. CountOf(memory, entry) = memory.node[c][s] BY <1>3, <3>2, CountAt
    <3>4. CountOf(memory', x) = IF x = entry THEN k ELSE CountOf(memory, x)
      BY <1>1, <1>3, <3>1, <3>2, ChangedCount
    <3> QED BY <3>3, <3>4
  <2> QED BY <2>1, <2>2
<1>5. Counts' = [Counts EXCEPT ![entry] = @ + 1]
  <2>1. ~Dropped /\ ~Dropped' BY <1>1, <1>2 DEF Dropped
  <2>2. Counts = [x \in Numbers |-> CountOf(memory, x)] BY <2>1, CountsBoth DEF CountsIn
  <2>3. Counts' = [x \in Numbers |-> CountOf(memory', x)] BY <2>1, CountsBoth DEF CountsIn
  <2> QED BY <1>1, <1>4, <2>2, <2>3
<1>6. List!Add BY <1>1, <1>2, <1>5 DEF List!Add
<1> QED BY <1>6 DEF List!Next

(* A batch is written. *)
LEMMA WriteRefines == ASSUME InvRadix, InvRadix', WriteBatch PROVE List!Next
<1>1. /\ doing = "write" /\ batch' = <<>> /\ limit' = (IF batch = <<>> THEN 0 ELSE limit - Len(batch))
      /\ doing' = (IF limit' > 0 THEN "take" ELSE "main") /\ memory' = memory /\ entry' = entry
  BY DEF WriteBatch
<1>2. limit' \in Nat
  <2>1. limit' \in 0 .. MaxTake /\ MaxTake \in Nat BY RadixAssumption DEF InvRadix, Control
  <2> QED BY <2>1
<1>3. doing' = (IF limit' = 0 THEN "main" ELSE "take") BY <1>1, <1>2
<1>4. Counts' = Counts BY <1>1, CountsStay DEF Dropped
<1>5. List!Write BY <1>1, <1>3, <1>4 DEF List!Write
<1> QED BY <1>5 DEF List!Next

(* What is still kept is dropped when the release begins. *)
LEMMA EndRefines == ASSUME InvRadix, End PROVE List!Next
<1>1. /\ doing = "main" /\ doing' = "release" /\ memory' = memory /\ entry' = entry
      /\ limit' = limit /\ batch' = batch
  BY DEF End
<1>2. Counts' = List!Empty
  <2>1. Dropped' BY <1>1 DEF Dropped
  <2>2. CountsIn(memory', Dropped') = [N \in Numbers |-> 0] BY <2>1 DEF CountsIn
  <2> QED BY <2>2, CountsBoth DEF List!Empty
<1>3. List!Stop BY <1>1, <1>2 DEF List!Stop
<1> QED BY <1>3 DEF List!Next

(* take_numbers_2 takes the smallest number of all, *)
LEMMA TakeRefines == ASSUME InvRadix, TakeNumber PROVE List!Next
<1> DEFINE c == nptr
           N == memory.node[c].number
<1>1. /\ doing = "take" /\ doing' = doing /\ entry' = entry /\ limit' = limit /\ Called
      /\ Len(batch) < take_max /\ nptr # NULL
  BY DEF TakeNumber
<1>2. PICK s \in {"zero", "one"} :
           LET k == memory.node[nptr][s]
           IN /\ nptr \in Nodes /\ memory.node[nptr].bit_pos = 1 /\ k \in Nat /\ k > 0 /\ N \in Numbers
              /\ Recounted(memory, memory', nptr, s, k - 1)
              /\ batch' = Append(batch, IF s = "zero" THEN 2 * (N \div 2) ELSE 2 * (N \div 2) + 1)
              /\ s = "one" => memory.node[nptr].zero = 0
  BY TakeIs
<1> DEFINE k == memory.node[c][s]
           v == IF s = "zero" THEN 2 * (N \div 2) ELSE 2 * (N \div 2) + 1
<1>3. /\ c \in Used(memory.heap) /\ memory.node[c].bit_pos = 1 /\ k \in Nat /\ k > 0 /\ N \in Numbers
      /\ Recounted(memory, memory', c, s, k - 1) /\ batch' = Append(batch, v)
      /\ s = "one" => memory.node[c].zero = 0
  BY <1>2 DEF Nodes
<1>4. NodesOK(memory) /\ Shaped(memory) /\ OnStack(memory, calls) /\ back = FALSE /\ c = Pointed(memory, Last(calls))
  BY <1>1, Entered DEF nptr, Top
<1>5. Visited(memory, calls, FALSE) BY <1>1, <1>4 DEF InvRadix, Cleared
<1>6. v \in Numbers /\ v \div 2 = N \div 2 /\ Side(v, 1) = s
  <2>1. /\ 2 * (N \div 2) \in Numbers /\ 2 * (N \div 2) + 1 \in Numbers
        /\ (2 * (N \div 2)) \div 2 = N \div 2 /\ (2 * (N \div 2) + 1) \div 2 = N \div 2
        /\ BitAt(2 * (N \div 2), 1) = 0 /\ BitAt(2 * (N \div 2) + 1, 1) = 1
    BY <1>3, LeafNumbers
  <2> DEFINE e == 2 * (N \div 2)
  <2> HIDE DEF e, N
  <2>2. CASE s = "zero" BY <2>1, <2>2 DEF Side, e
  <2>3. CASE s = "one" BY <2>1, <2>3 DEF Side, e
  <2> QED BY <2>2, <2>3
<1> HIDE DEF c, v, k
<1>7. LeafFor(memory, c, v) BY <1>3, <1>6 DEF LeafFor
<1>8. CountOf(memory, v) = k BY <1>4, <1>6, <1>7, CountAt DEF k
<1>9. ASSUME NEW x \in Numbers PROVE CountOf(memory', x) = IF x = v THEN k - 1 ELSE CountOf(memory, x)
  <2>1. Recounted(memory, memory', c, Side(v, 1), k - 1) BY <1>3, <1>6
  <2> QED BY <1>4, <1>6, <1>7, <2>1, ChangedCount
<1>10. ASSUME NEW x \in Numbers, x < v PROVE CountOf(memory, x) = 0
  <2>1. x \in Nat /\ v \in Nat BY <1>6, RadixAssumption DEF Numbers
  <2>2. CASE \E d : LeafFor(memory, d, x)
    <3>1. PICK d : LeafFor(memory, d, x) BY <2>2
    <3>2. d \in Used(memory.heap) /\ memory.node[d].bit_pos = 1 /\ x \div 2 = memory.node[d].number \div 2
      BY <3>1 DEF LeafFor
    <3>3. d = c
      <4> SUFFICES ASSUME d # c PROVE FALSE OBVIOUS
      <4>1. v < x BY <1>3, <1>4, <1>5, <1>6, <2>1, <3>2, LeafSmallest
      <4> QED BY <1>10, <2>1, <4>1
    <3>4. x \div 2 = v \div 2 BY <1>6, <3>2, <3>3
    <3>5. Side(x, 1) = "zero" /\ Side(v, 1) = "one" BY <1>10, <2>1, <3>4, NumberIs
    <3>6. memory.node[c].zero = 0 BY <1>3, <1>6, <3>5
    <3> QED BY <1>4, <3>1, <3>3, <3>5, <3>6, CountAt
  <2>3. CASE ~\E d : LeafFor(memory, d, x) BY <2>3, CountNone
  <2> QED BY <2>2, <2>3
<1>11. ~Dropped /\ ~Dropped' BY <1>1 DEF Dropped
<1>12. Counts = [x \in Numbers |-> CountOf(memory, x)] BY <1>11, CountsBoth DEF CountsIn
<1>13. Counts' = [x \in Numbers |-> CountOf(memory', x)] BY <1>11, CountsBoth DEF CountsIn
<1>14. Counts' = [Counts EXCEPT ![v] = @ - 1] BY <1>6, <1>8, <1>9, <1>12, <1>13
<1>15. Counts[v] > 0 /\ \A x \in Numbers : x < v => Counts[x] = 0
  BY <1>3, <1>6, <1>8, <1>10, <1>12
<1>16. List!Room
  <2>1. take_max \in Nat /\ take_max <= limit /\ take_max <= Batch /\ limit \in Nat /\ Batch \in Nat /\ Len(batch) \in Nat
    <3>1. MaxTake \in Nat /\ Batch \in Nat BY RadixAssumption
    <3>2. limit \in Nat /\ Len(batch) \in Nat BY <3>1 DEF InvRadix, Control
    <3> QED BY <3>1, <3>2, MaxIs DEF InvRadix
  <2>2. Len(batch) < limit /\ Len(batch) < Batch BY <1>1, <2>1
  <2> QED BY <2>2 DEF List!Room
<1>17. List!Take(v) BY <1>1, <1>3, <1>14, <1>15, <1>16 DEF List!Take
<1> QED BY <1>6, <1>17 DEF List!Next

(* and returns when there is no room for more or nothing in the tree. *)
LEMMA FullRefines == ASSUME InvRadix, TakeReturns PROVE List!Next
<1>1. /\ doing = "take" /\ doing' = "write" /\ Returned /\ Top = Root /\ back
      /\ memory' = memory /\ entry' = entry /\ limit' = limit /\ batch' = batch
  BY DEF TakeReturns, Returned
<1>2. Counts' = Counts BY <1>1, CountsStay DEF Dropped
<1>3. ASSUME List!Room PROVE Counts = List!Empty
  <2>1. Len(batch) < limit /\ Len(batch) < Batch BY <1>3 DEF List!Room
  <2>2. Len(batch) < take_max BY <2>1 DEF take_max
  <2>3. Visited(memory, calls, back) BY <1>1, <2>2 DEF InvRadix, Cleared
  <2>4. ASSUME NEW x \in Nodes PROVE FALSE
    <3>1. ~Through(memory, Root, memory.node[x]) BY <1>1, <2>3 DEF Visited, Top, Nodes
    <3> QED BY <3>1 DEF Through
  <2> QED BY <2>4, NothingCounted
<1>4. List!Full BY <1>1, <1>2, <1>3 DEF List!Full
<1> QED BY <1>4 DEF List!Next

(* The other steps change no count: they walk, or remove what is empty. *)
LEMMA WalkStutters ==
  ASSUME InvRadix, Descend \/ CallOnNull \/ FirstSide \/ SecondSide PROVE UNCHANGED List!vars
<1>1. doing' = doing /\ entry' = entry /\ limit' = limit /\ batch' = batch /\ memory' = memory
  BY DEF Descend, CallOnNull, FirstSide, SecondSide
<1>2. Counts' = Counts BY <1>1, CountsStay DEF Dropped
<1> QED BY <1>1, <1>2, Stutters DEF Doing

(* A node that is left counts the same, or counted nothing and is removed. *)
LEMMA LeaveStutters == ASSUME InvRadix, LeaveLeaf \/ LeaveNode PROVE UNCHANGED List!vars
<1>1. doing = "take" /\ doing' = doing /\ entry' = entry /\ limit' = limit /\ batch' = batch
  BY DEF LeaveLeaf, LeaveNode
<1>2. \E cs : LeftOver(memory, memory', cs) BY LeaveLeafIs, LeaveNodeIs
<1>3. /\ Shaped(memory') /\ Kept(memory, memory') /\ Used(memory'.heap) \subseteq Used(memory.heap)
      /\ \A x \in Used(memory.heap) : x \in Used(memory'.heap) \/ (memory.node[x].zero = 0 /\ memory.node[x].one = 0)
      /\ \A x \in Used(memory'.heap) : memory.node[x].bit_pos = 1 => memory'.node[x] = memory.node[x]
  BY <1>2 DEF LeftOver
<1>4. NodesOK(memory) /\ Shaped(memory) BY DEF InvRadix
<1>5. \A N \in Numbers : CountOf(memory', N) = CountOf(memory, N) BY <1>3, <1>4, SameCount
<1>6. Counts' = Counts BY <1>1, <1>5, CountsStay DEF Dropped
<1> QED BY <1>1, <1>6, Stutters DEF Doing

(* Nothing is counted any more while the nodes are released. *)
LEMMA ReleaseStutters == ASSUME InvRadix, ReleaseLeaf \/ ReleaseNode \/ ReleaseReturns PROVE UNCHANGED List!vars
<1>1. doing = "release" /\ doing' \in {"release", "ended"} /\ entry' = entry /\ limit' = limit /\ batch' = batch
  BY DEF ReleaseLeaf, ReleaseNode, ReleaseReturns
<1>2. Dropped /\ Dropped' BY <1>1 DEF Dropped
<1>3. Counts' = Counts BY <1>2, CountsStay
<1>4. Doing' = Doing BY <1>1 DEF Doing
<1> QED BY <1>1, <1>3, <1>4, Stutters

(* Every step is one of the sorted numbers, or none. *)
LEMMA RadixNextRefines == InvRadix /\ InvRadix' /\ [Next]_vars => [List!Next]_(List!vars)
<1> SUFFICES ASSUME InvRadix, InvRadix', [Next]_vars PROVE List!Next \/ UNCHANGED List!vars OBVIOUS
<1>1. CASE ReadNumber \/ ReadTake \/ WriteBatch \/ End BY <1>1, ReadRefines, AskRefines, WriteRefines, EndRefines
<1>2. CASE AddLeaf \/ AddNode \/ Count BY <1>2, AddRefines
<1>3. CASE Descend \/ CallOnNull \/ FirstSide \/ SecondSide BY <1>3, WalkStutters
<1>4. CASE TakeNumber \/ TakeReturns BY <1>4, TakeRefines, FullRefines
<1>5. CASE LeaveLeaf \/ LeaveNode BY <1>5, LeaveStutters
<1>6. CASE ReleaseLeaf \/ ReleaseNode \/ ReleaseReturns BY <1>6, ReleaseStutters
<1>7. CASE UNCHANGED vars
  <2>1. doing' = doing /\ entry' = entry /\ limit' = limit /\ batch' = batch /\ memory' = memory
    BY <1>7 DEF vars
  <2>2. Counts' = Counts BY <2>1, CountsStay DEF Dropped
  <2> QED BY <2>1, <2>2, Stutters DEF Doing
<1> QED BY <1>1, <1>2, <1>3, <1>4, <1>5, <1>6, <1>7 DEF Next

(* radix.c:205-209 and 245-269: the program takes out the smallest of the numbers that were added
   and not taken before, in ascending order: it implements the sorted numbers. *)
THEOREM TakesTheSmallest == Spec => TakesSmallest
<1>1. Spec => []InvRadix BY RadixInvariant
<1> QED BY <1>1, RadixInitRefines, RadixNextRefines, PTL DEF Spec, TakesSmallest, List!Spec
=============================================================================
