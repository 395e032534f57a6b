--------------------------- MODULE HistogramProofs ---------------------------
(* Proofs about the shared histogram of A2, for any workers, bins and      *)
(* files: a merge that races with another loses counts but never invents   *)
(* any, and one worker alone loses none.                                   *)
EXTENDS Histogram, FiniteSetTheorems, SequenceTheorems, TLAPS

-----------------------------------------------------------------------------
(* Counts in the workers' hands: worker w holds u[w] of them.              *)

Held(u) == UNION {{w} \X (1 .. u[w]) : w \in Workers}

(* The counts in hand are finitely many. *)
LEMMA HeldFinite ==
  ASSUME NEW u \in [Workers -> Nat]
  PROVE  IsFiniteSet(Held(u)) /\ Cardinality(Held(u)) \in Nat
<1> DEFINE T == {{w} \X (1 .. u[w]) : w \in Workers}
           g == [w \in Workers |-> {w} \X (1 .. u[w])]
<1>1. g \in Surjection(Workers, T) BY DEF Surjection
<1>2. IsFiniteSet(T)
  <2> HIDE DEF g, T
  <2> QED BY <1>1, WorkersAssumption, FS_Surjection
<1>3. ASSUME NEW w \in Workers PROVE IsFiniteSet({w} \X (1 .. u[w]))
  <2>1. IsFiniteSet({w}) BY FS_Singleton
  <2>2. IsFiniteSet(1 .. u[w])
    <3>1. 1 \in Int /\ u[w] \in Int OBVIOUS
    <3> QED BY <3>1, FS_Interval
  <2> QED BY <2>1, <2>2, FS_Product
<1>4. \A t \in T : IsFiniteSet(t) BY <1>3
<1>5. IsFiniteSet(UNION T)
  <2> HIDE DEF T
  <2> QED BY <1>2, <1>4, FS_UNION
<1>6. IsFiniteSet(Held(u)) BY <1>5 DEF Held
<1> QED BY <1>6, FS_CardinalityType

(* A pair is in hand exactly if its number is at most what the worker holds. *)
LEMMA HeldMember ==
  ASSUME NEW u \in [Workers -> Nat], NEW x
  PROVE  x \in Held(u) <=> \E w \in Workers : \E k \in 1 .. u[w] : x = <<w, k>>
BY DEF Held

(* Whoever gives up counts, there are not more of them. *)
LEMMA HeldLess ==
  ASSUME NEW u \in [Workers -> Nat], NEW v \in [Workers -> Nat], \A w \in Workers : v[w] <= u[w]
  PROVE  Cardinality(Held(v)) <= Cardinality(Held(u))
<1>1. Held(v) \subseteq Held(u)
  <2> SUFFICES ASSUME NEW x \in Held(v) PROVE x \in Held(u) OBVIOUS
  <2>1a. PICK w \in Workers : \E k \in 1 .. v[w] : x = <<w, k>> BY HeldMember
  <2>1. PICK k \in 1 .. v[w] : x = <<w, k>> BY <2>1a
  <2>2. k \in 1 .. u[w] BY <2>1
  <2> QED BY <2>1, <2>2, HeldMember
<1> QED BY <1>1, HeldFinite, FS_Subset

(* One byte counted is one count more. *)
LEMMA HeldMore ==
  ASSUME NEW u \in [Workers -> Nat], NEW w \in Workers
  PROVE  Cardinality(Held([u EXCEPT ![w] = @ + 1])) = Cardinality(Held(u)) + 1
<1> DEFINE v == [u EXCEPT ![w] = @ + 1]
           e == <<w, u[w] + 1>>
<1>1. v \in [Workers -> Nat] OBVIOUS
<1>2. Held(v) = Held(u) \cup {e}
  <2>1. ASSUME NEW x \in Held(v) PROVE x \in Held(u) \cup {e}
    <3>1a. PICK a \in Workers : \E k \in 1 .. v[a] : x = <<a, k>> BY <1>1, HeldMember
    <3>1. PICK k \in 1 .. v[a] : x = <<a, k>> BY <3>1a
    <3>2. CASE a = w /\ k = u[w] + 1 BY <3>1, <3>2
    <3>3. CASE ~(a = w /\ k = u[w] + 1)
      <4>1. k \in 1 .. u[a] BY <3>1, <3>3
      <4> QED BY <3>1, <4>1, HeldMember
    <3> QED BY <3>2, <3>3
  <2>2. ASSUME NEW x \in Held(u) PROVE x \in Held(v)
    <3>1a. PICK a \in Workers : \E k \in 1 .. u[a] : x = <<a, k>> BY HeldMember
    <3>1. PICK k \in 1 .. u[a] : x = <<a, k>> BY <3>1a
    <3>2. k \in 1 .. v[a] BY <3>1
    <3> QED BY <1>1, <3>1, <3>2, HeldMember
  <2>3. e \in Held(v)
    <3>1. u[w] + 1 \in 1 .. v[w] OBVIOUS
    <3> QED BY <1>1, <3>1, HeldMember
  <2> QED BY <2>1, <2>2, <2>3
<1>3. e \notin Held(u)
  <2> SUFFICES ASSUME e \in Held(u) PROVE FALSE OBVIOUS
  <2>1a. PICK a \in Workers : \E k \in 1 .. u[a] : e = <<a, k>> BY HeldMember
  <2>1. PICK k \in 1 .. u[a] : e = <<a, k>> BY <2>1a
  <2>2. a = w /\ k = u[w] + 1 BY <2>1
  <2> QED BY <2>1, <2>2
<1> HIDE DEF v, e
<1>4. Cardinality(Held(v)) = Cardinality(Held(u)) + 1 BY <1>2, <1>3, HeldFinite, FS_AddElement
<1> QED BY <1>4 DEF v

(* A worker that merges gives up all its counts for the bin. *)
LEMMA HeldNone ==
  ASSUME NEW u \in [Workers -> Nat], NEW w \in Workers
  PROVE  Cardinality(Held(u)) = Cardinality(Held([u EXCEPT ![w] = 0])) + u[w]
<1> DEFINE v == [u EXCEPT ![w] = 0]
           own == {w} \X (1 .. u[w])
<1>1. v \in [Workers -> Nat] OBVIOUS
<1>2. Held(u) = Held(v) \cup own
  <2>1. ASSUME NEW x \in Held(u) PROVE x \in Held(v) \cup own
    <3>1a. PICK a \in Workers : \E k \in 1 .. u[a] : x = <<a, k>> BY HeldMember
    <3>1. PICK k \in 1 .. u[a] : x = <<a, k>> BY <3>1a
    <3>2. CASE a = w BY <3>1, <3>2
    <3>3. CASE a # w
      <4>1. k \in 1 .. v[a] BY <3>1, <3>3
      <4> QED BY <1>1, <3>1, <4>1, HeldMember
    <3> QED BY <3>2, <3>3
  <2>2. ASSUME NEW x \in Held(v) PROVE x \in Held(u)
    <3>1a. PICK a \in Workers : \E k \in 1 .. v[a] : x = <<a, k>> BY <1>1, HeldMember
    <3>1. PICK k \in 1 .. v[a] : x = <<a, k>> BY <3>1a
    <3>2. k \in 1 .. u[a] BY <3>1
    <3> QED BY <3>1, <3>2, HeldMember
  <2>3. ASSUME NEW x \in own PROVE x \in Held(u)
    <3>1. PICK k \in 1 .. u[w] : x = <<w, k>> OBVIOUS
    <3> QED BY <3>1, HeldMember
  <2> QED BY <2>1, <2>2, <2>3
<1>3. Held(v) \cap own = {}
  <2> SUFFICES ASSUME NEW x \in Held(v), x \in own PROVE FALSE OBVIOUS
  <2>1a. PICK a \in Workers : \E k \in 1 .. v[a] : x = <<a, k>> BY <1>1, HeldMember
  <2>1. PICK k \in 1 .. v[a] : x = <<a, k>> BY <2>1a
  <2>2. a = w BY <2>1
  <2> QED BY <2>1, <2>2
<1>4. IsFiniteSet(own) /\ Cardinality(own) = u[w]
  <2>1. IsFiniteSet({w}) /\ Cardinality({w}) = 1 BY FS_Singleton
  <2>2. IsFiniteSet(1 .. u[w]) /\ Cardinality(1 .. u[w]) = u[w]
    <3>1. PICK k \in Nat : k = u[w] OBVIOUS
    <3>2. 1 \in Int /\ k \in Int BY ONLY <3>1
    <3>3. IsFiniteSet(1 .. k) /\ Cardinality(1 .. k) = IF 1 > k THEN 0 ELSE k - 1 + 1
      BY ONLY <3>2, FS_Interval
    <3>4. (IF 1 > k THEN 0 ELSE k - 1 + 1) = k BY <3>1
    <3> QED BY ONLY <3>1, <3>3, <3>4
  <2>3. IsFiniteSet(own) /\ Cardinality(own) = 1 * u[w] BY <2>1, <2>2, FS_Product
  <2>4. 1 * u[w] = u[w] OBVIOUS
  <2> QED BY <2>3, <2>4
<1> HIDE DEF v, own
<1>5. Cardinality(Held(v) \cup own) = Cardinality(Held(v)) + Cardinality(own) - Cardinality(Held(v) \cap own)
  BY <1>1, <1>4, HeldFinite, FS_Union
<1>6. Cardinality(Held(v) \cap own) = 0 BY <1>3, FS_EmptySet
<1>7. Cardinality(Held(v)) \in Nat /\ u[w] \in Nat BY <1>1, HeldFinite
<1>8. Cardinality(Held(u)) = Cardinality(Held(v)) + u[w] BY <1>2, <1>4, <1>5, <1>6, <1>7
<1> QED BY <1>8 DEF v

-----------------------------------------------------------------------------
(* Types.                                                                  *)

(* The programs begin in the types of the model. *)
LEMMA InitTypes == HistogramInit => HistogramTypeOK
<1> SUFFICES ASSUME HistogramInit PROVE HistogramTypeOK OBVIOUS
<1>1. queue \in Seq(Files)
  <2>1. PICK n \in 0 .. MaxFiles : queue \in [1 .. n -> Files] BY DEF HistogramInit
  <2>2. n \in Nat BY <2>1, BinsAssumption
  <2> QED BY <2>1, <2>2, SeqDef
<1>2. Zero \in Histograms BY DEF Zero, Histograms
<1>3. <<>> \in Seq(SUBSET (0 .. Bins)) BY EmptySeq
<1>4. PICK started \in (SUBSET Workers) \ {{}} :
        pc = [w \in Workers |-> IF w \in started THEN "pop" ELSE "none"]
  BY DEF HistogramInit
<1>5. eof \in [Workers -> BOOLEAN] BY DEF HistogramInit
<1>6. \A w \in Workers : pc[w] \in {"none", "pop"} BY <1>4
<1>7. pc \in [Workers -> {"none", "pop", "read", "load", "store", "clear", "lock", "print", "exit"}] BY <1>4
<1> QED BY <1>1, <1>2, <1>3, <1>5, <1>6, <1>7 DEF HistogramInit, HistogramTypeOK

(* What a worker has not merged is a natural number. *)
LEMMA CountsAreNumbers ==
  ASSUME HistogramTypeOK
  PROVE  \A w \in Workers : \A b \in 0 .. Bins : local[w][b] \in Nat /\ Unmerged(w, b) \in Nat
<1> SUFFICES ASSUME NEW w \in Workers, NEW b \in 0 .. Bins
             PROVE  local[w][b] \in Nat /\ Unmerged(w, b) \in Nat
  OBVIOUS
<1>1. local[w] \in Histograms BY DEF HistogramTypeOK
<1>2. local[w][b] \in Nat BY <1>1 DEF Histograms
<1> QED BY <1>2 DEF Unmerged

(* A step of a worker stays in the types of the model. *)
LEMMA OneWorkerTypes ==
  ASSUME HistogramTypeOK, NEW w \in Workers, Worker(w) PROVE HistogramTypeOK'
<1> USE DEF Goto, mergeVars, fileVars
<1>1. CASE Open(w)
  <2>1. queue # <<>> /\ queue \in Seq(Files) BY <1>1 DEF Open, HistogramTypeOK
  <2>2. Head(queue) \in Seq(SUBSET (0 .. Bins)) /\ Tail(queue) \in Seq(Files)
    BY <2>1, FilesAssumption, HeadTailProperties
  <2>3. Zero \in Histograms BY DEF Zero, Histograms
  <2>4. eof' \in [Workers -> BOOLEAN] BY <1>1, Zenon DEF Open, HistogramTypeOK
  <2>5. \A v \in Workers : pc'[v] \in {"load", "store", "clear"} => bin'[v] <= Bins
    BY <1>1 DEF Open, HistogramTypeOK
  <2> QED BY <1>1, <2>2, <2>3, <2>4, <2>5 DEF Open, HistogramTypeOK
<1>2. CASE OpenFails(w)
  <2>1. queue # <<>> /\ queue \in Seq(Files) BY <1>2 DEF OpenFails, HistogramTypeOK
  <2>2. Tail(queue) \in Seq(Files) BY <2>1, HeadTailProperties
  <2> QED BY <1>2, <2>2 DEF OpenFails, HistogramTypeOK
<1>3. CASE Stop(w) BY <1>3 DEF Stop, HistogramTypeOK
<1>4. CASE Count(w)
  <2> DEFINE Plus(h) == [b \in 0 .. Bins |-> h[b] + IF b \in Head(rest[w]) THEN 1 ELSE 0]
  <2>1. rest[w] # <<>> /\ rest[w] \in Seq(SUBSET (0 .. Bins)) BY <1>4 DEF Count, HistogramTypeOK
  <2>2. Tail(rest[w]) \in Seq(SUBSET (0 .. Bins)) BY <2>1, HeadTailProperties
  <2>3. \A h \in Histograms : Plus(h) \in Histograms BY DEF Histograms
  <2>4. /\ local' = [local EXCEPT ![w] = Plus(local[w])] /\ seen' = Plus(seen)
        /\ rest' = [rest EXCEPT ![w] = Tail(rest[w])]
    BY <1>4 DEF Count
  <2>5. /\ i' = [i EXCEPT ![w] = i[w] + 1] /\ bin' = [bin EXCEPT ![w] = 0]
        /\ \E p \in {"load", "read"} : pc' = [pc EXCEPT ![w] = p]
        /\ UNCHANGED <<queue, global, loaded, eof, stdoutOwner>>
    BY <1>4 DEF Count
  <2> HIDE DEF Plus
  <2>6. local' \in [Workers -> Histograms] /\ seen' \in Histograms BY <2>3, <2>4 DEF HistogramTypeOK
  <2>7. /\ bin' \in [Workers -> Nat]
        /\ \A v \in Workers : pc'[v] \in {"load", "store", "clear"} => bin'[v] <= Bins
    BY <2>5, BinsAssumption DEF HistogramTypeOK
  <2>8. rest' \in [Workers -> Seq(SUBSET (0 .. Bins))] /\ i' \in [Workers -> Nat]
    <3>1. rest \in [Workers -> Seq(SUBSET (0 .. Bins))] /\ i \in [Workers -> Nat] BY DEF HistogramTypeOK
    <3>2. rest' \in [Workers -> Seq(SUBSET (0 .. Bins))] BY <2>2, <2>4, <3>1
    <3>3. i' \in [Workers -> Nat] BY <2>5, <3>1
    <3> QED BY <3>2, <3>3
  <2> QED BY <2>5, <2>6, <2>7, <2>8 DEF HistogramTypeOK
<1>5. CASE EndOfFile(w)
  <2>1. eof' \in [Workers -> BOOLEAN] BY <1>5, Zenon DEF EndOfFile, HistogramTypeOK
  <2>2. /\ bin' = [bin EXCEPT ![w] = 0] /\ pc' = [pc EXCEPT ![w] = "load"]
        /\ UNCHANGED <<queue, global, rest, i, local, loaded, stdoutOwner, seen>>
    BY <1>5 DEF EndOfFile, Goto
  <2>3. 0 \in Nat /\ 0 <= Bins BY BinsAssumption
  <2>4. bin' \in [Workers -> Nat] BY <2>2 DEF HistogramTypeOK
  <2>5. ASSUME NEW v \in Workers, pc'[v] \in {"load", "store", "clear"} PROVE bin'[v] <= Bins
    <3>1. CASE v = w BY <2>2, <2>3, <3>1 DEF HistogramTypeOK
    <3>2. CASE v # w
      <4>1. pc'[v] = pc[v] /\ bin'[v] = bin[v] BY <2>2, <3>2 DEF HistogramTypeOK
      <4> QED BY <2>5, <4>1 DEF HistogramTypeOK
    <3> QED BY <3>1, <3>2
  <2>6. pc' \in [Workers -> {"none", "pop", "read", "load", "store", "clear", "lock", "print", "exit"}]
    BY <2>2 DEF HistogramTypeOK
  <2> QED BY <2>1, <2>2, <2>4, <2>5, <2>6 DEF HistogramTypeOK
<1>6. CASE LoadBin(w)
  <2>1. global[bin[w]] \in Nat
    <3>1. bin[w] \in Nat /\ bin[w] <= Bins BY <1>6 DEF LoadBin, HistogramTypeOK
    <3>2. bin[w] \in 0 .. Bins BY ONLY <3>1, BinsAssumption
    <3> QED BY <3>2 DEF HistogramTypeOK, Histograms
  <2> QED BY <1>6, <2>1 DEF LoadBin, HistogramTypeOK
<1>7. CASE StoreBin(w)
  <2>1. bin[w] \in 0 .. Bins BY <1>7, BinsAssumption DEF StoreBin, HistogramTypeOK
  <2>2. loaded[w] + local[w][bin[w]] \in Nat
    <3>1. local[w][bin[w]] \in Nat BY <2>1, CountsAreNumbers
    <3>2. loaded[w] \in Nat BY DEF HistogramTypeOK
    <3> QED BY ONLY <3>1, <3>2
  <2>3. global' \in Histograms BY <1>7, <2>1, <2>2 DEF StoreBin, HistogramTypeOK, Histograms
  <2> QED BY <1>7, <2>3 DEF StoreBin, HistogramTypeOK
<1>8. CASE Clear(w)
  <2>1. bin[w] \in 0 .. Bins BY <1>8, BinsAssumption DEF Clear, HistogramTypeOK
  <2>2. local' \in [Workers -> Histograms]
    <3>1. [local[w] EXCEPT ![bin[w]] = 0] \in Histograms BY <2>1 DEF HistogramTypeOK, Histograms
    <3> QED BY <1>8, <3>1 DEF Clear, HistogramTypeOK
  <2>3. /\ bin' \in [Workers -> Nat]
        /\ \A v \in Workers : pc'[v] \in {"load", "store", "clear"} => bin'[v] <= Bins
    <3>1. bin \in [Workers -> Nat] /\ DOMAIN pc = Workers BY DEF HistogramTypeOK
    <3>2. /\ bin' = [bin EXCEPT ![w] = bin[w] + 1]
          /\ pc' = [pc EXCEPT ![w] = IF bin[w] < Bins THEN "load" ELSE IF eof[w] THEN "print" ELSE "lock"]
      BY <1>8 DEF Clear, Goto
    <3>3. bin[w] \in Nat /\ bin[w] + 1 \in Nat BY <3>1
    <3>4. bin' \in [Workers -> Nat] BY ONLY <3>1, <3>2, <3>3
    <3>5. ASSUME NEW v \in Workers, pc'[v] \in {"load", "store", "clear"} PROVE bin'[v] <= Bins
      <4>1. CASE v = w
        <5>1. bin[w] < Bins BY <3>1, <3>2, <3>5, <4>1
        <5>2. bin[w] + 1 <= Bins BY ONLY <3>3, <5>1, BinsAssumption
        <5> QED BY <3>1, <3>2, <4>1, <5>2
      <4>2. CASE v # w
        <5>1. pc'[v] = pc[v] /\ bin'[v] = bin[v] BY <3>1, <3>2, <4>2
        <5> QED BY <3>5, <5>1 DEF HistogramTypeOK
      <4> QED BY <4>1, <4>2
    <3> QED BY <3>4, <3>5
  <2> QED BY <1>8, <2>2, <2>3 DEF Clear, HistogramTypeOK
<1>9. CASE LockStdout(w) BY <1>9 DEF LockStdout, HistogramTypeOK
<1>10. CASE Printed(w) BY <1>10 DEF Printed, HistogramTypeOK
<1> QED BY <1>1, <1>2, <1>3, <1>4, <1>5, <1>6, <1>7, <1>8, <1>9, <1>10 DEF Worker

-----------------------------------------------------------------------------
(* Nothing is counted twice.                                               *)

Hands(b) == [w \in Workers |-> Unmerged(w, b)]

(* The pending counts of a bin are those that each worker has not merged. *)
LEMMA HandsFacts ==
  ASSUME HistogramTypeOK, NEW b \in 0 .. Bins
  PROVE  Hands(b) \in [Workers -> Nat] /\ Pending(b) = Held(Hands(b)) /\ Cardinality(Pending(b)) \in Nat
<1>1. Hands(b) \in [Workers -> Nat] BY CountsAreNumbers DEF Hands
<1>2. Pending(b) = Held(Hands(b)) BY DEF Pending, Held, Hands
<1> QED BY <1>1, <1>2, HeldFinite

(* A step that counts and stores nothing. *)
LEMMA Quiet ==
  ASSUME HistogramTypeOK, HistogramTypeOK', NeverOvercounts, LoadedOK, global' = global, seen' = seen,
         \A v \in Workers : \A b \in 0 .. Bins : Unmerged(v, b)' <= Unmerged(v, b),
         \A v \in Workers : pc'[v] = "store" => \/ pc[v] = "store" /\ loaded'[v] = loaded[v] /\ bin'[v] = bin[v]
                                             \/ loaded'[v] = global[bin'[v]]
  PROVE  NeverOvercounts' /\ LoadedOK'
<1>1. ASSUME NEW b \in 0 .. Bins
      PROVE  /\ Cardinality(Pending(b))' <= Cardinality(Pending(b))
             /\ Cardinality(Pending(b)) \in Nat /\ Cardinality(Pending(b))' \in Nat
             /\ global[b] \in Nat /\ seen[b] \in Nat
  <2>1. /\ Hands(b) \in [Workers -> Nat] /\ Pending(b) = Held(Hands(b))
        /\ Cardinality(Pending(b)) \in Nat
    BY HandsFacts
  <2>2. Hands(b)' \in [Workers -> Nat]
    <3>1. \A v \in Workers : Unmerged(v, b)' \in Nat
      <4> SUFFICES ASSUME NEW v \in Workers PROVE Unmerged(v, b)' \in Nat OBVIOUS
      <4>1. local'[v] \in Histograms BY DEF HistogramTypeOK
      <4>2. local'[v][b] \in Nat BY <4>1 DEF Histograms
      <4> QED BY <4>2 DEF Unmerged
    <3> QED BY <3>1 DEF Hands
  <2>3. Pending(b)' = Held(Hands(b)') BY DEF Pending, Held, Hands
  <2>4. \A v \in Workers : Hands(b)'[v] <= Hands(b)[v] BY DEF Hands
  <2>5. Cardinality(Held(Hands(b)')) <= Cardinality(Held(Hands(b))) BY <2>1, <2>2, <2>4, HeldLess
  <2>6. Cardinality(Pending(b))' \in Nat BY <2>2, <2>3, HeldFinite
  <2> QED BY <2>1, <2>3, <2>5, <2>6 DEF HistogramTypeOK, Histograms
<1>2. NeverOvercounts' BY <1>1 DEF NeverOvercounts
<1>3. ASSUME NEW v \in Workers, pc'[v] = "store"
      PROVE  loaded'[v] + Cardinality(Pending(bin[v]))' <= seen'[bin'[v]]
  <2>1. bin'[v] \in 0 .. Bins BY <1>3, BinsAssumption DEF HistogramTypeOK
  <2>2. PICK b \in 0 .. Bins : b = bin'[v] BY <2>1
  <2>3. loaded'[v] \in Nat BY DEF HistogramTypeOK
  <2>4. loaded'[v] + Cardinality(Pending(b)) <= seen[b]
    <3>1. CASE pc[v] = "store" /\ loaded'[v] = loaded[v] /\ bin'[v] = bin[v]
      <4>1. b = bin[v] BY <2>2, <3>1
      <4> QED BY <3>1, <4>1 DEF LoadedOK
    <3>2. CASE loaded'[v] = global[bin'[v]] BY <2>2, <3>2 DEF NeverOvercounts
    <3> QED BY <1>3, <3>1, <3>2
  <2>5. loaded'[v] + Cardinality(Pending(b))' <= seen[b] BY <1>1, <2>3, <2>4
  <2>6. Pending(bin[v])' = Pending(b)' BY <2>2 DEF Pending, Unmerged
  <2> QED BY <2>2, <2>5, <2>6
<1> QED BY <1>2, <1>3 DEF LoadedOK

(* A byte that is counted is one more seen and one more in hand. *)
LEMMA CountBounds ==
  ASSUME HistogramTypeOK, HistogramTypeOK', NeverOvercounts, LoadedOK, NEW w \in Workers, Count(w)
  PROVE  NeverOvercounts' /\ LoadedOK'
<1> DEFINE byte == Head(rest[w])
           one(b) == IF b \in byte THEN 1 ELSE 0
<1>1. /\ pc[w] = "read" /\ \A b \in 0 .. Bins : seen'[b] = seen[b] + one(b)
      /\ \A b \in 0 .. Bins : local'[w][b] = local[w][b] + one(b)
      /\ \A v \in Workers \ {w} : local'[v] = local[v] /\ bin'[v] = bin[v] /\ pc'[v] = pc[v]
      /\ pc'[w] \in {"load", "read"} /\ global' = global /\ loaded' = loaded
  BY DEF Count, HistogramTypeOK, Goto
<1>2. ASSUME NEW b \in 0 .. Bins
      PROVE  /\ Cardinality(Pending(b))' = Cardinality(Pending(b)) + one(b)
             /\ Cardinality(Pending(b)) \in Nat /\ seen[b] \in Nat
  <2>1. /\ Hands(b) \in [Workers -> Nat] /\ Pending(b) = Held(Hands(b))
        /\ Cardinality(Pending(b)) \in Nat
    BY HandsFacts
  <2>2. Pending(b)' = Held(Hands(b)') BY DEF Pending, Held, Hands
  <2>3. \A v \in Workers \ {w} : Unmerged(v, b)' = Unmerged(v, b) BY <1>1 DEF Unmerged
  <2>4. Unmerged(w, b)' = Unmerged(w, b) + one(b) BY <1>1 DEF Unmerged
  <2>5. CASE b \in byte
    <3>1. Hands(b)' = [Hands(b) EXCEPT ![w] = @ + 1] BY <2>3, <2>4, <2>5 DEF Hands
    <3>2. Cardinality(Held(Hands(b)')) = Cardinality(Held(Hands(b))) + 1 BY <2>1, <3>1, HeldMore
    <3> QED BY <2>1, <2>2, <2>5, <3>2 DEF HistogramTypeOK, Histograms
  <2>6. CASE b \notin byte
    <3>1. Unmerged(w, b) \in Nat BY CountsAreNumbers
    <3>2. Hands(b)' = Hands(b) BY <2>3, <2>4, <2>6, <3>1 DEF Hands
    <3>3. Cardinality(Held(Hands(b)')) = Cardinality(Held(Hands(b))) BY <3>2
    <3>4. one(b) = 0 /\ seen[b] \in Nat BY <2>6 DEF HistogramTypeOK, Histograms
    <3> QED BY <2>1, <2>2, <3>3, <3>4
  <2> QED BY <2>5, <2>6
<1> HIDE DEF byte
<1>3. NeverOvercounts'
  <2> SUFFICES ASSUME NEW b \in 0 .. Bins
               PROVE  global'[b] + Cardinality(Pending(b))' <= seen'[b]
    BY DEF NeverOvercounts
  <2>1. global[b] \in Nat /\ global[b] + Cardinality(Pending(b)) <= seen[b]
    BY DEF NeverOvercounts, HistogramTypeOK, Histograms
  <2> QED BY <1>1, <1>2, <2>1
<1>4. ASSUME NEW v \in Workers, pc'[v] = "store"
      PROVE  loaded'[v] + Cardinality(Pending(bin[v]))' <= seen'[bin'[v]]
  <2>1. v # w /\ bin'[v] = bin[v] /\ pc[v] = "store" BY <1>1, <1>4
  <2>0. bin[v] \in Nat /\ bin[v] <= Bins BY <2>1 DEF HistogramTypeOK
  <2>2. PICK b \in 0 .. Bins : b = bin[v] BY <2>0, BinsAssumption
  <2>3. loaded[v] \in Nat /\ loaded[v] + Cardinality(Pending(b)) <= seen[b]
    BY <2>1, <2>2 DEF LoadedOK, HistogramTypeOK
  <2>4. loaded'[v] + Cardinality(Pending(b))' <= seen'[b] BY <1>1, <1>2, <2>3
  <2>5. Pending(bin[v])' = Pending(b)' BY <2>1, <2>2 DEF Pending, Unmerged
  <2> QED BY <2>1, <2>2, <2>4, <2>5
<1> QED BY <1>3, <1>4 DEF LoadedOK

(* What is stored is what was loaded and what the worker gives up. *)
LEMMA StoreBounds ==
  ASSUME HistogramTypeOK, HistogramTypeOK', NeverOvercounts, LoadedOK, NEW w \in Workers, StoreBin(w)
  PROVE  NeverOvercounts' /\ LoadedOK'
<1>1. PICK a \in 0 .. Bins : a = bin[w] BY BinsAssumption DEF StoreBin, HistogramTypeOK
<1>2. /\ pc[w] = "store" /\ pc'[w] = "clear" /\ \A v \in Workers \ {w} : pc'[v] = pc[v]
      /\ global'[a] = loaded[w] + local[w][a]
      /\ \A b \in 0 .. Bins : b # a => global'[b] = global[b]
      /\ UNCHANGED <<local, bin, loaded, seen>>
  BY <1>1 DEF StoreBin, HistogramTypeOK, Goto, Histograms, mergeVars
<1>3. ASSUME NEW b \in 0 .. Bins
      PROVE  /\ Cardinality(Pending(b)) = Cardinality(Pending(b))' + IF b = a THEN local[w][a] ELSE 0
             /\ Cardinality(Pending(b)) \in Nat /\ seen[b] \in Nat /\ local[w][a] \in Nat
             /\ Cardinality(Pending(b))' \in Nat
  <2>1. /\ Hands(b) \in [Workers -> Nat] /\ Pending(b) = Held(Hands(b))
        /\ Cardinality(Pending(b)) \in Nat
    BY HandsFacts
  <2>2. Pending(b)' = Held(Hands(b)') BY DEF Pending, Held, Hands
  <2>3. \A v \in Workers \ {w} : Unmerged(v, b)' = Unmerged(v, b) BY <1>2 DEF Unmerged
  <2>4. /\ Unmerged(w, b)' = IF b = a THEN 0 ELSE Unmerged(w, b)
        /\ Unmerged(w, a) = local[w][a]
    BY <1>1, <1>2 DEF Unmerged
  <2>5. seen[b] \in Nat /\ local[w][a] \in Nat BY DEF HistogramTypeOK, Histograms
  <2>6. CASE b = a
    <3>1. Hands(b)' = [Hands(b) EXCEPT ![w] = 0] BY <2>3, <2>4, <2>6 DEF Hands
    <3>2. Cardinality(Held(Hands(b))) = Cardinality(Held(Hands(b)')) + Hands(b)[w]
      BY <2>1, <3>1, HeldNone
    <3>3. Hands(b)[w] = local[w][a] BY <2>4, <2>6 DEF Hands
    <3>4. Hands(b)' \in [Workers -> Nat] BY <2>1, <3>1
    <3>5. Cardinality(Held(Hands(b)')) \in Nat BY <3>4, HeldFinite
    <3> QED BY <2>1, <2>2, <2>5, <2>6, <3>2, <3>3, <3>5
  <2>7. CASE b # a
    <3>1. Hands(b)' = Hands(b) BY <2>3, <2>4, <2>7 DEF Hands
    <3> QED BY <2>1, <2>2, <2>5, <2>7, <3>1
  <2> QED BY <2>6, <2>7
<1>4. loaded[w] \in Nat /\ loaded[w] + Cardinality(Pending(a)) <= seen[a]
  BY <1>1, <1>2 DEF LoadedOK, HistogramTypeOK
<1>5. NeverOvercounts'
  <2> SUFFICES ASSUME NEW b \in 0 .. Bins
               PROVE  global'[b] + Cardinality(Pending(b))' <= seen'[b]
    BY DEF NeverOvercounts
  <2>1. CASE b = a
    <3>1. Cardinality(Pending(a)) = Cardinality(Pending(b))' + local[w][a] BY <1>3, <2>1
    <3> QED BY <1>2, <1>3, <1>4, <2>1, <3>1
  <2>2. CASE b # a
    <3>1. Cardinality(Pending(b))' = Cardinality(Pending(b)) BY <1>3, <2>2
    <3> QED BY <1>2, <2>2, <3>1 DEF NeverOvercounts
  <2> QED BY <2>1, <2>2
<1>6. ASSUME NEW v \in Workers, pc'[v] = "store"
      PROVE  loaded'[v] + Cardinality(Pending(bin[v]))' <= seen'[bin'[v]]
  <2>1. v # w /\ pc[v] = "store" BY <1>2, <1>6
  <2>0. bin[v] \in Nat /\ bin[v] <= Bins BY <2>1 DEF HistogramTypeOK
  <2>2. PICK b \in 0 .. Bins : b = bin[v] BY <2>0, BinsAssumption
  <2>3. loaded[v] \in Nat /\ loaded[v] + Cardinality(Pending(b)) <= seen[b]
    BY <2>1, <2>2 DEF LoadedOK, HistogramTypeOK
  <2>4. loaded'[v] + Cardinality(Pending(b))' <= seen'[b]
    <3>1. Cardinality(Pending(b))' <= Cardinality(Pending(b)) BY <1>3
    <3> QED BY <1>2, <1>3, <2>3, <3>1
  <2>5. Pending(bin[v])' = Pending(b)' BY <1>2, <2>2 DEF Pending, Unmerged
  <2> QED BY <1>2, <2>2, <2>4, <2>5
<1> QED BY <1>5, <1>6 DEF LoadedOK

(* Every step of a worker keeps the bounds on the histogram and on what is loaded. *)
LEMMA OneWorkerBounds ==
  ASSUME HistogramTypeOK, HistogramTypeOK', NeverOvercounts, LoadedOK, NEW w \in Workers, Worker(w)
  PROVE  NeverOvercounts' /\ LoadedOK'
<1> USE DEF Goto, mergeVars, fileVars
<1>0. \A v \in Workers : \A b \in 0 .. Bins : local[v][b] \in Nat /\ Unmerged(v, b) \in Nat
  BY CountsAreNumbers
<1>1. CASE Count(w) BY <1>1, CountBounds
<1>2. CASE StoreBin(w) BY <1>2, StoreBounds
<1>3. CASE Open(w)
  <2>1. /\ local'[w] = Zero /\ pc'[w] = "read" /\ global' = global /\ seen' = seen
        /\ \A v \in Workers \ {w} : local'[v] = local[v] /\ pc'[v] = pc[v]
        /\ bin' = bin /\ loaded' = loaded
    BY <1>3 DEF Open, HistogramTypeOK
  <2>2. ASSUME NEW v \in Workers, NEW b \in 0 .. Bins PROVE Unmerged(v, b)' <= Unmerged(v, b)
    <3>1. CASE v = w
      <4>1. Unmerged(v, b)' = 0 BY <2>1, <3>1 DEF Unmerged, Zero
      <4> QED BY <1>0, <4>1
    <3>2. CASE v # w
      <4>1. Unmerged(v, b)' = Unmerged(v, b) BY <2>1, <3>2 DEF Unmerged
      <4> QED BY <1>0, <4>1
    <3> QED BY <3>1, <3>2
  <2>3. \A v \in Workers : pc'[v] = "store" => pc[v] = "store" /\ loaded'[v] = loaded[v] /\ bin'[v] = bin[v]
    BY <2>1
  <2> QED BY <2>1, <2>2, <2>3, Quiet
<1>4. CASE OpenFails(w) \/ Stop(w) \/ EndOfFile(w) \/ LockStdout(w) \/ Printed(w)
  <2>1. /\ UNCHANGED <<global, seen, local, loaded>>
        /\ pc[w] # "clear" /\ pc'[w] \notin {"clear", "store"}
        /\ \A v \in Workers \ {w} : pc'[v] = pc[v] /\ bin'[v] = bin[v]
    <3>1. CASE OpenFails(w) BY <3>1 DEF OpenFails, HistogramTypeOK, mergeVars
    <3>2. CASE Stop(w) BY <3>2 DEF Stop, HistogramTypeOK, mergeVars
    <3>3. CASE EndOfFile(w) BY <3>3 DEF EndOfFile, HistogramTypeOK
    <3>4. CASE LockStdout(w) BY <3>4 DEF LockStdout, HistogramTypeOK, mergeVars
    <3>5. CASE Printed(w) BY <3>5 DEF Printed, HistogramTypeOK, mergeVars
    <3> QED BY <1>4, <3>1, <3>2, <3>3, <3>4, <3>5
  <2>2. ASSUME NEW v \in Workers, NEW b \in 0 .. Bins PROVE Unmerged(v, b)' <= Unmerged(v, b)
    <3>1. Unmerged(v, b)' = Unmerged(v, b)
      <4>1. CASE v = w BY <2>1, <4>1 DEF Unmerged
      <4>2. CASE v # w BY <2>1, <4>2 DEF Unmerged
      <4> QED BY <4>1, <4>2
    <3> QED BY <1>0, <3>1
  <2>3. \A v \in Workers : pc'[v] = "store" => pc[v] = "store" /\ loaded'[v] = loaded[v] /\ bin'[v] = bin[v]
    BY <2>1
  <2> QED BY <2>1, <2>2, <2>3, Quiet
<1>5. CASE LoadBin(w)
  <2>1. /\ UNCHANGED <<global, seen, local, bin>> /\ loaded'[w] = global[bin[w]]
        /\ pc[w] = "load" /\ pc'[w] = "store"
        /\ \A v \in Workers \ {w} : loaded'[v] = loaded[v] /\ pc'[v] = pc[v]
    BY <1>5 DEF LoadBin, HistogramTypeOK
  <2>2. ASSUME NEW v \in Workers, NEW b \in 0 .. Bins PROVE Unmerged(v, b)' <= Unmerged(v, b)
    <3>1. Unmerged(v, b)' = Unmerged(v, b) BY <2>1 DEF Unmerged
    <3> QED BY <1>0, <3>1
  <2>3. \A v \in Workers : pc'[v] = "store" => \/ pc[v] = "store" /\ loaded'[v] = loaded[v] /\ bin'[v] = bin[v]
                                             \/ loaded'[v] = global[bin'[v]]
    BY <2>1
  <2> QED BY <2>1, <2>2, <2>3, Quiet
<1>6. CASE Clear(w)
  <2>1. bin[w] \in 0 .. Bins BY <1>6, BinsAssumption DEF Clear, HistogramTypeOK
  <2>2. /\ UNCHANGED <<global, seen, loaded>> /\ pc[w] = "clear" /\ pc'[w] \notin {"clear", "store"}
        /\ \A v \in Workers \ {w} : local'[v] = local[v] /\ pc'[v] = pc[v] /\ bin'[v] = bin[v]
    BY <1>6 DEF Clear, HistogramTypeOK
  <2>3. \A b \in 0 .. Bins : local'[w][b] = IF b = bin[w] THEN 0 ELSE local[w][b]
    <3>1. local'[w] = [local[w] EXCEPT ![bin[w]] = 0] BY <1>6 DEF Clear, HistogramTypeOK
    <3>2. local[w] \in Histograms BY DEF HistogramTypeOK
    <3> QED BY <2>1, <3>1, <3>2 DEF Histograms
  <2>4. ASSUME NEW v \in Workers, NEW b \in 0 .. Bins PROVE Unmerged(v, b)' <= Unmerged(v, b)
    <3>1. Unmerged(v, b)' = Unmerged(v, b)
      <4>1. CASE v = w BY <2>2, <2>3, <4>1 DEF Unmerged
      <4>2. CASE v # w BY <2>2, <4>2 DEF Unmerged
      <4> QED BY <4>1, <4>2
    <3> QED BY <1>0, <3>1
  <2>5. \A v \in Workers : pc'[v] = "store" => pc[v] = "store" /\ loaded'[v] = loaded[v] /\ bin'[v] = bin[v]
    BY <2>2
  <2> QED BY <2>2, <2>4, <2>5, Quiet
<1> QED BY <1>1, <1>2, <1>3, <1>4, <1>5, <1>6 DEF Worker

-----------------------------------------------------------------------------
(* One worker alone.                                                       *)

Settled(w) == /\ \A b \in 0 .. Bins : global[b] + Unmerged(w, b) = seen[b]
              /\ pc[w] = "store" => loaded[w] = global[bin[w]]
              /\ pc[w] \in {"load", "store", "clear"} => \A b \in 0 .. Bins : b < bin[w] => local[w][b] = 0
              /\ pc[w] \in {"lock", "print", "pop", "exit"} => \A b \in 0 .. Bins : local[w][b] = 0

(* A worker alone keeps its balance: what is in the histogram and in its hands was seen. *)
LEMMA SettledStep ==
  ASSUME HistogramTypeOK, NEW w \in Workers, Settled(w), Worker(w) PROVE Settled(w)'
<1> USE DEF Goto, mergeVars, fileVars
<1>0. \A b \in 0 .. Bins : local[w][b] \in Nat /\ Unmerged(w, b) \in Nat /\ global[b] \in Nat /\ seen[b] \in Nat
  BY CountsAreNumbers DEF HistogramTypeOK, Histograms
<1>1. CASE Open(w)
  <2>1. /\ local'[w] = Zero /\ pc[w] = "pop" /\ pc'[w] = "read" /\ global' = global /\ seen' = seen
    BY <1>1 DEF Open, HistogramTypeOK
  <2>2. \A b \in 0 .. Bins : Unmerged(w, b)' = 0 /\ Unmerged(w, b) = 0
    BY <2>1 DEF Unmerged, Zero, Settled
  <2> QED BY <2>1, <2>2 DEF Settled
<1>2. CASE OpenFails(w)
  <2>1. UNCHANGED <<global, seen, local, loaded, pc, bin>> BY <1>2 DEF OpenFails
  <2> QED BY <2>1 DEF Settled, Unmerged
<1>3. CASE Stop(w)
  <2>1. UNCHANGED <<global, seen, local, loaded, bin>> /\ pc[w] = "pop" /\ pc'[w] = "exit"
    BY <1>3 DEF Stop, HistogramTypeOK
  <2> QED BY <2>1 DEF Settled, Unmerged
<1>4. CASE Count(w)
  <2> DEFINE one(b) == IF b \in Head(rest[w]) THEN 1 ELSE 0
  <2>1. /\ pc[w] = "read" /\ \A b \in 0 .. Bins : seen'[b] = seen[b] + one(b)
        /\ \A b \in 0 .. Bins : local'[w][b] = local[w][b] + one(b)
        /\ pc'[w] \in {"load", "read"} /\ global' = global /\ bin'[w] = 0
    BY <1>4 DEF Count, HistogramTypeOK
  <2>2. \A b \in 0 .. Bins : one(b) \in {0, 1} OBVIOUS
  <2> HIDE DEF one
  <2>3. \A b \in 0 .. Bins : Unmerged(w, b)' = Unmerged(w, b) + one(b) BY <2>1 DEF Unmerged
  <2>4. \A b \in 0 .. Bins : global[b] + Unmerged(w, b) = seen[b] BY DEF Settled
  <2>5. \A b \in 0 .. Bins : global'[b] + Unmerged(w, b)' = seen'[b] BY <1>0, <2>1, <2>2, <2>3, <2>4
  <2>6. \A b \in 0 .. Bins : ~(b < bin'[w]) BY <2>1
  <2> QED BY <2>1, <2>5, <2>6 DEF Settled
<1>5. CASE EndOfFile(w)
  <2>1. /\ UNCHANGED <<global, seen, local>> /\ pc[w] = "read" /\ pc'[w] = "load" /\ bin'[w] = 0
    BY <1>5 DEF EndOfFile, HistogramTypeOK
  <2>2. \A b \in 0 .. Bins : ~(b < bin'[w]) BY <2>1
  <2> QED BY <2>1, <2>2 DEF Settled, Unmerged
<1>6. CASE LoadBin(w)
  <2>1. /\ UNCHANGED <<global, seen, local, bin>> /\ loaded'[w] = global[bin[w]]
        /\ pc[w] = "load" /\ pc'[w] = "store"
    BY <1>6 DEF LoadBin, HistogramTypeOK
  <2> QED BY <2>1 DEF Settled, Unmerged
<1>7. CASE StoreBin(w)
  <2>1. PICK a \in 0 .. Bins : a = bin[w] BY <1>7, BinsAssumption DEF StoreBin, HistogramTypeOK
  <2>2. /\ pc[w] = "store" /\ pc'[w] = "clear"
        /\ global'[a] = loaded[w] + local[w][a]
        /\ \A b \in 0 .. Bins : b # a => global'[b] = global[b]
        /\ UNCHANGED <<local, bin, loaded, seen>>
    BY <1>7, <2>1 DEF StoreBin, HistogramTypeOK, Histograms
  <2>3. loaded[w] = global[a] /\ Unmerged(w, a) = local[w][a] BY <2>1, <2>2 DEF Settled, Unmerged
  <2>4. \A b \in 0 .. Bins : Unmerged(w, b)' = IF b = a THEN 0 ELSE Unmerged(w, b)
    BY <2>1, <2>2 DEF Unmerged
  <2>5. \A b \in 0 .. Bins : global[b] + Unmerged(w, b) = seen[b] BY DEF Settled
  <2>6. ASSUME NEW b \in 0 .. Bins PROVE global'[b] + Unmerged(w, b)' = seen'[b]
    <3>1. CASE b = a BY <1>0, <2>2, <2>3, <2>4, <2>5, <3>1
    <3>2. CASE b # a BY <2>2, <2>4, <2>5, <3>2
    <3> QED BY <3>1, <3>2
  <2> QED BY <2>2, <2>6 DEF Settled
<1>8. CASE Clear(w)
  <2>1. PICK a \in 0 .. Bins : a = bin[w] BY <1>8, BinsAssumption DEF Clear, HistogramTypeOK
  <2>2. /\ UNCHANGED <<global, seen, loaded>> /\ pc[w] = "clear" /\ bin'[w] = a + 1
        /\ pc'[w] = IF a < Bins THEN "load" ELSE IF eof[w] THEN "print" ELSE "lock"
    BY <1>8, <2>1 DEF Clear, HistogramTypeOK
  <2>3. \A b \in 0 .. Bins : local'[w][b] = IF b = a THEN 0 ELSE local[w][b]
    <3>1. local'[w] = [local[w] EXCEPT ![a] = 0] BY <1>8, <2>1 DEF Clear, HistogramTypeOK
    <3>2. local[w] \in Histograms BY DEF HistogramTypeOK
    <3> QED BY <3>1, <3>2 DEF Histograms
  <2>4. \A b \in 0 .. Bins : Unmerged(w, b)' = Unmerged(w, b) BY <2>1, <2>2, <2>3 DEF Unmerged
  <2>5. \A b \in 0 .. Bins : b < a => local[w][b] = 0 BY <2>1, <2>2 DEF Settled
  <2>6. \A b \in 0 .. Bins : b < a + 1 => local'[w][b] = 0 BY <2>3, <2>5
  <2>7. ~(a < Bins) => \A b \in 0 .. Bins : local'[w][b] = 0 BY <2>6, BinsAssumption
  <2>8. \A b \in 0 .. Bins : global'[b] + Unmerged(w, b)' = seen'[b] BY <2>2, <2>4 DEF Settled
  <2> QED BY <2>2, <2>6, <2>7, <2>8 DEF Settled
<1>9. CASE LockStdout(w)
  <2>1. UNCHANGED <<global, seen, local, loaded, bin>> /\ pc[w] = "lock" /\ pc'[w] = "print"
    BY <1>9 DEF LockStdout, HistogramTypeOK
  <2> QED BY <2>1 DEF Settled, Unmerged
<1>10. CASE Printed(w)
  <2>1. UNCHANGED <<global, seen, local, loaded, bin>> /\ pc[w] = "print" /\ pc'[w] \in {"pop", "read"}
    BY <1>10 DEF Printed, HistogramTypeOK
  <2> QED BY <2>1 DEF Settled, Unmerged
<1> QED BY <1>1, <1>2, <1>3, <1>4, <1>5, <1>6, <1>7, <1>8, <1>9, <1>10 DEF Worker

(* So the balance holds as long as one worker was started. *)
LEMMA AloneStep == ASSUME HistogramTypeOK, AloneOK, NEW w \in Workers, Worker(w) PROVE AloneOK'
<1>1. pc[w] # "none" /\ \A v \in Workers : pc'[v] = "none" <=> pc[v] = "none"
  BY DEF Worker, Open, OpenFails, Stop, Count, EndOfFile, LoadBin, StoreBin, Clear, LockStdout, Printed,
     Goto, HistogramTypeOK
<1>2. ASSUME NEW v \in Workers, Alone(v)' PROVE Settled(v)'
  <2>1. Alone(v) /\ v = w BY <1>1, <1>2 DEF Alone
  <2>2. Settled(v) BY <2>1 DEF AloneOK, Settled
  <2> QED BY <2>1, <2>2, SettledStep
<1> QED BY <1>2 DEF AloneOK, Settled

(* At the beginning nothing is counted. *)
LEMMA InitHistogram == HistogramInit => InvHistogram
<1> SUFFICES ASSUME HistogramInit PROVE InvHistogram OBVIOUS
<1>1. HistogramTypeOK BY InitTypes
<1>2. \A b \in 0 .. Bins : global[b] = 0 /\ seen[b] = 0 BY DEF HistogramInit, Zero
<1>3. PICK started \in (SUBSET Workers) \ {{}} :
        pc = [w \in Workers |-> IF w \in started THEN "pop" ELSE "none"]
  BY DEF HistogramInit
<1>4. \A w \in Workers : pc[w] \in {"pop", "none"} BY <1>3
<1>5. \A w \in Workers : \A b \in 0 .. Bins : local[w][b] = 0 /\ Unmerged(w, b) = 0
  BY <1>4 DEF HistogramInit, Zero, Unmerged
<1>6. ASSUME NEW b \in 0 .. Bins PROVE Cardinality(Pending(b)) = 0
  <2>1. Pending(b) = {} BY <1>5 DEF Pending
  <2> QED BY <2>1, FS_EmptySet
<1>7. NeverOvercounts BY <1>2, <1>6 DEF NeverOvercounts
<1>8. LoadedOK BY <1>4 DEF LoadedOK
<1>9. AloneOK BY <1>2, <1>4, <1>5 DEF AloneOK
<1> QED BY <1>1, <1>7, <1>8, <1>9 DEF InvHistogram

(* The inductive invariant: whatever is loaded, and whatever stands in the global histogram,
   leaves room below what was counted for all that is still in the workers' hands
   (histogram.h:50-58). *)
THEOREM HistogramInvariant == HistogramSpec => []InvHistogram
<1>1. InvHistogram /\ [HistogramNext]_histogramVars => InvHistogram'
  <2> SUFFICES ASSUME InvHistogram, [HistogramNext]_histogramVars PROVE InvHistogram' OBVIOUS
  <2>1. ASSUME NEW w \in Workers, Worker(w) PROVE InvHistogram'
    <3>1. HistogramTypeOK' BY <2>1, OneWorkerTypes DEF InvHistogram
    <3>2. NeverOvercounts' /\ LoadedOK' BY <2>1, <3>1, OneWorkerBounds DEF InvHistogram
    <3>3. AloneOK' BY <2>1, AloneStep DEF InvHistogram
    <3> QED BY <3>1, <3>2, <3>3 DEF InvHistogram
  <2>2. CASE UNCHANGED histogramVars
    BY <2>2 DEF histogramVars, mergeVars, InvHistogram, HistogramTypeOK, NeverOvercounts, LoadedOK, AloneOK, Alone,
       Pending, Unmerged
  <2> QED BY <2>1, <2>2 DEF HistogramNext
<1> QED BY <1>1, InitHistogram, PTL DEF HistogramSpec

(* Races lose counts but never invent any, for any number of workers, bins, files and bytes
   between merges (histogram.h:50-51, fhistogram-mt.c:55-75). *)
THEOREM NothingInvented == HistogramSpec => []NeverOvercounts
<1>1. InvHistogram => NeverOvercounts BY DEF InvHistogram
<1> QED BY <1>1, HistogramInvariant, PTL

(* With one worker the global histogram at the end holds every bit that was counted, as in the
   sequential fhistogram.c. *)
THEOREM AloneExact == HistogramSpec => []ExactWithOne
<1>1. ASSUME InvHistogram PROVE ExactWithOne
  <2> SUFFICES ASSUME Cardinality(Started) = 1, Done PROVE global = seen
    BY DEF ExactWithOne, ExactTotal
  <2>1. IsFiniteSet(Started)
    <3>1. Started \in SUBSET Workers BY DEF Started
    <3> QED BY <3>1, WorkersAssumption, FS_Subset
  <2>2. PICK w : Started = {w} BY <2>1, FS_Singleton
  <2>3. w \in Workers /\ Alone(w) /\ pc[w] = "exit" BY <2>2 DEF Started, Alone, Done
  <2>4. \A b \in 0 .. Bins : global[b] + Unmerged(w, b) = seen[b] /\ local[w][b] = 0
    BY <1>1, <2>3 DEF InvHistogram, AloneOK
  <2>5. \A b \in 0 .. Bins : global[b] \in Nat BY <1>1 DEF InvHistogram, HistogramTypeOK, Histograms
  <2>6. \A b \in 0 .. Bins : global[b] = seen[b] BY <2>3, <2>4, <2>5 DEF Unmerged
  <2>7. global \in [0 .. Bins -> Nat] /\ seen \in [0 .. Bins -> Nat]
    BY <1>1 DEF InvHistogram, HistogramTypeOK, Histograms
  <2>8. /\ global = [b \in 0 .. Bins |-> global[b]]
        /\ seen = [b \in 0 .. Bins |-> seen[b]]
    BY <2>7
  <2>9. [b \in 0 .. Bins |-> global[b]] = [b \in 0 .. Bins |-> seen[b]]
    BY <2>6
  <2> QED BY <2>8, <2>9
<1> QED BY <1>1, HistogramInvariant, PTL
=============================================================================
