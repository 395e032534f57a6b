------------------------- MODULE PeerNetworkProofs --------------------------
(* Theorems about PeerNetwork, for any peers, connections and crashes.     *)
EXTENDS PeerNetwork, SequenceTheorems, FiniteSetTheorems, TLAPS

-----------------------------------------------------------------------------
(* Sequences.                                                              *)

(* Every set of natural numbers that is not empty has a least element: of the intervals from 0
   to its elements one contains no other.  Induction takes this form below. *)
LEMMA Least ==
  ASSUME NEW T \in SUBSET Nat, T # {} PROVE \E x \in T : \A y \in T : x <= y
<1> DEFINE X == {0 .. n : n \in T}
           R == StrictSubsetOrdering(Nat)
<1>1. X \subseteq FiniteSubsetsOf(Nat)
  <2> SUFFICES ASSUME NEW n \in T PROVE 0 .. n \in FiniteSubsetsOf(Nat) OBVIOUS
  <2>1. n \in Nat /\ 0 .. n \in SUBSET Nat OBVIOUS
  <2>2. IsFiniteSet(0 .. n) BY <2>1, FS_Interval
  <2> QED BY <2>1, <2>2 DEF FiniteSubsetsOf
<1>2. X # {} OBVIOUS
<1>3. IsWellFoundedOn(R, FiniteSubsetsOf(Nat)) BY FS_StrictSubsetOrderingWellFounded
<1>4. \E x \in X : \A y \in X : ~(<<y, x>> \in R)
  <2> HIDE DEF X, R
  <2> QED BY <1>1, <1>2, <1>3, WFMin
<1>5. PICK m \in T : \A n \in T : <<0 .. n, 0 .. m>> \notin R BY <1>4
<1>6. ASSUME NEW n \in T, n < m PROVE FALSE
  <2>1. 0 .. n \in SUBSET Nat /\ 0 .. m \in SUBSET Nat /\ 0 .. n \subseteq 0 .. m BY <1>6
  <2>2. 0 .. n # 0 .. m
    <3>1. m \in 0 .. m /\ m \notin 0 .. n BY <1>6
    <3> QED BY <3>1
  <2> QED BY <2>1, <2>2, <1>5 DEF StrictSubsetOrdering
<1>7. \A n \in T : m <= n BY <1>6
<1> QED BY <1>7

Keeps(f, s, S, n) ==
  f = [m \in 0 .. n |-> IF m = 0 THEN <<>>
                        ELSE IF s[m] \in S THEN Append(f[m - 1], s[m]) ELSE f[m - 1]]

(* The recursive function inside Only exists up to any length. *)
LEMMA KeepsExists == ASSUME NEW s, NEW S, NEW n \in Nat PROVE \E f : Keeps(f, s, S, n)
<1> DEFINE T == {m \in Nat : ~\E f : Keeps(f, s, S, m)}
<1> SUFFICES ASSUME T # {} PROVE FALSE OBVIOUS
<1>1. PICK m \in T : \A y \in T : m <= y BY Least
<1>2. CASE m = 0
  <2>1. Keeps([i \in {0} |-> <<>>], s, S, 0) BY DEF Keeps
  <2> QED BY <1>2, <2>1
<1>3. CASE m # 0
  <2>1. m - 1 \in Nat /\ ~(m <= m - 1) BY <1>3
  <2>2. m - 1 \notin T BY <1>1, <2>1
  <2>3. PICK f : Keeps(f, s, S, m - 1) BY <2>1, <2>2
  <2> DEFINE g == [i \in 0 .. m |-> IF i = m THEN IF s[m] \in S THEN Append(f[m - 1], s[m]) ELSE f[m - 1]
                                    ELSE f[i]]
  <2>4. ASSUME NEW i \in 0 .. m
        PROVE  g[i] = IF i = 0 THEN <<>>
                      ELSE IF s[i] \in S THEN Append(g[i - 1], s[i]) ELSE g[i - 1]
    <3>1. CASE i = m
      <4>1. g[m - 1] = f[m - 1] BY <1>3
      <4> QED BY <3>1, <4>1, <1>3
    <3>2. CASE i # m
      <4>1. i \in 0 .. m - 1 BY <3>2
      <4>2. f[i] = IF i = 0 THEN <<>>
                   ELSE IF s[i] \in S THEN Append(f[i - 1], s[i]) ELSE f[i - 1]
        BY <4>1, <2>3 DEF Keeps
      <4>3. i # 0 => g[i - 1] = f[i - 1] BY <4>1
      <4> QED BY <3>2, <4>2, <4>3
    <3> QED BY <3>1, <3>2
  <2>5. Keeps(g, s, S, m)
    <3> HIDE DEF g
    <3>1. g = [i \in 0 .. m |-> g[i]] BY DEF g
    <3> QED BY <2>4, <3>1 DEF Keeps
  <2> QED BY <2>5
<1> QED BY <1>2, <1>3

(* Only keeps what is in the set, and nothing if nothing is (peer.py:131-139). *)
LEMMA OnlyFacts ==
  ASSUME NEW V, NEW s \in Seq(V), NEW S \in SUBSET V
  PROVE  /\ Only(s, S) \in Seq(S)
         /\ (\A i \in DOMAIN s : s[i] \notin S) => Only(s, S) = <<>>
<1> DEFINE N == Len(s)
           kept == CHOOSE f : Keeps(f, s, S, N)
<1>1. Only(s, S) = kept[N] BY DEF Only, Keeps
<1>2. N \in Nat /\ DOMAIN s = 1 .. N BY LenProperties
<1>3. Keeps(kept, s, S, N) BY <1>2, KeepsExists
<1> HIDE DEF N, kept
<1> DEFINE Good(n) == /\ kept[n] \in Seq(S)
                      /\ (\A i \in 1 .. N : s[i] \notin S) => kept[n] = <<>>
           T == {n \in Nat : n <= N /\ ~Good(n)}
<1>4. T = {}
  <2> SUFFICES ASSUME T # {} PROVE FALSE OBVIOUS
  <2>1. PICK n \in T : \A m \in T : n <= m BY Least
  <2>2. n \in Nat /\ n <= N /\ ~Good(n) OBVIOUS
  <2>3. n # 0
    <3>1. kept[0] = <<>> BY <1>2, <1>3 DEF Keeps
    <3>2. <<>> \in Seq(S) BY EmptySeq
    <3> QED BY <2>2, <3>1, <3>2
  <2>4. n - 1 \in Nat /\ ~(n <= n - 1) /\ n - 1 <= N /\ n \in 1 .. N BY <1>2, <2>2, <2>3
  <2>5. Good(n - 1) BY <2>1, <2>4
  <2>6. kept[n] = IF s[n] \in S THEN Append(kept[n - 1], s[n]) ELSE kept[n - 1]
    <3>1. n \in 0 .. N BY <1>2, <2>2
    <3> QED BY <1>3, <2>3, <3>1 DEF Keeps
  <2>7. CASE s[n] \in S
    <3>1. kept[n] \in Seq(S) BY <2>5, <2>6, <2>7, AppendProperties
    <3> QED BY <2>2, <2>4, <2>7, <3>1
  <2>8. CASE s[n] \notin S
    <3>1. kept[n] = kept[n - 1] BY <2>6, <2>8
    <3> QED BY <2>2, <2>5, <3>1
  <2> QED BY <2>7, <2>8
<1>5. Good(N)
  <2>1. N \notin T BY <1>4
  <2> QED BY <1>2, <2>1
<1> QED BY <1>1, <1>2, <1>5

Merges(f, p, s, n) ==
  f = [m \in 0 .. n |-> IF m = 0 THEN network[p]
                        ELSE IF \E k \in DOMAIN f[m - 1] : f[m - 1][k].addr = s[m] THEN f[m - 1]
                        ELSE Append(f[m - 1], Entry(s[m]))]

(* The recursive function inside Merged exists up to any length. *)
LEMMA MergesExists == ASSUME NEW p, NEW s, NEW n \in Nat PROVE \E f : Merges(f, p, s, n)
<1> DEFINE G(l, m) == IF \E k \in DOMAIN l : l[k].addr = s[m] THEN l ELSE Append(l, Entry(s[m]))
           T == {m \in Nat : ~\E f : Merges(f, p, s, m)}
<1>0. ASSUME NEW f, NEW m \in Nat
      PROVE  Merges(f, p, s, m) <=> f = [i \in 0 .. m |-> IF i = 0 THEN network[p] ELSE G(f[i - 1], i)]
  BY DEF Merges
<1> HIDE DEF G
<1> SUFFICES ASSUME T # {} PROVE FALSE OBVIOUS
<1>1. PICK m \in T : \A y \in T : m <= y BY Least
<1>2. CASE m = 0
  <2> DEFINE g == [i \in 0 .. 0 |-> network[p]]
  <2>1. g = [i \in 0 .. 0 |-> IF i = 0 THEN network[p] ELSE G(g[i - 1], i)] OBVIOUS
  <2> HIDE DEF g
  <2>2. Merges(g, p, s, 0) BY <1>0, <2>1
  <2> QED BY <1>2, <2>2
<1>3. CASE m # 0
  <2>1. m - 1 \in Nat /\ ~(m <= m - 1) BY <1>3
  <2>2. m - 1 \notin T BY <1>1, <2>1
  <2>3. PICK f : Merges(f, p, s, m - 1) BY <2>1, <2>2
  <2>4. f = [i \in 0 .. m - 1 |-> IF i = 0 THEN network[p] ELSE G(f[i - 1], i)] BY <1>0, <2>1, <2>3
  <2> DEFINE g == [i \in 0 .. m |-> IF i = m THEN G(f[m - 1], m) ELSE f[i]]
  <2>5. ASSUME NEW i \in 0 .. m PROVE g[i] = IF i = 0 THEN network[p] ELSE G(g[i - 1], i)
    <3>1. CASE i = m
      <4>1. g[m - 1] = f[m - 1] BY <1>3
      <4> QED BY <3>1, <4>1, <1>3
    <3>2. CASE i # m
      <4>1. i \in 0 .. m - 1 BY <3>2
      <4>2. f[i] = IF i = 0 THEN network[p] ELSE G(f[i - 1], i) BY <4>1, <2>4
      <4>3. i # 0 => g[i - 1] = f[i - 1] BY <4>1
      <4> QED BY <3>2, <4>2, <4>3
    <3> QED BY <3>1, <3>2
  <2>6. Merges(g, p, s, m)
    <3> HIDE DEF g
    <3>1. g = [i \in 0 .. m |-> g[i]] BY DEF g
    <3>2. g = [i \in 0 .. m |-> IF i = 0 THEN network[p] ELSE G(g[i - 1], i)] BY <2>5, <3>1
    <3> QED BY <1>0, <3>2
  <2> QED BY <2>6
<1> QED BY <1>2, <1>3

\* The list l is at the beginning of s, and what comes after it is new.
Extends(s, l) ==
  /\ s \in Seq(Known)
  /\ \A k \in DOMAIN l : k \in DOMAIN s /\ s[k] = l[k]
  /\ \A k \in DOMAIN s : k \in DOMAIN l \/ s[k].stamp = "new"

(* A list with one more entry; no address comes twice if that of the entry was not there
   (peer.py:213-221 and 296-300). *)
LEMMA AppendFacts ==
  ASSUME NEW l \in Seq(Known), NEW n \in Peers
  PROVE  LET s == Append(l, Entry(n))
         IN  /\ Extends(s, l)
             /\ Len(l) + 1 \in DOMAIN s /\ s[Len(l) + 1] = Entry(n) /\ DOMAIN l = 1 .. Len(l)
             /\ \A k \in DOMAIN s : k \in DOMAIN l \/ k = Len(l) + 1
             /\ Distinct(l) /\ (\A k \in DOMAIN l : l[k].addr # n) => Distinct(s)
<1> DEFINE s == Append(l, Entry(n))
           L == Len(l)
<1>1. Entry(n) \in Known /\ Entry(n).addr = n /\ Entry(n).stamp = "new" BY DEF Entry, Known
<1>2. /\ L \in Nat /\ DOMAIN l = 1 .. L
      /\ s \in Seq(Known) /\ Len(s) = L + 1 /\ DOMAIN s = 1 .. L + 1
      /\ \A k \in 1 .. L : s[k] = l[k]
      /\ s[L + 1] = Entry(n)
  BY <1>1, LenProperties, AppendProperties
<1> HIDE DEF s, L
<1>3. /\ \A k \in DOMAIN s : k \in DOMAIN l \/ k = L + 1
      /\ L + 1 \in DOMAIN s
      /\ \A k \in DOMAIN l : k \in DOMAIN s /\ s[k] = l[k]
  BY <1>2
<1>4. Extends(s, l) BY <1>1, <1>2, <1>3 DEF Extends
<1>5. ASSUME Distinct(l), \A k \in DOMAIN l : l[k].addr # n,
             NEW i \in DOMAIN s, NEW j \in DOMAIN s, s[i].addr = s[j].addr
      PROVE  i = j
  <2>1. CASE i \in DOMAIN l /\ j \in DOMAIN l BY <1>3, <1>5, <2>1 DEF Distinct
  <2>2. CASE i \in DOMAIN l /\ j = L + 1 BY <1>1, <1>2, <1>3, <1>5, <2>2
  <2>3. CASE i = L + 1 /\ j \in DOMAIN l BY <1>1, <1>2, <1>3, <1>5, <2>3
  <2> QED BY <1>3, <2>1, <2>2, <2>3
<1>6. Distinct(l) /\ (\A k \in DOMAIN l : l[k].addr # n) => Distinct(s) BY <1>5 DEF Distinct
<1> QED BY <1>2, <1>3, <1>4, <1>6 DEF s, L

(* What extends an extension extends the list. *)
LEMMA ExtendsMore ==
  ASSUME NEW r, NEW s, NEW l, Extends(r, s), Extends(s, l) PROVE Extends(r, l)
<1>1. ASSUME NEW k \in DOMAIN l PROVE k \in DOMAIN r /\ r[k] = l[k] BY DEF Extends
<1>2. ASSUME NEW k \in DOMAIN r, k \notin DOMAIN l PROVE r[k].stamp = "new"
  <2>1. CASE k \in DOMAIN s BY <1>2, <2>1 DEF Extends
  <2>2. CASE k \notin DOMAIN s BY <2>2 DEF Extends
  <2> QED BY <2>1, <2>2
<1> QED BY <1>1, <1>2 DEF Extends

(* to_server adds what the reply names and the list lacks, each once, also when the reply names a
   peer twice (peer.py:599-612). *)
LEMMA MergedFacts ==
  ASSUME NEW p, network[p] \in Seq(Known), NEW m \in Seq(Peers)
  PROVE  /\ Extends(Merged(p, m), network[p])
         /\ Distinct(network[p]) => Distinct(Merged(p, m))
         /\ \A i \in DOMAIN m : \E k \in DOMAIN Merged(p, m) : Merged(p, m)[k].addr = m[i]
<1> DEFINE N == Len(m)
           list == CHOOSE f : Merges(f, p, m, N)
<1>1. Merged(p, m) = list[N] BY DEF Merged, Merges
<1>2. N \in Nat /\ DOMAIN m = 1 .. N /\ \A i \in 1 .. N : m[i] \in Peers
  BY LenProperties, ElementOfSeq
<1>3. Merges(list, p, m, N) BY <1>2, MergesExists
<1> HIDE DEF N, list
<1> DEFINE Good(n) == /\ Extends(list[n], network[p])
                      /\ Distinct(network[p]) => Distinct(list[n])
                      /\ \A i \in 1 .. n : \E k \in DOMAIN list[n] : list[n][k].addr = m[i]
           T == {n \in Nat : n <= N /\ ~Good(n)}
<1>4. T = {}
  <2> SUFFICES ASSUME T # {} PROVE FALSE OBVIOUS
  <2>1. PICK n \in T : \A i \in T : n <= i BY Least
  <2>2. n \in Nat /\ n <= N /\ ~Good(n) OBVIOUS
  <2>3. n # 0
    <3>1. list[0] = network[p] BY <1>2, <1>3 DEF Merges
    <3>2. Extends(network[p], network[p]) BY DEF Extends
    <3>3. Good(0) BY <3>1, <3>2
    <3> QED BY <2>2, <3>3
  <2>4. n - 1 \in Nat /\ ~(n <= n - 1) /\ n - 1 <= N /\ n \in 1 .. N BY <1>2, <2>2, <2>3
  <2>5. Good(n - 1) BY <2>1, <2>4
  <2> DEFINE l == list[n - 1]
  <2>6. /\ Extends(l, network[p]) /\ l \in Seq(Known)
        /\ Distinct(network[p]) => Distinct(l)
        /\ \A i \in 1 .. n - 1 : \E k \in DOMAIN l : l[k].addr = m[i]
    BY <2>5 DEF Extends
  <2>7. list[n] = IF \E k \in DOMAIN l : l[k].addr = m[n] THEN l ELSE Append(l, Entry(m[n]))
    <3>1. n \in 0 .. N BY <1>2, <2>2
    <3> QED BY <1>3, <2>3, <3>1 DEF Merges
  <2>8. n \in Nat /\ \A i \in 1 .. n : i \in 1 .. n - 1 \/ i = n BY <2>2
  <2> HIDE DEF l, T
  <2>9. CASE \E k \in DOMAIN l : l[k].addr = m[n]
    <3>1. list[n] = l BY <2>7, <2>9
    <3>2. \A i \in 1 .. n : \E k \in DOMAIN l : l[k].addr = m[i] BY <2>6, <2>8, <2>9
    <3> QED BY <2>2, <2>6, <3>1, <3>2
  <2>10. CASE ~\E k \in DOMAIN l : l[k].addr = m[n]
    <3> DEFINE s == Append(l, Entry(m[n]))
    <3>1. list[n] = s BY <2>7, <2>10
    <3>2. /\ Extends(s, l) /\ Len(l) + 1 \in DOMAIN s /\ s[Len(l) + 1] = Entry(m[n])
          /\ Distinct(l) /\ (\A k \in DOMAIN l : l[k].addr # m[n]) => Distinct(s)
      BY <1>2, <2>4, <2>6, AppendFacts
    <3>3. Entry(m[n]).addr = m[n] BY DEF Entry
    <3> HIDE DEF s
    <3>4. Extends(s, network[p]) BY <2>6, <3>2, ExtendsMore
    <3>5. Distinct(network[p]) => Distinct(s) BY <2>6, <2>10, <3>2
    <3>6. \A k \in DOMAIN l : k \in DOMAIN s /\ s[k] = l[k] BY <3>2 DEF Extends
    <3>7. ASSUME NEW i \in 1 .. n PROVE \E k \in DOMAIN s : s[k].addr = m[i]
      <4>1. CASE i = n BY <3>2, <3>3, <4>1
      <4>2. CASE i \in 1 .. n - 1 BY <2>6, <3>6, <4>2
      <4> QED BY <2>8, <4>1, <4>2
    <3> QED BY <2>2, <3>1, <3>4, <3>5, <3>7
  <2> QED BY <2>9, <2>10
<1>5. Good(N)
  <2>1. N \notin T BY <1>4
  <2> QED BY <1>2, <2>1
<1> QED BY <1>1, <1>2, <1>5

(* A list from which an entry that is there was removed; its other entries stay, in their order
   (peer.py:136-138). *)
LEMMA WithoutFacts ==
  ASSUME NEW s \in Seq(Known), NEW e, \E k \in DOMAIN s : s[k] = e
  PROVE  LET r == Without(s, e)
         IN  /\ r \in Seq(Known)
             /\ \A k \in DOMAIN r : \E j \in DOMAIN s : r[k] = s[j]
             /\ Distinct(s) => Distinct(r)
             /\ s[1] # e => r # <<>> /\ r[1] = s[1]
<1> DEFINE r == Without(s, e)
           L == Len(s)
           F == {k \in 1 .. L : s[k] = e}
           first == CHOOSE k \in DOMAIN s : s[k] = e /\ \A j \in 1 .. k - 1 : s[j] # e
<1>1. L \in Nat /\ DOMAIN s = 1 .. L /\ \A k \in 1 .. L : s[k] \in Known BY LenProperties, ElementOfSeq
<1> HIDE DEF L
<1>2. first \in 1 .. L /\ s[first] = e
  <2>1. F \in SUBSET Nat /\ F # {} BY <1>1
  <2>2. PICK k \in F : \A j \in F : k <= j BY <2>1, Least
  <2>3. \A j \in 1 .. k - 1 : j \in 1 .. L /\ ~(k <= j) BY <1>1, <2>2
  <2>4. k \in DOMAIN s /\ s[k] = e /\ \A j \in 1 .. k - 1 : s[j] # e BY <1>1, <2>2, <2>3
  <2> QED BY <1>1, <2>4
<1> HIDE DEF first
<1>3. r = [k \in 1 .. L - 1 |-> IF k < first THEN s[k] ELSE s[k + 1]] BY DEF Without, first, L
<1>4. L - 1 \in Nat BY <1>1, <1>2
<1> DEFINE g(k) == IF k < first THEN k ELSE k + 1
<1>5. \A k \in 1 .. L - 1 : g(k) \in 1 .. L /\ r[k] = s[g(k)] BY <1>1, <1>2, <1>3
<1>6. \A i, j \in 1 .. L - 1 : g(i) = g(j) => i = j BY <1>1, <1>2
<1>7. r \in [1 .. L - 1 -> Known] BY <1>1, <1>3, <1>5
<1>8. r \in Seq(Known) /\ DOMAIN r = 1 .. L - 1 BY <1>4, <1>7, SeqDef
<1>9. s[1] # e => 1 \in 1 .. L - 1 /\ r[1] = s[1] BY <1>1, <1>2, <1>3
<1> HIDE DEF r, g
<1>10. \A k \in DOMAIN r : \E j \in DOMAIN s : r[k] = s[j] BY <1>1, <1>5, <1>8
<1>11. Distinct(s) => Distinct(r) BY <1>1, <1>5, <1>6, <1>8 DEF Distinct
<1>12. s[1] # e => r # <<>> /\ r[1] = s[1]
  <2>1. DOMAIN <<>> = {} OBVIOUS
  <2>2. 1 \in DOMAIN r => r # <<>> BY <2>1
  <2> QED BY <1>8, <1>9, <2>2
<1>13. /\ r \in Seq(Known)
       /\ \A k \in DOMAIN r : \E j \in DOMAIN s : r[k] = s[j]
       /\ Distinct(s) => Distinct(r)
       /\ s[1] # e => r # <<>> /\ r[1] = s[1]
  BY ONLY <1>8, <1>10, <1>11, <1>12
<1> QED BY ONLY <1>13 DEF r

-----------------------------------------------------------------------------
(* Connections.                                                            *)

(* Forgetting the connections that are over and unused leaves the others as they are. *)
LEMMA SettleFacts ==
  ASSUME NEW f \in [Conns -> Connection], NEW u
  PROVE  /\ Free \in Connection
         /\ Settle(f, u) \in [Conns -> Connection]
         /\ \A c \in Conns : \/ Settle(f, u)[c] = f[c]
                            \/ /\ Settle(f, u)[c] = Free /\ f[c].st = "over"
                               /\ \A p \in Peers : u[p] # c
<1>1. Free \in Connection
  <2>1. <<>> \in Seq(Peers) /\ <<>> \in Seq(Old) /\ <<>> \in Seq({"ok", "exists", "other"}) BY EmptySeq
  <2> QED BY <2>1 DEF Free, Connection, States
<1> QED BY <1>1 DEF Settle

(* The connection that connect opens is one that was free. *)
LEMMA NextConnFree ==
  ASSUME FreeConns # {} PROVE NextConn \in Conns /\ conn[NextConn].st = "free"
<1>1. FreeConns \in SUBSET Nat BY ConnsAssumption DEF FreeConns
<1>2. \E c \in FreeConns : \A d \in FreeConns : c <= d BY <1>1, Least
<1>3. NextConn \in FreeConns BY <1>2 DEF NextConn
<1> QED BY <1>3 DEF FreeConns

(* A request is a connection. *)
LEMMA RequestTyped ==
  ASSUME NEW p \in Peers, NEW q \in Peers, NEW cmd \in {"register", "get", "inform"},
         NEW about \in Peers \cup {None}
  PROVE  /\ Request(p, q, cmd, about) \in Connection
         /\ Request(p, q, cmd, about).st = "request" /\ Request(p, q, cmd, about).from = p
         /\ Request(p, q, cmd, about).to = q /\ Request(p, q, cmd, about).cmd = cmd
         /\ Request(p, q, cmd, about).about = about
         /\ Request(p, q, cmd, about).replies = <<>>
<1>1. <<>> \in Seq(Peers) /\ <<>> \in Seq(Old) /\ <<>> \in Seq({"ok", "exists", "other"}) BY EmptySeq
<1>2. Free \in Connection BY <1>1 DEF Free, Connection, States
<1>3. /\ "request" \in States /\ p \in Peers \cup {None} /\ q \in Peers \cup {None}
      /\ cmd \in {"none", "register", "get", "inform"} /\ about \in Peers \cup {None}
  BY DEF States
<1>4. Request(p, q, cmd, about) \in Connection BY ONLY <1>2, <1>3 DEF Request, Connection
<1>5. LET r == Request(p, q, cmd, about)
      IN  r.st = "request" /\ r.from = p /\ r.to = q /\ r.cmd = cmd /\ r.about = about /\ r.replies = <<>>
  BY ONLY TRUE DEF Request, Free
<1> QED BY ONLY <1>4, <1>5

(* A connection whose state, entries to remove, payload, place in the list or replies are replaced
   is a connection, and the rest of it stays. *)
LEMMA ConnectionUpdates ==
  ASSUME NEW r \in Connection, NEW s \in States, NEW todo \in Seq(Old), NEW payload \in Seq(Peers),
         NEW pos \in Nat \ {0}, NEW replies \in Seq({"ok", "exists", "other"})
  PROVE  /\ [r EXCEPT !.st = s] \in Connection
         /\ [r EXCEPT !.todo = todo] \in Connection
         /\ [r EXCEPT !.st = s, !.todo = todo] \in Connection
         /\ [r EXCEPT !.st = s, !.payload = payload] \in Connection
         /\ [r EXCEPT !.pos = pos] \in Connection
         /\ [r EXCEPT !.replies = replies, !.st = s] \in Connection
<1> DEFINE T == States
           N == Peers \cup {None}
           C == {"none", "register", "get", "inform"}
           D == Seq(Old)
           P == Seq(Peers)
           I == Nat \ {0}
           R == Seq({"ok", "exists", "other"})
           Q == [st : T, from : N, to : N, cmd : C, about : N, todo : D, payload : P, pos : I, replies : R]
<1>1. Connection = Q BY DEF Connection
<1>2. s \in T /\ todo \in D /\ payload \in P /\ pos \in I /\ replies \in R OBVIOUS
<1> HIDE DEF T, N, C, D, P, I, R
<1>3. r \in Q BY <1>1
<1>4. [r EXCEPT !.st = s] \in Q BY ONLY <1>2, <1>3
<1>5. [r EXCEPT !.todo = todo] \in Q BY ONLY <1>2, <1>3
<1>6. [r EXCEPT !.st = s, !.todo = todo] \in Q BY ONLY <1>2, <1>3
<1>7. [r EXCEPT !.st = s, !.payload = payload] \in Q BY ONLY <1>2, <1>3
<1>8. [r EXCEPT !.pos = pos] \in Q BY ONLY <1>2, <1>3
<1>9. [r EXCEPT !.replies = replies, !.st = s] \in Q BY ONLY <1>2, <1>3
<1> QED BY ONLY <1>1, <1>4, <1>5, <1>6, <1>7, <1>8, <1>9

(* The addresses of a list, in its order. *)
LEMMA AddressListFacts ==
  ASSUME TypeOK, NEW p \in Peers
  PROVE  /\ AddressList(p) \in Seq(Peers) /\ DOMAIN AddressList(p) = DOMAIN network[p]
         /\ \A k \in DOMAIN network[p] : AddressList(p)[k] = network[p][k].addr
         /\ Addresses(p) \subseteq Peers
<1>1. network[p] \in Seq(Known) BY DEF TypeOK
<1>2. Len(network[p]) \in Nat /\ DOMAIN network[p] = 1 .. Len(network[p])
      /\ \A k \in DOMAIN network[p] : network[p][k] \in Known
  BY <1>1, LenProperties, ElementOfSeq
<1>3. \A k \in DOMAIN network[p] : network[p][k].addr \in Peers BY <1>2 DEF Known
<1>4. AddressList(p) \in [1 .. Len(network[p]) -> Peers] BY <1>2, <1>3 DEF AddressList
<1>5. AddressList(p) \in Seq(Peers) BY <1>2, <1>4, SeqDef
<1> QED BY <1>3, <1>5 DEF AddressList, Addresses

-----------------------------------------------------------------------------
(* What a handler step does to connections: its own becomes r, those that are over and not waited
   on are forgotten, and the one it may open tells another peer of a newcomer. *)

Heads(r, e) == r.from = e.from /\ r.to = e.to /\ r.cmd = e.cmd /\ r.about = e.about

Tells(c, d) == /\ conn[d].st = "free" /\ conn[c].st = "telling"
               /\ conn'[d].st = "request" /\ conn'[d].cmd = "inform"
               /\ conn'[d].from \in Peers /\ conn'[d].about \in Peers
               /\ conn'[d].to \in Peers \ {conn[c].to} /\ listening[conn'[d].to]

MovesTo(c, r) ==
  /\ Active(c) /\ serverUnchanged
  /\ r \in Connection /\ Heads(r, conn[c]) /\ r.st # "free"
  /\ conn' \in [Conns -> Connection]
  /\ \A d \in Conns : \/ conn'[d] = IF d = c THEN r ELSE conn[d]
                      \/ /\ conn'[d] = Free /\ (IF d = c THEN r ELSE conn[d]).st = "over"
                         /\ \A p \in Peers : using[p] # d
                      \/ d # c /\ Tells(c, d)

(* A step that only settles, or changes nothing but its own connection. *)
LEMMA SettledMoves ==
  ASSUME InvConns, NEW c \in Conns, Active(c), serverUnchanged, NEW f, NEW r \in Connection,
         f = [conn EXCEPT ![c] = r], Heads(r, conn[c]), r.st # "free",
         conn' = f \/ conn' = Settle(f, using)
  PROVE  MovesTo(c, r)
<1>1. conn \in [Conns -> Connection] BY DEF InvConns
<1>2. f \in [Conns -> Connection] /\ \A d \in Conns : f[d] = IF d = c THEN r ELSE conn[d] BY <1>1
<1>3. conn' \in [Conns -> Connection]
      /\ \A d \in Conns : \/ conn'[d] = f[d]
                          \/ /\ conn'[d] = Free /\ f[d].st = "over"
                             /\ \A p \in Peers : using[p] # d
  <2>1. CASE conn' = f BY <1>2, <2>1
  <2>2. CASE conn' = Settle(f, using)
    <3> HIDE DEF Connection
    <3> QED BY ONLY <1>2, <2>2, SettleFacts
  <2> QED BY <2>1, <2>2
<1> QED BY <1>2, <1>3 DEF MovesTo

LEMMA GotoMoves ==
  ASSUME InvConns, NEW c \in Conns, Active(c), serverUnchanged, NEW s \in States \ {"free"},
         conn' = Goto(c, s), NEW r, r = [conn[c] EXCEPT !.st = s]
  PROVE  /\ MovesTo(c, r) /\ r.st = s /\ r.todo = conn[c].todo /\ r.payload = conn[c].payload
         /\ r.pos = conn[c].pos /\ r.replies = conn[c].replies
<1>1. conn \in [Conns -> Connection] BY DEF InvConns
<1>2. /\ r.st = s /\ r.todo = conn[c].todo /\ r.payload = conn[c].payload
      /\ r.pos = conn[c].pos /\ r.replies = conn[c].replies /\ Heads(r, conn[c])
  BY <1>1 DEF Connection, Heads
<1>3. r \in Connection
  <2>1. <<>> \in Seq(Old) /\ <<>> \in Seq(Peers) /\ <<>> \in Seq({"ok", "exists", "other"}) /\ 1 \in Nat \ {0}
    OBVIOUS
  <2> QED BY <1>1, <2>1, ConnectionUpdates
<1>4. [conn EXCEPT ![c].st = s] = [conn EXCEPT ![c] = r] OBVIOUS
<1>5. conn' = Settle([conn EXCEPT ![c] = r], using) BY <1>4 DEF Goto
<1>6. MovesTo(c, r) BY <1>2, <1>3, <1>5, SettledMoves
<1> QED BY <1>2, <1>6

LEMMA ReplyMoves ==
  ASSUME InvConns, NEW c \in Conns, Active(c), serverUnchanged, NEW s \in States \ {"free"},
         NEW status \in {"ok", "exists", "other"}, conn' = Reply(c, status, s)
  PROVE  \E r : /\ MovesTo(c, r) /\ r.st = s /\ r.todo = conn[c].todo /\ r.payload = conn[c].payload
                /\ r.replies # <<>>
                /\ Head(r.replies) = IF conn[c].replies = <<>> THEN status ELSE Head(conn[c].replies)
<1> DEFINE a == conn[c].replies
           b == Append(a, status)
           r == [conn[c] EXCEPT !.replies = b, !.st = s]
<1>1. conn \in [Conns -> Connection] /\ a \in Seq({"ok", "exists", "other"}) BY DEF InvConns, Connection
<1>2. b \in Seq({"ok", "exists", "other"}) /\ Len(b) = Len(a) + 1 /\ b[Len(b)] = status
      /\ \A i \in 1 .. Len(a) : b[i] = a[i]
  BY <1>1, AppendProperties
<1>3. Len(a) \in Nat /\ (a = <<>> <=> Len(a) = 0) BY <1>1, LenProperties, EmptySeq
<1> HIDE DEF b
<1>4. b # <<>> /\ Head(b) = b[1]
  <2>1. b # <<>> BY <1>2, <1>3, EmptySeq
  <2> QED BY <1>2, <2>1, HeadTailProperties
<1>5. Head(b) = IF a = <<>> THEN status ELSE Head(a)
  <2>1. CASE a = <<>> BY <1>2, <1>3, <1>4, <2>1
  <2>2. CASE a # <<>>
    <3>1. 1 \in 1 .. Len(a) BY <1>3, <2>2
    <3>2. Head(a) = a[1] BY <1>1, <2>2, HeadTailProperties
    <3> QED BY <1>2, <1>4, <2>2, <3>1, <3>2
  <2> QED BY <2>1, <2>2
<1>7. r \in Connection
  <2>1. <<>> \in Seq(Old) /\ <<>> \in Seq(Peers) /\ 1 \in Nat \ {0} OBVIOUS
  <2>2. conn[c] \in Connection /\ s \in States /\ b \in Seq({"ok", "exists", "other"}) BY <1>1, <1>2
  <2> QED BY ONLY <2>1, <2>2, ConnectionUpdates
<1>8. /\ r.st = s /\ r.todo = conn[c].todo /\ r.payload = conn[c].payload
      /\ r.pos = conn[c].pos /\ r.replies = b /\ Heads(r, conn[c])
  <2>1. conn[c] \in Connection BY <1>1
  <2> QED BY ONLY <2>1 DEF Connection, Heads
<1>9. [conn EXCEPT ![c].replies = Append(@, status), ![c].st = s] = [conn EXCEPT ![c] = r]
  BY <1>1 DEF b, Connection
<1>10. conn' = Settle([conn EXCEPT ![c] = r], using) BY <1>9 DEF Reply
<1> HIDE DEF r
<1>11. MovesTo(c, r) BY <1>7, <1>8, <1>10, SettledMoves
<1> QED BY <1>4, <1>5, <1>8, <1>11

-----------------------------------------------------------------------------
(* The invariant that holds whatever happens: the handlers.                *)

(* A connection that moves on soundly leaves the connections sound. *)
LEMMA ConnsKept ==
  ASSUME InvConns, NEW c \in Conns, NEW r, MovesTo(c, r), Sound(r) PROVE InvConns'
<1>1. UNCHANGED <<up, listening, client, using>> BY DEF MovesTo, serverUnchanged
<1>2. conn' \in [Conns -> Connection] BY DEF MovesTo
<1>3. Free.st = "free" BY DEF Free
<1>4. ASSUME NEW d \in Conns PROVE Sound(conn[d])'
  <2>1. CASE conn'[d] = r BY <1>1, <2>1 DEF Sound
  <2>2. CASE conn'[d] = conn[d]
    <3>1. Sound(conn[d]) BY DEF InvConns
    <3> QED BY <1>1, <2>2, <3>1 DEF Sound
  <2>3. CASE conn'[d] = Free BY <1>3, <2>3 DEF Sound
  <2>4. CASE Tells(c, d)
    <3>1. /\ conn'[d].st = "request" /\ conn'[d].cmd = "inform"
          /\ conn'[d].from \in Peers /\ conn'[d].about \in Peers
          /\ conn'[d].to \in Peers /\ listening[conn'[d].to]
      BY <2>4 DEF Tells
    <3>2. up[conn'[d].to] BY <3>1 DEF InvConns
    <3> QED BY <1>1, <3>1, <3>2 DEF Sound
  <2> QED BY <2>1, <2>2, <2>3, <2>4 DEF MovesTo
<1>5. \A p \in Peers :
        /\ listening'[p] => up'[p]
        /\ client'[p] = "none" <=> p = Contact \/ ~up'[p]
        /\ client'[p] \in {"register", "get"} <=> using'[p] # None
  BY <1>1 DEF InvConns
<1> QED BY <1>2, <1>4, <1>5 DEF InvConns

(* The rest of the types. *)
LEMMA TypeKept ==
  ASSUME TypeOK, NEW c \in Conns, NEW r, MovesTo(c, r),
         mutex' \in [Peers -> Conns \cup {None}], stolen' \subseteq Peers,
         network' \in [Peers -> Seq(Known)],
         \A p \in Peers : up[p] => network'[p] # <<>> /\ network'[p][1] = Own(p)
  PROVE  TypeOK'
<1>1. UNCHANGED <<up, listening, client, using, crashes, ticks, gets>> BY DEF MovesTo, serverUnchanged
<1>2. \A d \in Conns : conn'[d].st \in States
  <2>1. conn' \in [Conns -> Connection] BY DEF MovesTo
  <2> QED BY <2>1 DEF Connection
<1> QED BY <1>1, <1>2 DEF TypeOK

\* What another connection is after a step of c, if it is in a section: what it was.
LEMMA OthersStay ==
  ASSUME NEW c \in Conns, NEW r, MovesTo(c, r), NEW d \in Conns, d # c,
         conn'[d].st \notin {"free", "request"}
  PROVE  conn'[d] = conn[d]
<1>1. Free.st = "free" BY DEF Free
<1>2. ~Tells(c, d) BY DEF Tells
<1> QED BY <1>1, <1>2 DEF MovesTo

(* Its own connection is r or forgotten. *)
LEMMA OwnMoves ==
  ASSUME NEW c \in Conns, NEW r, MovesTo(c, r), conn'[c].st # "free" PROVE conn'[c] = r
<1>1. Free.st = "free" BY DEF Free
<1> QED BY <1>1 DEF MovesTo

(* The mutex: a step that leaves it alone enters no section. *)
LEMMA MutexWithin ==
  ASSUME InvMutex, NEW c \in Conns, NEW r, MovesTo(c, r), UNCHANGED <<mutex, stolen>>,
         r.st \in Section => conn[c].st \in Section
  PROVE  InvMutex'
<1> SUFFICES ASSUME NEW d \in Conns, conn'[d].st \in Section, conn'[d].to \notin stolen'
             PROVE  mutex'[conn'[d].to] = d
  BY DEF InvMutex, Section
<1>1. conn'[d].st \notin {"free", "request"} BY DEF Section
<1>2. CASE d = c
  <2>1. conn'[c] = r BY <1>1, <1>2, OwnMoves
  <2>2. r.to = conn[c].to BY DEF MovesTo, Heads
  <2> QED BY <1>2, <2>1, <2>2 DEF InvMutex
<1>3. CASE d # c
  <2>1. conn'[d] = conn[d] BY <1>1, <1>3, OthersStay
  <2> QED BY <2>1 DEF InvMutex
<1> QED BY <1>2, <1>3

(* Taking it when it is free, nobody else is in a section; *)
LEMMA MutexAcquired ==
  ASSUME TypeOK, InvMutex, NEW c \in Conns, NEW r, MovesTo(c, r), conn[c].to \in Peers,
         mutex[conn[c].to] = None, mutex' = [mutex EXCEPT ![conn[c].to] = c], stolen' = stolen
  PROVE  InvMutex'
<1> SUFFICES ASSUME NEW d \in Conns, conn'[d].st \in Section, conn'[d].to \notin stolen
             PROVE  mutex'[conn'[d].to] = d
  BY DEF InvMutex, Section
<1>1. conn'[d].st \notin {"free", "request"} BY DEF Section
<1>2. CASE d = c
  <2>1. conn'[c] = r BY <1>1, <1>2, OwnMoves
  <2>2. r.to = conn[c].to BY DEF MovesTo, Heads
  <2> QED BY <1>2, <2>1, <2>2 DEF TypeOK
<1>3. CASE d # c
  <2>1. conn'[d] = conn[d] BY <1>1, <1>3, OthersStay
  <2>2. mutex[conn[d].to] = d BY <2>1 DEF InvMutex
  <2>3. conn[d].to # conn[c].to BY <2>2, ConnsAssumption
  <2> QED BY <2>1, <2>2, <2>3 DEF TypeOK
<1> QED BY <1>2, <1>3

(* giving it back, its holder loses it unless it is stolen. *)
LEMMA MutexGivenUp ==
  ASSUME TypeOK, InvMutex, NEW c \in Conns, NEW r, MovesTo(c, r), conn[c].to \in Peers,
         r.st \notin Section, mutex' = [mutex EXCEPT ![conn[c].to] = None],
         stolen' = IF mutex[conn[c].to] \in {None, c} THEN stolen ELSE stolen \cup {conn[c].to}
  PROVE  InvMutex'
<1> SUFFICES ASSUME NEW d \in Conns, conn'[d].st \in Section, conn'[d].to \notin stolen'
             PROVE  mutex'[conn'[d].to] = d
  BY DEF InvMutex, Section
<1>1. conn'[d].st \notin {"free", "request"} BY DEF Section
<1>2. d # c
  <2> SUFFICES ASSUME d = c PROVE FALSE OBVIOUS
  <2>1. conn'[c] = r BY <1>1, OwnMoves
  <2> QED BY <2>1
<1>3. conn'[d] = conn[d] BY <1>1, <1>2, OthersStay
<1>4. mutex[conn[d].to] = d /\ conn[d].to \notin stolen' BY <1>3 DEF InvMutex
<1>5. conn[d].to # conn[c].to
  <2> SUFFICES ASSUME conn[d].to = conn[c].to PROVE FALSE OBVIOUS
  <2>1. mutex[conn[c].to] \notin {None, c} BY <1>2, <1>4, ConnsAssumption
  <2> QED BY <1>4, <2>1
<1> QED BY <1>3, <1>4, <1>5 DEF TypeOK

(* The lists: a step that leaves them alone keeps what was looked for missing. *)
LEMMA ListsKept ==
  ASSUME InvLists, NEW c \in Conns, NEW r, MovesTo(c, r), UNCHANGED network, stolen \subseteq stolen',
         r.st = "append" /\ conn[c].to \notin stolen => Newcomer(c) \notin Addresses(conn[c].to)
  PROVE  InvLists'
<1>1. ASSUME NEW p \in Peers PROVE p \in stolen' \/ Distinct(network'[p]) BY DEF InvLists
<1>2. ASSUME NEW d \in Conns, conn'[d].st = "append", conn'[d].to \notin stolen'
      PROVE  Newcomer(d)' \notin Addresses(conn[d].to)'
  <2>1. CASE d = c
    <3>1. conn'[c] = r BY <1>2, <2>1, OwnMoves
    <3>2. Heads(r, conn[c]) BY DEF MovesTo
    <3>3. Newcomer(c)' = Newcomer(c) BY <3>1, <3>2 DEF Newcomer, Heads
    <3>4. Addresses(conn[c].to)' = Addresses(conn[c].to) BY <3>1, <3>2 DEF Heads, Addresses
    <3>5. r.st = "append" /\ conn[c].to \notin stolen BY <1>2, <2>1, <3>1, <3>2 DEF Heads
    <3> QED BY <2>1, <3>3, <3>4, <3>5
  <2>2. CASE d # c
    <3>1. conn'[d] = conn[d] BY <1>2, <2>2, OthersStay
    <3>2. Newcomer(d)' = Newcomer(d) BY <3>1 DEF Newcomer
    <3>3. Addresses(conn[d].to)' = Addresses(conn[d].to) BY <3>1 DEF Addresses
    <3> QED BY <1>2, <3>1, <3>2, <3>3 DEF InvLists
  <2> QED BY <2>1, <2>2
<1> QED BY <1>1, <1>2 DEF InvLists

(* A step in a section may change the list: nobody else is about to append to it. *)
LEMMA ListChanged ==
  ASSUME TypeOK, InvMutex, InvLists, NEW c \in Conns, NEW r, MovesTo(c, r), conn[c].to \in Peers,
         UNCHANGED stolen, conn[c].st \in Section, r.st # "append",
         NEW s, network' = [network EXCEPT ![conn[c].to] = s],
         conn[c].to \notin stolen => Distinct(s)
  PROVE  InvLists'
<1>1. ASSUME NEW p \in Peers PROVE p \in stolen' \/ Distinct(network'[p])
  <2>1. CASE p = conn[c].to
    <3>1. network'[p] = s BY <2>1 DEF TypeOK
    <3> QED BY <2>1, <3>1
  <2>2. CASE p # conn[c].to
    <3>1. network'[p] = network[p] BY <2>2 DEF TypeOK
    <3> QED BY <3>1 DEF InvLists
  <2> QED BY <2>1, <2>2
<1>2. ASSUME NEW d \in Conns, conn'[d].st = "append", conn'[d].to \notin stolen'
      PROVE  Newcomer(d)' \notin Addresses(conn[d].to)'
  <2>1. d # c
    <3> SUFFICES ASSUME d = c PROVE FALSE OBVIOUS
    <3>1. conn'[c] = r BY <1>2, OwnMoves
    <3> QED BY <1>2, <3>1
  <2>2. conn'[d] = conn[d] BY <1>2, <2>1, OthersStay
  <2>3. mutex[conn[d].to] = d BY <1>2, <2>2 DEF InvMutex, Section
  <2>4. conn[d].to # conn[c].to
    <3> SUFFICES ASSUME conn[d].to = conn[c].to PROVE FALSE OBVIOUS
    <3>1. mutex[conn[c].to] = c BY <1>2, <2>2 DEF InvMutex
    <3> QED BY <2>1, <2>3, <3>1
  <2>5. network'[conn[d].to] = network[conn[d].to] BY <2>4 DEF TypeOK
  <2>6. Addresses(conn[d].to)' = Addresses(conn[d].to) BY <2>2, <2>5 DEF Addresses
  <2>7. Newcomer(d)' = Newcomer(d) BY <2>2 DEF Newcomer
  <2> QED BY <1>2, <2>2, <2>6, <2>7 DEF InvLists
<1> QED BY <1>1, <1>2 DEF InvLists

(* Together: a step that leaves lists and mutexes alone, *)
LEMMA BaseWithin ==
  ASSUME InvBase, NEW c \in Conns, NEW r, MovesTo(c, r), Sound(r), UNCHANGED <<network, mutex, stolen>>,
         r.st \in Section => conn[c].st \in Section,
         r.st = "append" /\ conn[c].to \notin stolen => Newcomer(c) \notin Addresses(conn[c].to)
  PROVE  InvBase'
<1>1. TypeOK' BY TypeKept DEF InvBase, TypeOK
<1>2. InvConns' BY ConnsKept DEF InvBase
<1>3. InvMutex' BY MutexWithin DEF InvBase
<1>4. InvLists' BY ListsKept DEF InvBase
<1> QED BY <1>1, <1>2, <1>3, <1>4 DEF InvBase

(* one that takes the mutex, *)
LEMMA BaseAcquire ==
  ASSUME InvBase, NEW c \in Conns, Active(c), NEW t \in States \ {"free", "append"}, Acquire(c, t),
         NEW r, r = [conn[c] EXCEPT !.st = t], Sound(r)
  PROVE  InvBase'
<1>1. /\ conn[c].to \in Peers /\ serverUnchanged /\ conn' = Goto(c, t)
      /\ mutex[conn[c].to] = None /\ mutex' = [mutex EXCEPT ![conn[c].to] = c]
      /\ UNCHANGED <<network, stolen>>
  BY DEF Acquire, InvBase, InvConns, Sound, Active
<1>2. MovesTo(c, r) /\ r.st = t BY <1>1, GotoMoves DEF InvBase
<1>3. TypeOK' BY <1>1, <1>2, TypeKept DEF InvBase, TypeOK
<1>4. InvConns' BY <1>2, ConnsKept DEF InvBase
<1>5. InvMutex' BY <1>1, <1>2, MutexAcquired DEF InvBase
<1>6. InvLists' BY <1>1, <1>2, ListsKept DEF InvBase
<1> QED BY <1>3, <1>4, <1>5, <1>6 DEF InvBase

(* and one that gives it back. *)
LEMMA BaseRelease ==
  ASSUME InvBase, NEW c \in Conns, Active(c), NEW t \in States \ {"free", "append"},
         NEW raised \in States \ {"free", "append"}, Release(c, t, raised),
         t \notin Section, raised \notin Section,
         Sound([conn[c] EXCEPT !.st = t]), Sound([conn[c] EXCEPT !.st = raised])
  PROVE  InvBase'
<1> DEFINE u == IF mutex[conn[c].to] = None THEN raised ELSE t
           r == [conn[c] EXCEPT !.st = u]
<1>1. /\ conn[c].to \in Peers /\ serverUnchanged /\ conn' = Goto(c, u)
      /\ mutex' = [mutex EXCEPT ![conn[c].to] = None]
      /\ stolen' = IF mutex[conn[c].to] \in {None, c} THEN stolen ELSE stolen \cup {conn[c].to}
      /\ UNCHANGED network
  BY DEF Release, InvBase, InvConns, Sound, Active
<1>2. Sound(r) OBVIOUS
<1>3. u \in States \ {"free", "append"} /\ u \notin Section OBVIOUS
<1> HIDE DEF u
<1>4. MovesTo(c, r) /\ r.st = u BY <1>1, <1>3, GotoMoves DEF InvBase
<1> HIDE DEF r
<1>5. TypeOK' BY <1>1, <1>4, TypeKept DEF InvBase, TypeOK
<1>6. InvConns' BY <1>2, <1>4, ConnsKept DEF InvBase
<1>7. InvMutex' BY <1>1, <1>3, <1>4, MutexGivenUp DEF InvBase
<1>8. InvLists' BY <1>1, <1>3, <1>4, ListsKept DEF InvBase
<1> QED BY <1>5, <1>6, <1>7, <1>8 DEF InvBase

-----------------------------------------------------------------------------
(* The handlers, one by one.                                               *)

(* A connection of which only the state is replaced. *)
LEMMA StateReplaced ==
  ASSUME InvConns, NEW c \in Conns, NEW t, NEW r, r = [conn[c] EXCEPT !.st = t]
  PROVE  /\ r.st = t /\ Heads(r, conn[c])
         /\ r.payload = conn[c].payload /\ r.replies = conn[c].replies /\ r.todo = conn[c].todo
<1>1. conn[c] \in Connection BY DEF InvConns
<1> QED BY ONLY <1>1, r = [conn[c] EXCEPT !.st = t] DEF Connection, Heads

LEMMA BeginBase ==
  ASSUME InvBase, NEW c \in Conns, RefreshBegin(c) \/ AddBegin(c) \/ InformBegin(c)
  PROVE  InvBase'
<1> DEFINE G(t) == [conn[c] EXCEPT !.st = t]
<1>1. /\ Active(c) /\ InvConns /\ Sound(conn[c])
      /\ \A t \in {"scan", "search", "telling"} : t \in States \ {"free", "append"}
  BY DEF RefreshBegin, AddBegin, InformBegin, Active, InvBase, InvConns, States
<1>2. \A t : G(t).st = t /\ Heads(G(t), conn[c]) /\ G(t).payload = conn[c].payload BY <1>1, StateReplaced
<1> HIDE DEF G
<1>3. CASE RefreshBegin(c)
  <2>1. Sound(G("scan")) BY <1>1, <1>2 DEF Sound, Heads, Active
  <2>2. Acquire(c, "scan") BY <1>3 DEF RefreshBegin
  <2> QED BY <1>1, <2>1, <2>2, BaseAcquire DEF G
<1>4. CASE AddBegin(c)
  <2>1. Sound(G("search")) BY <1>1, <1>2, <1>4 DEF AddBegin, Sound, Heads, Active
  <2>2. Acquire(c, "search") BY <1>4 DEF AddBegin
  <2> QED BY <1>1, <2>1, <2>2, BaseAcquire DEF G
<1>5. CASE InformBegin(c)
  <2>1. Sound(G("telling")) BY <1>1, <1>2, <1>5 DEF InformBegin, Sound, Heads, Active
  <2>2. Acquire(c, "telling") BY <1>5 DEF InformBegin
  <2> QED BY <1>1, <2>1, <2>2, BaseAcquire DEF G
<1> QED BY <1>3, <1>4, <1>5

LEMMA EndBase ==
  ASSUME InvBase, NEW c \in Conns, RefreshEnd(c) \/ AddEnd(c) \/ Unwind(c) \/ InformEnd(c)
  PROVE  InvBase'
<1> DEFINE G(t) == [conn[c] EXCEPT !.st = t]
           E == {"dispatch", "failed", "over", "registered", "exists", "unwind"}
<1>1. /\ Active(c) /\ InvConns /\ Sound(conn[c])
      /\ \A t \in E : t \in States \ {"free", "append"} /\ t \notin Section
  BY DEF RefreshEnd, AddEnd, Unwind, InformEnd, Active, InvBase, InvConns, States, Section
<1>2. \A t : G(t).st = t /\ Heads(G(t), conn[c]) /\ G(t).payload = conn[c].payload BY <1>1, StateReplaced
<1>3. ASSUME NEW t \in E, NEW raised \in E, Release(c, t, raised), Sound(G(t)), Sound(G(raised))
      PROVE  InvBase'
  <2>1. t \in States \ {"free", "append"} /\ t \notin Section BY <1>1
  <2>2. raised \in States \ {"free", "append"} /\ raised \notin Section BY <1>1
  <2> QED BY <1>1, <1>3, <2>1, <2>2, BaseRelease
<1> HIDE DEF G
<1>4. /\ Sound(G("failed")) /\ Sound(G("over"))
      /\ conn[c].cmd # "get" => Sound(G("unwind"))
  BY <1>1, <1>2 DEF Sound, Heads, Active
<1>5. CASE RefreshEnd(c)
  <2>1. Sound(G("dispatch")) BY <1>1, <1>2, <1>5 DEF RefreshEnd, Sound, Heads, Active
  <2>2. Release(c, "dispatch", "failed") BY <1>5 DEF RefreshEnd
  <2> QED BY <1>3, <1>4, <2>1, <2>2
<1>6. CASE AddEnd(c)
  <2> DEFINE t == IF conn[c].cmd = "inform" THEN "over"
                  ELSE IF conn[c].st = "added" THEN "registered" ELSE "exists"
  <2>1. conn[c].st \in {"there", "added"} /\ conn[c].cmd \in {"register", "inform"}
    <3>1. conn[c] \in Connection BY <1>1 DEF InvConns
    <3>2. conn[c].cmd \in {"none", "register", "get", "inform"} BY <3>1 DEF Connection
    <3> QED BY <1>1, <1>6, <3>2 DEF AddEnd, Sound, Active
  <2>2. Release(c, t, "unwind") BY <1>6 DEF AddEnd
  <2>3. t \in E OBVIOUS
  <2>4. Sound(G(t)) BY <1>1, <1>2, <2>1 DEF Sound, Heads, Active
  <2>5. Sound(G("unwind")) BY <1>4, <2>1
  <2> HIDE DEF t
  <2> QED BY <1>3, <2>2, <2>3, <2>4, <2>5
<1>7. CASE Unwind(c)
  <2>1. Release(c, "failed", "failed") BY <1>7 DEF Unwind
  <2> QED BY <1>3, <1>4, <2>1
<1>8. CASE InformEnd(c)
  <2>1. conn[c].cmd # "get" BY <1>1, <1>8 DEF InformEnd, Sound, Active
  <2>2. Release(c, "over", "unwind") BY <1>8 DEF InformEnd
  <2> QED BY <1>3, <1>4, <2>1, <2>2
<1> QED BY <1>5, <1>6, <1>7, <1>8

(* What the steps do to their connection: Scan, *)
LEMMA ScanMoves ==
  ASSUME InvBase, NEW c \in Conns, Scan(c)
  PROVE  \E r : /\ MovesTo(c, r) /\ r.st = "remove" /\ r.payload = conn[c].payload
                /\ r.replies = conn[c].replies
                /\ (\A k \in DOMAIN network[conn[c].to] : network[conn[c].to][k].stamp # "old") =>
                     r.todo = <<>>
<1> DEFINE list == network[conn[c].to]
           old == IF \E k \in DOMAIN list : IsFrom(list[k], c) THEN <<>> ELSE Only(list, Old)
           r == [conn[c] EXCEPT !.st = "remove", !.todo = old]
<1>1. /\ InvConns /\ Active(c) /\ serverUnchanged /\ conn[c] \in Connection /\ list \in Seq(Known)
  BY DEF InvBase, InvConns, Sound, Active, Scan, Within, TypeOK
<1>2. Old \in SUBSET Known /\ \A e \in Old : e.stamp = "old" BY DEF Old
<1>3. conn' = [conn EXCEPT ![c] = r] BY DEF Scan
<1> HIDE DEF list
<1>4. /\ Only(list, Old) \in Seq(Old)
      /\ (\A i \in DOMAIN list : list[i] \notin Old) => Only(list, Old) = <<>>
  BY <1>1, <1>2, OnlyFacts
<1>5. /\ old \in Seq(Old)
      /\ (\A k \in DOMAIN list : list[k].stamp # "old") => old = <<>>
  BY <1>2, <1>4, EmptySeq
<1> HIDE DEF old
<1>6. r \in Connection
  <2>1. "remove" \in States BY DEF States
  <2>2. <<>> \in Seq(Peers) /\ <<>> \in Seq({"ok", "exists", "other"}) /\ 1 \in Nat \ {0} BY EmptySeq
  <2> QED BY ONLY <1>1, <1>5, <2>1, <2>2, ConnectionUpdates
<1>7. /\ Heads(r, conn[c]) /\ r.st = "remove" /\ r.payload = conn[c].payload
      /\ r.replies = conn[c].replies /\ r.todo = old
  BY ONLY <1>1 DEF Connection, Heads
<1> HIDE DEF r
<1>8. MovesTo(c, r) BY <1>1, <1>3, <1>6, <1>7, SettledMoves
<1> QED BY <1>5, <1>7, <1>8 DEF list

(* Remove, *)
LEMMA RemoveMoves ==
  ASSUME InvBase, NEW c \in Conns, Remove(c)
  PROVE  \E r : /\ MovesTo(c, r) /\ r.st = "remove" /\ r.payload = conn[c].payload
                /\ r.replies = conn[c].replies
<1> DEFINE todo == conn[c].todo
<1>1. /\ InvConns /\ Active(c) /\ serverUnchanged /\ conn[c] \in Connection /\ conn[c].st = "remove"
  BY DEF InvBase, InvConns, Sound, Active, Remove, Within
<1>2. todo \in Seq(Old) /\ todo # <<>> BY <1>1 DEF Connection, Remove
<1>3. PICK t \in {Tail(todo), <<>>} : conn' = [conn EXCEPT ![c].todo = t] BY DEF Remove
<1>4. t \in Seq(Old) BY <1>2, HeadTailProperties, EmptySeq
<1> DEFINE r == [conn[c] EXCEPT !.todo = t]
<1>5. conn' = [conn EXCEPT ![c] = r] BY <1>3
<1> HIDE DEF todo
<1>6. r \in Connection
  <2>1. "remove" \in States BY DEF States
  <2>2. <<>> \in Seq(Peers) /\ <<>> \in Seq({"ok", "exists", "other"}) /\ 1 \in Nat \ {0} BY EmptySeq
  <2> QED BY ONLY <1>1, <1>4, <2>1, <2>2, ConnectionUpdates
<1>7. /\ Heads(r, conn[c]) /\ r.st = "remove" /\ r.payload = conn[c].payload
      /\ r.replies = conn[c].replies
  BY ONLY <1>1 DEF Connection, Heads
<1> HIDE DEF r
<1>8. MovesTo(c, r) BY <1>1, <1>5, <1>6, <1>7, SettledMoves
<1> QED BY <1>7, <1>8

(* Build, *)
LEMMA BuildMoves ==
  ASSUME InvBase, NEW c \in Conns, Build(c)
  PROVE  \E r : /\ MovesTo(c, r) /\ r.st = "added" /\ r.replies = conn[c].replies
                /\ r.payload = AddressList(conn[c].to)
<1> DEFINE list == AddressList(conn[c].to)
           r == [conn[c] EXCEPT !.st = "added", !.payload = list]
<1>1. /\ InvConns /\ Active(c) /\ serverUnchanged /\ conn[c] \in Connection /\ conn[c].to \in Peers
  BY DEF InvBase, InvConns, Sound, Active, Build, Within
<1>2. list \in Seq(Peers) BY <1>1, AddressListFacts DEF InvBase
<1>3. conn' = [conn EXCEPT ![c] = r] BY DEF Build
<1> HIDE DEF list
<1>4. r \in Connection
  <2>1. "added" \in States BY DEF States
  <2>2. <<>> \in Seq(Old) /\ <<>> \in Seq({"ok", "exists", "other"}) /\ 1 \in Nat \ {0} BY EmptySeq
  <2> QED BY ONLY <1>1, <1>2, <2>1, <2>2, ConnectionUpdates
<1>5. /\ Heads(r, conn[c]) /\ r.st = "added" /\ r.payload = list /\ r.replies = conn[c].replies
  BY ONLY <1>1 DEF Connection, Heads
<1> HIDE DEF r
<1>6. MovesTo(c, r) BY <1>1, <1>3, <1>4, <1>5, SettledMoves
<1> QED BY <1>5, <1>6 DEF list

(* and Tell. *)
LEMMA TellMoves ==
  ASSUME InvBase, NEW c \in Conns, Tell(c)
  PROVE  \E r : /\ MovesTo(c, r) /\ r.st \in {"telling", "unwind"} /\ r.payload = conn[c].payload
                /\ r.replies = conn[c].replies
<1> DEFINE p == conn[c].to
           q == network[p][conn[c].pos].addr
           r == [conn[c] EXCEPT !.pos = @ + 1]
           f == [conn EXCEPT ![c] = r]
<1>1. /\ InvConns /\ Active(c) /\ serverUnchanged /\ conn \in [Conns -> Connection]
      /\ conn[c].st = "telling" /\ conn[c].cmd = "register"
      /\ p \in Peers /\ network[p] \in Seq(Known) /\ conn[c].payload # <<>>
  BY DEF InvBase, InvConns, Sound, Active, Tell, Within, TypeOK
<1>2. q \in Peers
  <2>1. conn[c].pos \in Nat \ {0} /\ conn[c].pos <= Len(network[p]) BY <1>1 DEF Connection, Tell
  <2>2. conn[c].pos \in 1 .. Len(network[p])
    <3>1. Len(network[p]) \in Nat BY <1>1, LenProperties
    <3> QED BY ONLY <2>1, <3>1
  <2>3. network[p][conn[c].pos] \in Known BY <1>1, <2>2, ElementOfSeq
  <2> QED BY <2>3 DEF Known
<1>3. Announced(c) \in Peers
  <2>1. conn[c].payload \in Seq(Peers) BY <1>1 DEF Connection
  <2>2. Len(conn[c].payload) \in 1 .. Len(conn[c].payload) BY <1>1, <2>1, LenProperties, EmptySeq
  <2> QED BY <2>1, <2>2, ElementOfSeq DEF Announced
<1>4. r \in Connection
  <2>1. conn[c].pos + 1 \in Nat \ {0} BY <1>1 DEF Connection
  <2>2. <<>> \in Seq(Old) /\ <<>> \in Seq(Peers) /\ <<>> \in Seq({"ok", "exists", "other"}) BY EmptySeq
  <2>3. conn[c] \in Connection /\ "telling" \in States BY <1>1 DEF States
  <2>4. r = [conn[c] EXCEPT !.pos = conn[c].pos + 1] OBVIOUS
  <2> QED BY ONLY <2>1, <2>2, <2>3, <2>4, ConnectionUpdates
<1>5. /\ Heads(r, conn[c]) /\ r.st = "telling" /\ r.payload = conn[c].payload
      /\ r.replies = conn[c].replies
  <2>1. conn[c] \in Connection BY <1>1
  <2> QED BY ONLY <1>1, <2>1 DEF Connection, Heads
<1>6. \/ conn' = f
      \/ /\ q # p /\ listening[q] /\ FreeConns # {}
         /\ conn' = [conn EXCEPT ![c].pos = @ + 1, ![NextConn] = Request(p, q, "inform", Announced(c))]
      \/ conn' = Goto(c, "unwind")
  BY DEF Tell
<1>7. CASE conn' = f
  <2> HIDE DEF r
  <2>1. MovesTo(c, r) BY <1>1, <1>4, <1>5, <1>7, SettledMoves
  <2> QED BY <1>5, <2>1
<1>8. CASE /\ q # p /\ listening[q] /\ FreeConns # {}
           /\ conn' = [conn EXCEPT ![c].pos = @ + 1, ![NextConn] = Request(p, q, "inform", Announced(c))]
  <2> DEFINE m == Request(p, q, "inform", Announced(c))
             n == NextConn
  <2>1. n \in Conns /\ conn[n].st = "free" /\ n # c BY <1>1, <1>8, NextConnFree
  <2>2. /\ m \in Connection /\ m.st = "request" /\ m.from = p /\ m.to = q /\ m.cmd = "inform"
        /\ m.about = Announced(c)
    BY <1>1, <1>2, <1>3, RequestTyped
  <2>3. conn' = [[conn EXCEPT ![c] = r] EXCEPT ![n] = m] BY <1>1, <1>8
  <2> HIDE DEF r, m, n, q
  <2>4. conn' \in [Conns -> Connection] /\ conn'[n] = m
        /\ \A d \in Conns \ {n} : conn'[d] = IF d = c THEN r ELSE conn[d]
    BY <1>1, <1>4, <2>1, <2>2, <2>3
  <2>5. Tells(c, n) BY <1>1, <1>2, <1>3, <1>8, <2>1, <2>2, <2>4 DEF Tells
  <2>6. MovesTo(c, r) BY <1>1, <1>4, <1>5, <2>1, <2>4, <2>5 DEF MovesTo
  <2> QED BY <1>5, <2>6
<1>9. CASE conn' = Goto(c, "unwind")
  <2>1. "unwind" \in States \ {"free"} BY DEF States
  <2>2. PICK u : u = [conn[c] EXCEPT !.st = "unwind"] OBVIOUS
  <2>3. /\ MovesTo(c, u) /\ u.st = "unwind" /\ u.payload = conn[c].payload /\ u.replies = conn[c].replies
    BY <1>1, <1>9, <2>1, <2>2, GotoMoves
  <2> QED BY <2>3
<1> QED BY <1>6, <1>7, <1>8, <1>9

(* The steps that leave mutexes and lists alone. *)
LEMMA LookBase == ASSUME InvBase, NEW c \in Conns, Scan(c) \/ Build(c) \/ Tell(c) PROVE InvBase'
<1>1. /\ Active(c) /\ Sound(conn[c]) /\ UNCHANGED <<network, mutex, stolen>>
      /\ conn[c].st \in {"scan", "build", "telling"}
  BY DEF Scan, Build, Tell, Within, Active, InvBase, InvConns
<1>2. conn[c].st \in Section BY <1>1 DEF Section
<1>3. CASE Scan(c)
  <2>1. PICK r : MovesTo(c, r) /\ r.st = "remove" /\ r.payload = conn[c].payload BY <1>3, ScanMoves
  <2>2. Heads(r, conn[c]) BY <2>1 DEF MovesTo
  <2>3. Sound(r) BY <1>1, <1>3, <2>1, <2>2 DEF Scan, Within, Sound, Heads
  <2> QED BY <1>1, <1>2, <2>1, <2>3, BaseWithin
<1>4. CASE Build(c)
  <2>1. PICK r : MovesTo(c, r) /\ r.st = "added" /\ r.payload = AddressList(conn[c].to)
    BY <1>4, BuildMoves
  <2>2. Heads(r, conn[c]) BY <2>1 DEF MovesTo
  <2>3. conn[c].to \in Peers /\ up[conn[c].to] BY <1>1 DEF Sound, Active
  <2>4. AddressList(conn[c].to) # <<>>
    <3>1. network[conn[c].to] \in Seq(Known) /\ network[conn[c].to] # <<>> BY <2>3 DEF InvBase, TypeOK
    <3>2. 1 \in DOMAIN network[conn[c].to] BY <3>1, LenProperties, EmptySeq
    <3>3. 1 \in DOMAIN AddressList(conn[c].to) BY <3>2 DEF AddressList
    <3>4. DOMAIN <<>> = {} OBVIOUS
    <3> QED BY <3>3, <3>4
  <2>5. Sound(r) BY <1>1, <1>4, <2>1, <2>2, <2>4 DEF Build, Within, Sound, Heads
  <2> QED BY <1>1, <1>2, <2>1, <2>5, BaseWithin
<1>5. CASE Tell(c)
  <2>1. PICK r : MovesTo(c, r) /\ r.st \in {"telling", "unwind"} /\ r.payload = conn[c].payload
    BY <1>5, TellMoves
  <2>2. Heads(r, conn[c]) BY <2>1 DEF MovesTo
  <2>3. Sound(r) BY <1>1, <1>5, <2>1, <2>2 DEF Tell, Within, Sound, Heads
  <2> QED BY <1>1, <1>2, <2>1, <2>3, BaseWithin
<1> QED BY <1>3, <1>4, <1>5

LEMMA SearchBase == ASSUME InvBase, NEW c \in Conns, Search(c) PROVE InvBase'
<1> DEFINE t == IF Newcomer(c) \in Addresses(conn[c].to) THEN "there" ELSE "append"
<1>1. /\ Active(c) /\ InvConns /\ Sound(conn[c]) /\ UNCHANGED <<network, mutex, stolen>>
      /\ conn[c].st = "search" /\ serverUnchanged
  BY DEF Search, Within, Active, InvBase, InvConns
<1>2. conn' = Goto(c, t) /\ t \in States \ {"free"} /\ conn[c].st \in Section
  BY <1>1 DEF Search, States, Section
<1>3. t = "append" => Newcomer(c) \notin Addresses(conn[c].to) OBVIOUS
<1>4. t \in {"there", "append"} OBVIOUS
<1> HIDE DEF t
<1>5. PICK r : r = [conn[c] EXCEPT !.st = t] OBVIOUS
<1>6. MovesTo(c, r) /\ r.st = t BY <1>1, <1>2, <1>5, GotoMoves
<1>7. Heads(r, conn[c]) BY <1>6 DEF MovesTo
<1>8. Sound(r) BY <1>1, <1>4, <1>6, <1>7 DEF Sound, Heads
<1> QED BY <1>1, <1>2, <1>3, <1>6, <1>8, BaseWithin

LEMMA ReplyBase ==
  ASSUME InvBase, NEW c \in Conns, ReplyRegistered(c) \/ ReplyExists(c) \/ HandleGet(c) \/ ReplyFailed(c)
  PROVE  InvBase'
<1> DEFINE E == {"inform", "failed", "unwind", "over"}
<1>1. /\ Active(c) /\ InvConns /\ Sound(conn[c]) /\ UNCHANGED <<network, mutex, stolen>>
      /\ serverUnchanged
  BY DEF ReplyRegistered, ReplyExists, HandleGet, ReplyFailed, Within, Active, InvBase, InvConns
<1>2. PICK t \in E :
        /\ t = "inform" => ReplyRegistered(c)
        /\ t = "unwind" => ReplyExists(c)
        /\ \/ conn' = Goto(c, t)
           \/ \E status \in {"ok", "exists", "other"} : conn' = Reply(c, status, t)
  BY DEF ReplyRegistered, ReplyExists, HandleGet, ReplyFailed
<1>3. t \in States \ {"free"} /\ t \notin Section /\ t # "append" BY DEF States, Section
<1>4. PICK r : /\ MovesTo(c, r) /\ r.st = t /\ r.payload = conn[c].payload
  <2>1. CASE conn' = Goto(c, t)
    <3>1. PICK r : r = [conn[c] EXCEPT !.st = t] OBVIOUS
    <3>2. MovesTo(c, r) /\ r.st = t /\ r.payload = conn[c].payload
      BY <1>1, <1>3, <2>1, <3>1, GotoMoves
    <3> QED BY ONLY <3>2
  <2>2. ASSUME NEW status \in {"ok", "exists", "other"}, conn' = Reply(c, status, t)
        PROVE  \E r : MovesTo(c, r) /\ r.st = t /\ r.payload = conn[c].payload
    <3>1. PICK r : MovesTo(c, r) /\ r.st = t /\ r.payload = conn[c].payload
      BY <1>1, <1>3, <2>2, ReplyMoves
    <3> QED BY ONLY <3>1
  <2> QED BY <1>2, <2>1, <2>2
<1>5. Heads(r, conn[c]) BY <1>4 DEF MovesTo
<1>6. /\ t = "inform" => conn[c].st = "registered"
      /\ t = "unwind" => conn[c].st = "exists"
  BY <1>2 DEF ReplyRegistered, ReplyExists, Within
<1>7. Sound(r) BY <1>1, <1>4, <1>5, <1>6 DEF Sound, Heads, Active
<1> QED BY <1>1, <1>3, <1>4, <1>7, BaseWithin

(* An entry that is no longer up to date is removed; the first one is the peer's own. *)
LEMMA RemoveBase == ASSUME InvBase, NEW c \in Conns, Remove(c) PROVE InvBase'
<1> DEFINE p == conn[c].to
           e == Head(conn[c].todo)
           s == Without(network[p], e)
<1>1. /\ Active(c) /\ InvConns /\ Sound(conn[c]) /\ conn[c] \in Connection
      /\ conn[c].st = "remove" /\ UNCHANGED <<mutex, stolen>> /\ TypeOK /\ InvMutex /\ InvLists
  BY DEF Remove, Within, Active, InvBase, InvConns
<1>2. p \in Peers /\ "remove" \in Section BY <1>1 DEF Sound, Active, Section
<1>3. PICK r : MovesTo(c, r) /\ r.st = "remove" /\ r.payload = conn[c].payload BY RemoveMoves
<1>4. Heads(r, conn[c]) BY <1>3 DEF MovesTo
<1>5. Sound(r) BY <1>1, <1>3, <1>4 DEF Sound, Heads
<1>6. CASE UNCHANGED network BY <1>1, <1>2, <1>3, <1>5, <1>6, BaseWithin
<1>7. CASE network' = [network EXCEPT ![p] = s] /\ \E k \in DOMAIN network[p] : network[p][k] = e
  <2>1. e.stamp = "old"
    <3>1. conn[c].todo \in Seq(Old) /\ conn[c].todo # <<>> BY <1>1 DEF Connection, Remove
    <3>2. e \in Old BY <3>1, HeadTailProperties
    <3> QED BY <3>2 DEF Old
  <2>2. network[p] \in Seq(Known) BY <1>1, <1>2 DEF TypeOK
  <2>3. /\ s \in Seq(Known) /\ (Distinct(network[p]) => Distinct(s))
        /\ network[p][1] # e => s # <<>> /\ s[1] = network[p][1]
    BY <1>7, <2>2, WithoutFacts
  <2> HIDE DEF s
  <2>4. \A q \in Peers : up[q] => network'[q] # <<>> /\ network'[q][1] = Own(q)
    <3> SUFFICES ASSUME NEW q \in Peers, up[q] PROVE network'[q] # <<>> /\ network'[q][1] = Own(q)
      OBVIOUS
    <3>1. network[q] # <<>> /\ network[q][1] = Own(q) BY <1>1 DEF TypeOK
    <3>2. Own(q).stamp = "own" BY DEF Own
    <3>3. CASE q = p
      <4>1. network'[q] = s BY <1>1, <1>7, <3>3 DEF TypeOK
      <4>2. network[p][1] # e BY <2>1, <3>1, <3>2, <3>3
      <4> QED BY <2>3, <3>1, <3>3, <4>1, <4>2
    <3>4. CASE q # p
      <4>1. network'[q] = network[q] BY <1>1, <1>7, <3>4 DEF TypeOK
      <4> QED BY <3>1, <4>1
    <3> QED BY <3>3, <3>4
  <2>5. network' \in [Peers -> Seq(Known)] BY <1>1, <1>7, <2>3 DEF TypeOK
  <2>6. TypeOK' BY <1>1, <1>3, <2>4, <2>5, TypeKept DEF TypeOK
  <2>7. InvConns' BY <1>1, <1>3, <1>5, ConnsKept
  <2>8. InvMutex' BY <1>1, <1>2, <1>3, MutexWithin
  <2>9. p \notin stolen => Distinct(s) BY <1>1, <1>2, <2>3 DEF InvLists
  <2>10. InvLists' BY <1>1, <1>2, <1>3, <1>7, <2>9, ListChanged
  <2> QED BY <2>6, <2>7, <2>8, <2>10 DEF InvBase
<1> QED BY <1>6, <1>7 DEF Remove

(* The newcomer is appended: it was not there, or the mutex is stolen. *)
LEMMA AppendBase == ASSUME InvBase, NEW c \in Conns, AppendEntry(c) PROVE InvBase'
<1> DEFINE p == conn[c].to
           n == Newcomer(c)
           s == Append(network[p], Entry(n))
           t == IF conn[c].cmd = "register" THEN "build" ELSE "added"
<1>1. /\ Active(c) /\ InvConns /\ Sound(conn[c]) /\ conn[c] \in Connection /\ serverUnchanged
      /\ conn[c].st = "append" /\ UNCHANGED <<mutex, stolen>> /\ TypeOK /\ InvMutex /\ InvLists
  BY DEF AppendEntry, Within, Active, InvBase, InvConns
<1>2. p \in Peers /\ "append" \in Section BY <1>1 DEF Sound, Active, Section
<1>3. conn[c].cmd \in {"register", "inform"}
  <2>1. conn[c].cmd \in {"none", "register", "get", "inform"} BY <1>1 DEF Connection
  <2> QED BY <1>1, <2>1 DEF Sound, Active
<1>4. n \in Peers BY <1>1, <1>3 DEF Newcomer, Sound, Active
<1>5. conn' = Goto(c, t) /\ t \in States \ {"free"} /\ t \in {"build", "added"} /\ t # "append"
      /\ (t = "build" <=> conn[c].cmd = "register")
  BY DEF AppendEntry, States
<1>6. network' = [network EXCEPT ![p] = s] BY DEF AppendEntry
<1> HIDE DEF t
<1>7. PICK r : r = [conn[c] EXCEPT !.st = t] OBVIOUS
<1>8. MovesTo(c, r) /\ r.st = t BY <1>1, <1>5, <1>7, GotoMoves
<1>9. Heads(r, conn[c]) BY <1>8 DEF MovesTo
<1>10. Sound(r) BY <1>1, <1>3, <1>5, <1>8, <1>9 DEF Sound, Heads, Active
<1>11. network[p] \in Seq(Known) BY <1>1, <1>2 DEF TypeOK
<1>12. /\ Extends(s, network[p])
       /\ Distinct(network[p]) /\ (\A k \in DOMAIN network[p] : network[p][k].addr # n) => Distinct(s)
  BY <1>4, <1>11, AppendFacts
<1> HIDE DEF s, n
<1>13. \A q \in Peers : up[q] => network'[q] # <<>> /\ network'[q][1] = Own(q)
  <2> SUFFICES ASSUME NEW q \in Peers, up[q] PROVE network'[q] # <<>> /\ network'[q][1] = Own(q)
    OBVIOUS
  <2>1. network[q] \in Seq(Known) /\ network[q] # <<>> /\ network[q][1] = Own(q) BY <1>1 DEF TypeOK
  <2>2. CASE q = p
    <3>1. network'[q] = s BY <1>1, <1>6, <2>2 DEF TypeOK
    <3>2. 1 \in DOMAIN network[p] BY <2>1, <2>2, LenProperties, EmptySeq
    <3>3. 1 \in DOMAIN s /\ s[1] = network[p][1] BY <1>12, <3>2 DEF Extends
    <3>4. DOMAIN <<>> = {} OBVIOUS
    <3> QED BY <2>1, <2>2, <3>1, <3>3, <3>4
  <2>3. CASE q # p
    <3>1. network'[q] = network[q] BY <1>1, <1>6, <2>3 DEF TypeOK
    <3> QED BY <2>1, <3>1
  <2> QED BY <2>2, <2>3
<1>14. network' \in [Peers -> Seq(Known)] BY <1>1, <1>6, <1>12 DEF TypeOK, Extends
<1>15. TypeOK' BY <1>1, <1>8, <1>13, <1>14, TypeKept DEF TypeOK
<1>16. InvConns' BY <1>1, <1>8, <1>10, ConnsKept
<1>17. InvMutex' BY <1>1, <1>2, <1>8, MutexWithin
<1>18. p \notin stolen => Distinct(s)
  <2> SUFFICES ASSUME p \notin stolen PROVE Distinct(s) OBVIOUS
  <2>1. Distinct(network[p]) BY <1>1, <1>2 DEF InvLists
  <2>2. n \notin Addresses(p) BY <1>1 DEF InvLists, n
  <2>3. \A k \in DOMAIN network[p] : network[p][k].addr # n BY <2>2 DEF Addresses
  <2> QED BY <1>12, <2>1, <2>3
<1>19. InvLists' BY <1>1, <1>2, <1>5, <1>6, <1>8, <1>18, ListChanged
<1> QED BY <1>15, <1>16, <1>17, <1>19 DEF InvBase

-----------------------------------------------------------------------------
(* The invariant that holds whatever happens: client threads and processes. *)

(* At the beginning only the contact has a list: its own address. *)
LEMMA InitBase == Init => InvBase
<1> SUFFICES ASSUME Init PROVE InvBase OBVIOUS
<1>1. /\ Own(Contact) \in Known /\ <<Own(Contact)>> \in Seq(Known) /\ <<>> \in Seq(Known)
      /\ <<Own(Contact)>> # <<>> /\ <<Own(Contact)>>[1] = Own(Contact)
      /\ DOMAIN <<Own(Contact)>> = {1} /\ DOMAIN <<>> = {}
  BY ContactAssumption DEF Own, Known
<1>2. Free.st = "free" /\ "free" \in States /\ "free" \notin Section BY DEF Free, States, Section
<1>3. conn = [c \in Conns |-> Free] BY DEF Init
<1>4. \A c \in Conns : conn[c] = Free BY <1>3
<1>5. TypeOK
  <2>1. up \in [Peers -> BOOLEAN] /\ listening \in [Peers -> BOOLEAN] BY Zenon DEF Init
  <2>2. network \in [Peers -> Seq(Known)] BY <1>1 DEF Init
  <2>3. \A p \in Peers : up[p] => network[p] # <<>> /\ network[p][1] = Own(p)
    BY <1>1 DEF Init
  <2>4. \A c \in Conns : conn[c].st \in States BY <1>2, <1>4
  <2>5. /\ mutex \in [Peers -> Conns \cup {None}] /\ using \in [Peers -> Conns \cup {None}]
        /\ client \in [Peers -> {"none", "start", "register", "ready", "get", "dead"}]
    BY DEF Init
  <2>6. crashes \in 0 .. MaxCrashes /\ ticks \in 0 .. MaxTicks /\ gets \in 0 .. MaxGets
    BY BoundsAssumption DEF Init
  <2>7. stolen \subseteq Peers BY DEF Init
  <2> QED BY <2>1, <2>2, <2>3, <2>4, <2>5, <2>6, <2>7 DEF TypeOK
<1>6. InvConns
  <2>1. Free \in Connection
    <3>1. <<>> \in Seq(Peers) /\ <<>> \in Seq(Old) /\ <<>> \in Seq({"ok", "exists", "other"}) BY EmptySeq
    <3> QED BY <3>1 DEF Free, Connection, States
  <2>2. conn \in [Conns -> Connection] BY <1>3, <2>1
  <2>3. \A c \in Conns : Sound(conn[c]) BY <1>2, <1>4 DEF Sound
  <2>4. \A p \in Peers : /\ listening[p] => up[p]
                         /\ client[p] = "none" <=> p = Contact \/ ~up[p]
                         /\ client[p] \in {"register", "get"} <=> using[p] # None
    BY DEF Init
  <2> QED BY <2>2, <2>3, <2>4 DEF InvConns
<1>7. InvMutex BY <1>2, <1>4 DEF InvMutex
<1>8. InvLists
  <2>1. \A p \in Peers : Distinct(network[p]) BY <1>1 DEF Init, Distinct
  <2> QED BY <1>2, <1>4, <2>1 DEF InvLists
<1> QED BY <1>5, <1>6, <1>7, <1>8 DEF InvBase

(* A step outside the handlers leaves mutexes alone, and a list that a handler is about to append
   to. *)
LEMMA BaseOutside ==
  ASSUME InvBase, TypeOK', InvConns', UNCHANGED <<mutex, stolen>>,
         \A d \in Conns : conn'[d].st \in Section => conn'[d] = conn[d],
         \A p \in Peers : p \in stolen \/ Distinct(network'[p]),
         \A p \in Peers : \/ mutex[p] = None \/ ~up[p]
                         \/ \A k \in DOMAIN network'[p] : network'[p][k].addr \in Addresses(p)
  PROVE  InvBase'
<1>1. InvMutex' BY DEF InvBase, InvMutex
<1>2. ASSUME NEW d \in Conns, conn'[d].st = "append", conn'[d].to \notin stolen'
      PROVE  Newcomer(d)' \notin Addresses(conn[d].to)'
  <2>1. conn'[d] = conn[d] BY <1>2 DEF Section
  <2>2. mutex[conn[d].to] = d BY <1>2, <2>1 DEF InvBase, InvMutex, Section
  <2>3. conn[d].to \in Peers /\ up[conn[d].to] BY <1>2, <2>1 DEF InvBase, InvConns, Sound
  <2>4. d # None BY ConnsAssumption
  <2> DEFINE p == conn[d].to
  <2>5. Addresses(p)' = {network'[p][k].addr : k \in DOMAIN network'[p]} BY <2>1 DEF Addresses
  <2>6. \A k \in DOMAIN network'[p] : network'[p][k].addr \in Addresses(p) BY <2>2, <2>3, <2>4
  <2>7. Newcomer(d)' = Newcomer(d) BY <2>1 DEF Newcomer
  <2>8. Newcomer(d) \notin Addresses(p) BY <1>2, <2>1 DEF InvBase, InvLists
  <2> QED BY <2>5, <2>6, <2>7, <2>8
<1>3. InvLists' BY <1>2 DEF InvLists
<1> QED BY <1>1, <1>3 DEF InvBase

(* The client thread: where it is, and whether it waits on a connection, change together. *)
LEMMA ClientConnectBase ==
  ASSUME InvBase, NEW p \in Peers, NEW q \in Peers, NEW cmd \in {"register", "get"},
         client[p] \in {"start", "ready"}, ClientConnect(p, q, cmd), gets' \in 0 .. MaxGets
  PROVE  InvBase'
<1>1. UNCHANGED <<up, listening, network, mutex, crashes, ticks, stolen>> BY DEF ClientConnect
<1>2. TypeOK /\ InvConns /\ InvLists /\ conn \in [Conns -> Connection] BY DEF InvBase, InvConns
<1>3. /\ \A r \in Peers : r \in stolen \/ Distinct(network'[r])
      /\ \A r \in Peers : \A k \in DOMAIN network'[r] : network'[r][k].addr \in Addresses(r)
  BY <1>1, <1>2 DEF InvLists, Addresses
<1>4. CASE listening[q]
  <2> DEFINE n == NextConn
             m == Request(p, q, cmd, None)
  <2>1. /\ FreeConns # {} /\ conn' = [conn EXCEPT ![n] = m]
        /\ using' = [using EXCEPT ![p] = n] /\ client' = [client EXCEPT ![p] = cmd]
    BY <1>4 DEF ClientConnect
  <2>2. n \in Conns /\ conn[n].st = "free" /\ n # None BY <2>1, NextConnFree, ConnsAssumption
  <2>3. m \in Connection /\ m.st = "request" /\ m.from = p /\ m.to = q /\ m.cmd = cmd
    BY RequestTyped
  <2> HIDE DEF n, m
  <2>4. conn' \in [Conns -> Connection] /\ conn'[n] = m /\ \A d \in Conns \ {n} : conn'[d] = conn[d]
    BY <1>2, <2>1, <2>2, <2>3
  <2>5. ASSUME NEW d \in Conns PROVE Sound(conn[d])'
    <3>1. CASE d = n
      <4>1. up[q] BY <1>2, <1>4 DEF InvConns
      <4> QED BY <1>1, <2>3, <2>4, <3>1, <4>1 DEF Sound
    <3>2. CASE d # n
      <4>1. Sound(conn[d]) /\ conn'[d] = conn[d] BY <1>2, <2>4, <3>2 DEF InvConns
      <4> QED BY <1>1, <4>1 DEF Sound
    <3> QED BY <3>1, <3>2
  <2>6. ASSUME NEW r \in Peers
        PROVE  /\ listening'[r] => up'[r]
               /\ client'[r] = "none" <=> r = Contact \/ ~up'[r]
               /\ client'[r] \in {"register", "get"} <=> using'[r] # None
    <3>1. CASE r = p
      <4>1. client'[r] = cmd /\ using'[r] = n BY <1>2, <2>1, <3>1 DEF TypeOK
      <4> QED BY <1>1, <1>2, <2>2, <3>1, <4>1 DEF InvConns
    <3>2. CASE r # p
      <4>1. client'[r] = client[r] /\ using'[r] = using[r] BY <1>2, <2>1, <3>2 DEF TypeOK
      <4> QED BY <1>1, <1>2, <4>1 DEF InvConns
    <3> QED BY <3>1, <3>2
  <2>7. InvConns' BY <2>4, <2>5, <2>6 DEF InvConns
  <2>8. TypeOK'
    <3>1. \A c \in Conns : conn'[c].st \in States BY <2>4 DEF Connection
    <3>2. /\ using' \in [Peers -> Conns \cup {None}]
          /\ client' \in [Peers -> {"none", "start", "register", "ready", "get", "dead"}]
      BY <1>2, <2>1, <2>2 DEF TypeOK
    <3> QED BY <1>1, <1>2, <3>1, <3>2 DEF TypeOK
  <2>9. \A d \in Conns : conn'[d].st \in Section => conn'[d] = conn[d]
    BY <2>3, <2>4 DEF Section
  <2> QED BY <1>1, <1>3, <2>7, <2>8, <2>9, BaseOutside
<1>5. CASE ~listening[q]
  <2>1. client' = [client EXCEPT ![p] = "dead"] /\ UNCHANGED <<conn, using>>
    BY <1>5 DEF ClientConnect
  <2>2. TypeOK' BY <1>1, <1>2, <2>1 DEF TypeOK
  <2>3. InvConns' BY <1>1, <1>2, <2>1 DEF InvConns, TypeOK, Sound
  <2> QED BY <1>1, <1>3, <2>1, <2>2, <2>3, BaseOutside
<1> QED BY <1>4, <1>5

LEMMA ClientRegisterBase == ASSUME InvBase, NEW p \in Peers, ClientRegister(p) PROVE InvBase'
BY ContactAssumption, ClientConnectBase DEF ClientRegister, InvBase, TypeOK

LEMMA ClientGetBase == ASSUME InvBase, NEW p \in Peers, ClientGet(p) PROVE InvBase'
<1>1. client[p] \in {"start", "ready"} BY DEF ClientGet
<1>2. gets' \in 0 .. MaxGets BY BoundsAssumption DEF ClientGet, InvBase, TypeOK
<1>3. ASSUME NEW q \in Addresses(p) \ {p}, ClientConnect(p, q, "get") PROVE InvBase'
  <2>1. q \in Peers BY AddressListFacts DEF InvBase
  <2>2. "get" \in {"register", "get"} OBVIOUS
  <2> QED BY <1>1, <1>2, <1>3, <2>1, <2>2, ClientConnectBase
<1>4. CASE /\ client' = [client EXCEPT ![p] = "dead"]
           /\ UNCHANGED <<up, listening, network, mutex, using, conn, crashes, ticks, stolen>>
  <2>1. TypeOK' BY <1>2, <1>4 DEF InvBase, TypeOK
  <2>2. InvConns' BY <1>1, <1>4 DEF InvBase, InvConns, TypeOK, Sound
  <2>3. /\ \A r \in Peers : r \in stolen \/ Distinct(network'[r])
        /\ \A r \in Peers : \A k \in DOMAIN network'[r] : network'[r][k].addr \in Addresses(r)
    BY <1>4 DEF InvBase, InvLists, Addresses
  <2> QED BY <1>4, <2>1, <2>2, <2>3, BaseOutside
<1> QED BY <1>3, <1>4 DEF ClientGet

(* A client thread that stops waiting, with or without a reply, leaves its connection. *)
LEMMA ClientLeavesBase ==
  ASSUME InvBase, NEW p \in Peers, client[p] \in {"register", "get"},
         network' \in [Peers -> Seq(Known)], \A q \in Peers \ {p} : network'[q] = network[q],
         p \in stolen \/ Distinct(network'[p]),
         up[p] => network'[p] # <<>> /\ network'[p][1] = Own(p),
         network'[p] = network[p] \/ mutex[p] = None,
         client' \in {[client EXCEPT ![p] = "ready"], [client EXCEPT ![p] = "dead"]},
         using' = [using EXCEPT ![p] = None], conn' = Settle(conn, using'),
         UNCHANGED <<up, listening, mutex, crashes, ticks, gets, stolen>>
  PROVE  InvBase'
<1>1. TypeOK /\ InvConns /\ InvLists /\ conn \in [Conns -> Connection] BY DEF InvBase, InvConns
<1>2. /\ conn' \in [Conns -> Connection]
      /\ \A c \in Conns : conn'[c] = conn[c] \/ conn'[c] = Free
  BY <1>1, SettleFacts
<1>3. Free.st = "free" /\ "free" \notin Section BY DEF Free, Section
<1>4. TypeOK'
  <2>1. \A c \in Conns : conn'[c].st \in States BY <1>2 DEF Connection
  <2>2. \A q \in Peers : up[q] => network'[q] # <<>> /\ network'[q][1] = Own(q) BY <1>1 DEF TypeOK
  <2>3. /\ using' \in [Peers -> Conns \cup {None}]
        /\ client' \in [Peers -> {"none", "start", "register", "ready", "get", "dead"}]
    BY <1>1 DEF TypeOK
  <2> QED BY <1>1, <2>1, <2>2, <2>3 DEF TypeOK
<1>5. ASSUME NEW d \in Conns PROVE Sound(conn[d])'
  <2>1. CASE conn'[d] = conn[d]
    <3>1. Sound(conn[d]) BY <1>1 DEF InvConns
    <3> QED BY <2>1, <3>1 DEF Sound
  <2>2. CASE conn'[d] = Free BY <1>3, <2>2 DEF Sound
  <2> QED BY <1>2, <2>1, <2>2
<1>6. ASSUME NEW r \in Peers
      PROVE  /\ listening'[r] => up'[r]
             /\ client'[r] = "none" <=> r = Contact \/ ~up'[r]
             /\ client'[r] \in {"register", "get"} <=> using'[r] # None
  <2>1. CASE r = p
    <3>1. client'[r] \in {"ready", "dead"} /\ using'[r] = None BY <1>1, <2>1 DEF TypeOK
    <3> QED BY <1>1, <2>1, <3>1 DEF InvConns
  <2>2. CASE r # p
    <3>1. client'[r] = client[r] /\ using'[r] = using[r] BY <1>1, <2>2 DEF TypeOK
    <3> QED BY <1>1, <3>1 DEF InvConns
  <2> QED BY <2>1, <2>2
<1>7. InvConns' BY <1>2, <1>5, <1>6 DEF InvConns
<1>8. \A d \in Conns : conn'[d].st \in Section => conn'[d] = conn[d] BY <1>2, <1>3
<1>9. ASSUME NEW r \in Peers
      PROVE  /\ r \in stolen \/ Distinct(network'[r])
             /\ \/ mutex[r] = None
                \/ \A k \in DOMAIN network'[r] : network'[r][k].addr \in Addresses(r)
  <2>1. CASE network'[r] = network[r] BY <1>1, <2>1 DEF InvLists, Addresses
  <2>2. CASE r = p /\ mutex[p] = None BY <2>2
  <2> QED BY <2>1, <2>2
<1> QED BY <1>4, <1>7, <1>8, <1>9, BaseOutside

LEMMA ClientRegisteredBase == ASSUME InvBase, NEW p \in Peers, ClientRegistered(p) PROVE InvBase'
<1>1. client[p] \in {"register", "get"} /\ mutex[p] = None BY DEF ClientRegistered
<1>2. using[p] \in Conns
  BY <1>1 DEF InvBase, InvConns, TypeOK
<1> DEFINE m == conn[using[p]].payload
           s == Merged(p, m)
<1>3. m \in Seq(Peers) /\ network \in [Peers -> Seq(Known)]
  <2>1. conn[using[p]] \in Connection BY <1>2 DEF InvBase, InvConns
  <2> QED BY <2>1 DEF Connection, InvBase, TypeOK
<1>4. Extends(s, network[p]) /\ (Distinct(network[p]) => Distinct(s))
  <2> HIDE DEF m
  <2> QED BY <1>3, MergedFacts
<1>5. network' = network \/ network' = [network EXCEPT ![p] = s] BY DEF ClientRegistered
<1>6. /\ client' = [client EXCEPT ![p] = "ready"]
      /\ using' = [using EXCEPT ![p] = None] /\ conn' = Settle(conn, using')
      /\ UNCHANGED <<up, listening, mutex, crashes, ticks, gets, stolen>>
  BY DEF ClientRegistered
<1> HIDE DEF s
<1>7. up[p] => s # <<>> /\ s[1] = Own(p)
  <2> SUFFICES ASSUME up[p] PROVE s # <<>> /\ s[1] = Own(p) OBVIOUS
  <2>1. network[p] \in Seq(Known) /\ network[p] # <<>> /\ network[p][1] = Own(p)
    BY DEF InvBase, TypeOK
  <2>2. 1 \in DOMAIN network[p] BY <2>1, LenProperties, EmptySeq
  <2>3. DOMAIN <<>> = {} OBVIOUS
  <2>4. 1 \in DOMAIN s /\ s[1] = network[p][1] BY <1>4, <2>2 DEF Extends
  <2> QED BY <2>1, <2>3, <2>4
<1>8. p \in stolen \/ Distinct(network[p]) BY DEF InvBase, InvLists
<1>9. up[p] => network[p] # <<>> /\ network[p][1] = Own(p) BY DEF InvBase, TypeOK
<1>10. s \in Seq(Known) BY <1>4 DEF Extends
<1>11. /\ network' \in [Peers -> Seq(Known)] /\ \A q \in Peers \ {p} : network'[q] = network[q]
       /\ network'[p] \in {network[p], s}
  BY <1>3, <1>5, <1>10
<1>12. /\ p \in stolen \/ Distinct(network'[p])
       /\ up[p] => network'[p] # <<>> /\ network'[p][1] = Own(p)
  BY <1>4, <1>7, <1>8, <1>9, <1>11
<1> QED BY <1>1, <1>6, <1>11, <1>12, ClientLeavesBase

LEMMA ClientAnsweredBase ==
  ASSUME InvBase, NEW p \in Peers, ClientGot(p) \/ ClientDropped(p) PROVE InvBase'
<1>1. client[p] \in {"register", "get"} BY DEF ClientGot, ClientDropped, InvBase, InvConns
<1>2. network' = network BY DEF ClientGot, ClientDropped
<1>3. /\ network' \in [Peers -> Seq(Known)]
      /\ p \in stolen \/ Distinct(network'[p])
      /\ up[p] => network'[p] # <<>> /\ network'[p][1] = Own(p)
  BY <1>2 DEF InvBase, TypeOK, InvLists
<1>4. /\ client' \in {[client EXCEPT ![p] = "ready"], [client EXCEPT ![p] = "dead"]}
      /\ using' = [using EXCEPT ![p] = None] /\ conn' = Settle(conn, using')
      /\ UNCHANGED <<up, listening, mutex, crashes, ticks, gets, stolen>>
  BY DEF ClientGot, ClientDropped
<1> QED BY <1>1, <1>2, <1>3, <1>4, ClientLeavesBase

-----------------------------------------------------------------------------
(* The process.                                                            *)

LEMMA BootBase == ASSUME InvBase, NEW p \in Peers, Boot(p) PROVE InvBase'
<1>1. TypeOK /\ InvConns /\ InvLists /\ ~up[p] /\ UNCHANGED <<listening, mutex, using, conn, stolen>>
  BY DEF InvBase, Boot
<1>2. /\ <<Own(p)>> \in Seq(Known) /\ <<Own(p)>> # <<>> /\ <<Own(p)>>[1] = Own(p)
      /\ DOMAIN <<Own(p)>> = {1}
  BY DEF Own, Known
<1>3. TypeOK'
  <2>1. network' \in [Peers -> Seq(Known)] BY <1>1, <1>2 DEF Boot, TypeOK
  <2>2. \A r \in Peers : up'[r] => network'[r] # <<>> /\ network'[r][1] = Own(r)
    BY <1>1, <1>2 DEF Boot, TypeOK
  <2>3. up' \in [Peers -> BOOLEAN] BY <1>1, Zenon DEF Boot, TypeOK
  <2>4. client' \in [Peers -> {"none", "start", "register", "ready", "get", "dead"}]
    BY <1>1 DEF Boot, TypeOK
  <2> QED BY <1>1, <2>1, <2>2, <2>3, <2>4 DEF Boot, TypeOK
<1>4. \A r \in Peers : up[r] => up'[r] BY <1>1 DEF Boot, TypeOK
<1>5. ASSUME NEW d \in Conns PROVE Sound(conn[d])'
  <2>1. Sound(conn[d]) BY <1>1 DEF InvConns
  <2> QED BY <1>1, <1>4, <2>1 DEF Sound
<1>6. ASSUME NEW r \in Peers
      PROVE  /\ listening'[r] => up'[r]
             /\ client'[r] = "none" <=> r = Contact \/ ~up'[r]
             /\ client'[r] \in {"register", "get"} <=> using'[r] # None
  <2>1. CASE r = p
    <3>1. up'[r] /\ client'[r] = IF p = Contact THEN "none" ELSE "start"
      BY <1>1, <2>1 DEF Boot, TypeOK
    <3>2. client[r] = "none" BY <1>1, <2>1 DEF InvConns
    <3>3. using[r] = None BY <1>1, <3>2 DEF InvConns
    <3> QED BY <1>1, <2>1, <3>1, <3>3
  <2>2. CASE r # p
    <3>1. client'[r] = client[r] /\ up'[r] = up[r] BY <1>1, <2>2 DEF Boot, TypeOK
    <3> QED BY <1>1, <3>1 DEF InvConns
  <2> QED BY <2>1, <2>2
<1>7. InvConns' BY <1>1, <1>5, <1>6 DEF InvConns
<1>8. ASSUME NEW r \in Peers
      PROVE  /\ r \in stolen \/ Distinct(network'[r])
             /\ \/ mutex[r] = None \/ ~up[r]
                \/ \A k \in DOMAIN network'[r] : network'[r][k].addr \in Addresses(r)
  <2>1. CASE r = p
    <3>1. network'[r] = <<Own(p)>> BY <1>1, <2>1 DEF Boot, TypeOK
    <3>2. Distinct(<<Own(p)>>) BY <1>2 DEF Distinct
    <3> QED BY <1>1, <2>1, <3>1, <3>2
  <2>2. CASE r # p
    <3>1. network'[r] = network[r] BY <1>1, <2>2 DEF Boot, TypeOK
    <3> QED BY <1>1, <3>1 DEF InvLists, Addresses
  <2> QED BY <2>1, <2>2
<1> QED BY <1>1, <1>3, <1>7, <1>8, BaseOutside

LEMMA ListenBase == ASSUME InvBase, NEW p \in Peers, Listen(p) PROVE InvBase'
<1>1. TypeOK /\ InvConns /\ UNCHANGED <<up, network, mutex, client, using, conn, stolen>>
  BY DEF InvBase, Listen
<1>2. TypeOK'
  <2>1. listening' \in [Peers -> BOOLEAN] BY <1>1, Zenon DEF Listen, TypeOK
  <2> QED BY <1>1, <2>1 DEF Listen, TypeOK
<1>3. InvConns' BY <1>1 DEF Listen, InvConns, Sound, TypeOK
<1>4. /\ \A r \in Peers : r \in stolen \/ Distinct(network'[r])
      /\ \A r \in Peers : \A k \in DOMAIN network'[r] : network'[r][k].addr \in Addresses(r)
  BY <1>1 DEF InvBase, InvLists, Addresses
<1> QED BY <1>1, <1>2, <1>3, <1>4, BaseOutside

LEMMA CrashBase == ASSUME InvBase, NEW p \in Peers, Crash(p) PROVE InvBase'
<1> DEFINE f == [c \in Conns |-> IF conn[c].to = p THEN [conn[c] EXCEPT !.st = "over"] ELSE conn[c]]
<1>1. TypeOK /\ InvConns /\ InvMutex /\ InvLists /\ conn \in [Conns -> Connection]
  BY DEF InvBase, InvConns
<1>2. f \in [Conns -> Connection]
  <2>1. ASSUME NEW c \in Conns PROVE f[c] \in Connection
    <3>1. conn[c] \in Connection /\ "over" \in States BY <1>1 DEF States
    <3>2. [conn[c] EXCEPT !.st = "over"] \in Connection
      <4>1. <<>> \in Seq(Peers) /\ <<>> \in Seq(Old) /\ <<>> \in Seq({"ok", "exists", "other"})
            /\ 1 \in Nat \ {0}
        BY EmptySeq
      <4> QED BY ONLY <3>1, <4>1, ConnectionUpdates
    <3> QED BY <3>1, <3>2
  <2> QED BY <2>1
<1>3. \A c \in Conns : (f[c] = conn[c] /\ conn[c].to # p) \/ f[c].st = "over"
  <2>1. \A r \in Connection : [r EXCEPT !.st = "over"].st = "over" BY DEF Connection
  <2> QED BY <1>1, <2>1
<1>4. conn' = Settle(f, using') BY DEF Crash
<1> HIDE DEF f
<1>5. /\ conn' \in [Conns -> Connection]
      /\ \A c \in Conns : conn'[c] = f[c] \/ conn'[c] = Free
  BY <1>2, <1>4, SettleFacts
<1>6. Free.st = "free" /\ "free" \notin Section /\ "over" \notin Section BY DEF Free, Section
<1>7. ASSUME NEW d \in Conns, conn'[d].st \notin {"free", "over"}
      PROVE  conn'[d] = conn[d] /\ conn[d].to # p
  BY <1>3, <1>5, <1>6, <1>7
<1>8. /\ up' = [up EXCEPT ![p] = FALSE] /\ listening' = [listening EXCEPT ![p] = FALSE]
      /\ network' = [network EXCEPT ![p] = <<>>] /\ mutex' = [mutex EXCEPT ![p] = None]
      /\ client' = [client EXCEPT ![p] = "none"] /\ using' = [using EXCEPT ![p] = None]
      /\ crashes' = crashes + 1 /\ stolen' = stolen \ {p} /\ UNCHANGED <<ticks, gets>>
      /\ crashes < MaxCrashes
  BY DEF Crash
<1>9. ASSUME NEW r \in Peers, r # p
      PROVE  /\ up'[r] = up[r] /\ listening'[r] = listening[r] /\ network'[r] = network[r]
             /\ mutex'[r] = mutex[r] /\ client'[r] = client[r] /\ using'[r] = using[r]
             /\ (r \in stolen' <=> r \in stolen)
  BY <1>1, <1>8, <1>9 DEF TypeOK
<1>10. TypeOK'
  <2>1. \A c \in Conns : conn'[c].st \in States BY <1>5 DEF Connection
  <2>2. up' \in [Peers -> BOOLEAN] /\ listening' \in [Peers -> BOOLEAN]
    BY <1>1, <1>8, Zenon DEF TypeOK
  <2>3. network' \in [Peers -> Seq(Known)]
    <3>1. <<>> \in Seq(Known) BY EmptySeq
    <3> QED BY <1>1, <1>8, <3>1 DEF TypeOK
  <2>4. \A r \in Peers : up'[r] => network'[r] # <<>> /\ network'[r][1] = Own(r)
    BY <1>1, <1>8 DEF TypeOK
  <2>5. crashes' \in 0 .. MaxCrashes BY <1>1, <1>8, BoundsAssumption DEF TypeOK
  <2>6. /\ mutex' \in [Peers -> Conns \cup {None}] /\ using' \in [Peers -> Conns \cup {None}]
        /\ client' \in [Peers -> {"none", "start", "register", "ready", "get", "dead"}]
    BY <1>1, <1>8 DEF TypeOK
  <2>7. stolen' \subseteq Peers BY <1>1, <1>8 DEF TypeOK
  <2> QED BY <1>1, <1>8, <2>1, <2>2, <2>3, <2>4, <2>5, <2>6, <2>7 DEF TypeOK
<1>11. ASSUME NEW d \in Conns PROVE Sound(conn[d])'
  <2> SUFFICES ASSUME conn'[d].st \notin {"free", "over"} PROVE Sound(conn[d])' BY DEF Sound
  <2>1. conn'[d] = conn[d] /\ conn[d].to # p BY <1>7
  <2>2. Sound(conn[d]) BY <1>1 DEF InvConns
  <2>3. conn[d].to \in Peers BY <2>1, <2>2 DEF Sound
  <2>4. up'[conn[d].to] = up[conn[d].to] BY <1>9, <2>1, <2>3
  <2> QED BY <2>1, <2>2, <2>4 DEF Sound
<1>12. ASSUME NEW r \in Peers
       PROVE  /\ listening'[r] => up'[r]
              /\ client'[r] = "none" <=> r = Contact \/ ~up'[r]
              /\ client'[r] \in {"register", "get"} <=> using'[r] # None
  <2>1. CASE r = p
    <3>1. ~up'[r] /\ ~listening'[r] /\ client'[r] = "none" /\ using'[r] = None
      BY <1>1, <1>8, <2>1 DEF TypeOK
    <3> QED BY <3>1
  <2>2. CASE r # p BY <1>1, <1>9, <2>2 DEF InvConns
  <2> QED BY <2>1, <2>2
<1>13. InvConns' BY <1>5, <1>11, <1>12 DEF InvConns
<1>14. ASSUME NEW d \in Conns, conn'[d].st \in Section \cup {"append"}
       PROVE  conn'[d] = conn[d] /\ conn[d].to # p /\ conn[d].to \in Peers
  <2>1. conn'[d].st \notin {"free", "over"} BY <1>6, <1>14
  <2>2. conn'[d] = conn[d] /\ conn[d].to # p BY <1>7, <2>1
  <2>3. Sound(conn[d]) BY <1>1 DEF InvConns
  <2> QED BY <2>1, <2>2, <2>3 DEF Sound
<1>15. InvMutex' BY <1>1, <1>9, <1>14 DEF InvMutex
<1>16. ASSUME NEW r \in Peers PROVE r \in stolen' \/ Distinct(network'[r])
  <2>1. CASE r = p
    <3>1. network'[r] = <<>> /\ DOMAIN <<>> = {} BY <1>1, <1>8, <2>1 DEF TypeOK
    <3> QED BY <3>1 DEF Distinct
  <2>2. CASE r # p BY <1>1, <1>9, <2>2 DEF InvLists
  <2> QED BY <2>1, <2>2
<1>17. ASSUME NEW d \in Conns, conn'[d].st = "append", conn'[d].to \notin stolen'
       PROVE  Newcomer(d)' \notin Addresses(conn[d].to)'
  <2>1. conn'[d] = conn[d] /\ conn[d].to # p /\ conn[d].to \in Peers BY <1>14, <1>17
  <2>2. Newcomer(d)' = Newcomer(d) BY <2>1 DEF Newcomer
  <2>3. network'[conn[d].to] = network[conn[d].to] /\ conn[d].to \notin stolen BY <1>9, <1>17, <2>1
  <2>4. Addresses(conn[d].to)' = Addresses(conn[d].to) BY <2>1, <2>3 DEF Addresses
  <2> QED BY <1>1, <1>17, <2>1, <2>2, <2>3, <2>4 DEF InvLists
<1>18. InvLists' BY <1>16, <1>17 DEF InvLists
<1> QED BY <1>10, <1>13, <1>15, <1>18 DEF InvBase

LEMMA TickBase == ASSUME InvBase, NEW p \in Peers, Tick(p) PROVE InvBase'
<1> DEFINE s == [k \in DOMAIN network[p] |-> IF network[p][k].stamp = "own" THEN network[p][k]
                                             ELSE [network[p][k] EXCEPT !.stamp = "old"]]
<1>1. /\ TypeOK /\ InvConns /\ InvLists /\ network' = [network EXCEPT ![p] = s]
      /\ UNCHANGED <<up, listening, mutex, client, using, conn, crashes, gets, stolen>>
  BY DEF InvBase, Tick
<1>2. /\ network[p] \in Seq(Known) /\ Len(network[p]) \in Nat
      /\ DOMAIN network[p] = 1 .. Len(network[p])
      /\ \A k \in DOMAIN network[p] : network[p][k] \in Known
  BY <1>1, LenProperties, ElementOfSeq DEF TypeOK
<1>3. /\ s \in [1 .. Len(network[p]) -> Known]
      /\ \A k \in DOMAIN network[p] : s[k].addr = network[p][k].addr
      /\ \A k \in DOMAIN network[p] : network[p][k].stamp = "own" => s[k] = network[p][k]
  BY <1>2 DEF Known
<1>4. s \in Seq(Known) BY <1>2, <1>3, SeqDef
<1>5. DOMAIN s = DOMAIN network[p] OBVIOUS
<1> HIDE DEF s
<1>6. up[p] => s # <<>> /\ s[1] = Own(p)
  <2> SUFFICES ASSUME up[p] PROVE s # <<>> /\ s[1] = Own(p) OBVIOUS
  <2>1. network[p] # <<>> /\ network[p][1] = Own(p) BY <1>1 DEF TypeOK
  <2>2. 1 \in DOMAIN network[p] BY <1>2, <2>1, EmptySeq
  <2>3. Own(p).stamp = "own" /\ DOMAIN <<>> = {} BY DEF Own
  <2> QED BY <1>3, <1>5, <2>1, <2>2, <2>3
<1>7. ASSUME NEW r \in Peers
      PROVE  /\ r \in stolen \/ Distinct(network'[r])
             /\ \A k \in DOMAIN network'[r] : network'[r][k].addr \in Addresses(r)
  <2>1. CASE r = p
    <3>1. network'[r] = s BY <1>1, <2>1 DEF TypeOK
    <3>2. Distinct(network[p]) => Distinct(s) BY <1>3, <1>5 DEF Distinct
    <3>3. \A k \in DOMAIN s : s[k].addr \in Addresses(p) BY <1>3, <1>5 DEF Addresses
    <3> QED BY <1>1, <2>1, <3>1, <3>2, <3>3 DEF InvLists
  <2>2. CASE r # p
    <3>1. network'[r] = network[r] BY <1>1, <2>2 DEF TypeOK
    <3> QED BY <1>1, <3>1 DEF InvLists, Addresses
  <2> QED BY <2>1, <2>2
<1>8. TypeOK'
  <2>1. network' \in [Peers -> Seq(Known)] BY <1>1, <1>4 DEF TypeOK
  <2>2. \A r \in Peers : up[r] => network'[r] # <<>> /\ network'[r][1] = Own(r)
    BY <1>1, <1>6 DEF TypeOK
  <2>3. ticks' \in 0 .. MaxTicks BY <1>1, BoundsAssumption DEF Tick, TypeOK
  <2> QED BY <1>1, <2>1, <2>2, <2>3 DEF TypeOK
<1>9. InvConns' BY <1>1 DEF InvConns, Sound
<1> QED BY <1>1, <1>7, <1>8, <1>9, BaseOutside

-----------------------------------------------------------------------------
(* Every step keeps the base invariant. *)
LEMMA StepBase == InvBase /\ [Next]_vars => InvBase'
<1> SUFFICES ASSUME InvBase, [Next]_vars PROVE InvBase' OBVIOUS
<1>1. ASSUME NEW p \in Peers, Boot(p) \/ Listen(p) \/ Crash(p) \/ Tick(p) PROVE InvBase'
  BY <1>1, BootBase, ListenBase, CrashBase, TickBase
<1>2. ASSUME NEW p \in Peers, Client(p) \/ ClientGet(p) PROVE InvBase'
  BY <1>2, ClientRegisterBase, ClientRegisteredBase, ClientAnsweredBase, ClientGetBase DEF Client
<1>3. ASSUME NEW c \in Conns, Handler(c) PROVE InvBase'
  BY <1>3, BeginBase, EndBase, LookBase, SearchBase, ReplyBase, RemoveBase, AppendBase DEF Handler
<1>4. CASE UNCHANGED vars
  <2>1. TypeOK' BY <1>4 DEF vars, InvBase, TypeOK
  <2>2. InvConns' BY <1>4 DEF vars, InvBase, InvConns, Sound
  <2>3. InvMutex' BY <1>4 DEF vars, InvBase, InvMutex
  <2>4. InvLists' BY <1>4 DEF vars, InvBase, InvLists, Newcomer, Addresses
  <2> QED BY <2>1, <2>2, <2>3, <2>4 DEF InvBase
<1> QED BY <1>1, <1>2, <1>3, <1>4 DEF Next

(* Whatever peers join, crash or fall silent, and whatever a mutex is released twice: a handler
   that runs is one of a peer that is up, a client waits exactly when its connection is there to
   be read, a handler in a section holds the mutex unless it was stolen, and then it is not on
   the way to add a peer to the list a second time (peer.py:95-98, 101-141, 209-224, 296-300). *)
THEOREM BaseInvariant == Spec => []InvBase
<1>1. Init => InvBase BY InitBase
<1>2. InvBase /\ [Next]_vars => InvBase' BY StepBase
<1> QED BY <1>1, <1>2, PTL DEF Spec

(* No list has a peer twice as long as no thread has released its mutex for another, for any
   number of peers, connections and crashes (peer.py:213-221, 296-300, 599-612). *)
THEOREM NothingTwice == Spec => []NoDuplicates
<1>1. ASSUME InvBase PROVE NoDuplicates
  <2> SUFFICES ASSUME NEW p \in Peers, p \notin stolen
               PROVE  Cardinality(Addresses(p)) = Len(network[p])
    BY DEF NoDuplicates
  <2> DEFINE L == Len(network[p])
             f == [k \in 1 .. L |-> network[p][k].addr]
  <2>1. L \in Nat /\ DOMAIN network[p] = 1 .. L BY <1>1, LenProperties DEF InvBase, TypeOK
  <2>2. \A i, j \in 1 .. L : network[p][i].addr = network[p][j].addr => i = j
    BY <1>1, <2>1 DEF InvBase, InvLists, Distinct
  <2>3. Addresses(p) = {network[p][k].addr : k \in 1 .. L} BY <2>1 DEF Addresses
  <2> HIDE DEF L
  <2>4. f \in Bijection(1 .. L, Addresses(p))
    <3>1. f \in [1 .. L -> Addresses(p)] BY <2>3
    <3>2. IsInjective(f) BY <2>2 DEF IsInjective
    <3>3. \A t \in Addresses(p) : \E k \in 1 .. L : f[k] = t BY <2>3
    <3> HIDE DEF f
    <3> QED BY <3>1, <3>2, <3>3 DEF Bijection, Injection, Surjection
  <2>5. IsFiniteSet(1 .. L) /\ Cardinality(1 .. L) = L
    BY <2>1, FS_Interval
  <2>6. ExistsBijection(1 .. L, Addresses(p)) BY <2>4 DEF ExistsBijection
  <2> HIDE DEF f
  <2>7. Cardinality(1 .. L) = Cardinality(Addresses(p)) BY <2>5, <2>6, FS_Bijection
  <2> QED BY <2>5, <2>7 DEF L
<1> QED BY <1>1, BaseInvariant, PTL

-----------------------------------------------------------------------------
(* The order of the registrations, as long as nothing is disturbed.        *)

(* Whose connection a client thread waits on: its own, so no two wait on the same. *)
LEMMA UsingFacts ==
  ASSUME InvBase, ClientsOK
  PROVE  /\ \A p \in Peers : using[p] # None =>
               /\ using[p] \in Conns /\ client[p] \in {"register", "get"}
               /\ conn[using[p]].from = p /\ conn[using[p]].cmd = client[p]
               /\ conn[using[p]].st # "free"
         /\ \A p, q \in Peers : using[p] # None /\ using[p] = using[q] => p = q
         /\ client[Contact] = "none" /\ using[Contact] = None
<1>1. \A p \in Peers : using[p] # None =>
               /\ using[p] \in Conns /\ client[p] \in {"register", "get"}
               /\ conn[using[p]].from = p /\ conn[using[p]].cmd = client[p]
               /\ conn[using[p]].st # "free"
  BY DEF InvBase, InvConns, TypeOK, ClientsOK
<1>2. client[Contact] = "none" /\ using[Contact] = None
  BY ContactAssumption DEF InvBase, InvConns, TypeOK
<1> QED BY <1>1, <1>2

(* The contact comes first in its own list, which names whoever has registered. *)
LEMMA ContactFirst ==
  ASSUME InvBase, up[Contact]
  PROVE  /\ network[Contact] \in Seq(Known) /\ Len(network[Contact]) \in Nat
         /\ DOMAIN network[Contact] = 1 .. Len(network[Contact])
         /\ 1 \in DOMAIN network[Contact] /\ network[Contact][1].addr = Contact
         /\ Registered(Contact)
<1>1. network[Contact] \in Seq(Known) /\ network[Contact] # <<>> /\ network[Contact][1] = Own(Contact)
  BY ContactAssumption DEF InvBase, TypeOK
<1>2. 1 \in DOMAIN network[Contact] BY <1>1, LenProperties, EmptySeq
<1>3. Own(Contact).addr = Contact BY DEF Own
<1> QED BY <1>1, <1>2, <1>3, LenProperties DEF Registered, Addresses

(* At the beginning nobody is registered but the contact. *)
LEMMA InitOrder == Init => InvOrder
<1> SUFFICES ASSUME Init PROVE OrderParts BY DEF InvOrder
<1>1. /\ network[Contact] = <<Own(Contact)>> /\ DOMAIN <<Own(Contact)>> = {1}
      /\ <<Own(Contact)>>[1] = Own(Contact) /\ Own(Contact).addr = Contact
      /\ Own(Contact).stamp = "own" /\ DOMAIN <<>> = {}
      /\ \A p \in Peers \ {Contact} : network[p] = <<>>
  BY ContactAssumption DEF Init, Own
<1>2. Free.st = "free" BY DEF Free
<1>3. \A c \in Conns : conn[c] = Free BY DEF Init
<1>4. HoldersOK BY <1>2, <1>3 DEF Init, HoldersOK
<1>5. HandlersOK BY <1>2, <1>3 DEF HandlersOK, Active
<1>6. Addresses(Contact) = {Contact} BY <1>1 DEF Addresses
<1>7. ClientsOK BY <1>6 DEF Init, ClientsOK, Registered
<1>8. OrderOK
  <2>1. up[Contact] BY ContactAssumption DEF Init
  <2>2. \A i, j \in DOMAIN network[Contact] : ~(i < j) BY <1>1
  <2>3. \A p \in Peers : \A k \in DOMAIN network[p] : network[p][k].stamp # "old"
    <3> SUFFICES ASSUME NEW p \in Peers, NEW k \in DOMAIN network[p]
                 PROVE  network[p][k].stamp # "old"
      OBVIOUS
    <3>1. p = Contact BY <1>1
    <3> QED BY <1>1, <3>1
  <2> QED BY <2>1, <2>2, <2>3 DEF OrderOK
<1> QED BY <1>4, <1>5, <1>7, <1>8 DEF OrderParts

(* The list of the contact stays, and nobody in it is told of less. *)
LEMMA OrderKept ==
  ASSUME OrderOK, up'[Contact], network'[Contact] = network[Contact],
         \A q \in Addresses(Contact) : Told(q) \subseteq Told(q)',
         \A p \in Peers : \A k \in DOMAIN network'[p] : network'[p][k].stamp # "old"
  PROVE  OrderOK'
<1>1. ASSUME NEW i \in DOMAIN network'[Contact], NEW j \in DOMAIN network'[Contact], i < j
      PROVE  network'[Contact][i].addr \in Told(network[Contact][j].addr)'
  <2>1. PICK q : q = network[Contact][j].addr OBVIOUS
  <2>2. q \in Addresses(Contact) BY <2>1 DEF Addresses
  <2>3. network[Contact][i].addr \in Told(network[Contact][j].addr) BY <1>1 DEF OrderOK
  <2>4. network[Contact][i].addr \in Told(q) BY <2>1, <2>3
  <2>5. network[Contact][i].addr \in Told(q)' BY <2>2, <2>4
  <2>6. network'[Contact][j].addr = q BY <2>1
  <2>7. network'[Contact][i].addr \in Told(q)' BY <2>5
  <2> QED BY <2>6, <2>7 DEF Told, Reported, Addresses
<1> QED BY <1>1 DEF OrderOK

(* As long as nothing is disturbed, mutexes stay with their holders: who gives one back has it,
   and whoever else fails while telling keeps its own. *)
LEMMA HoldersKept ==
  ASSUME InvBase, HoldersOK, NEW c \in Conns, NEW r, MovesTo(c, r), stolen' = {}, conn[c].to \in Peers,
         \/ /\ UNCHANGED mutex
            /\ r.st = "unwind" => mutex[conn[c].to] = c
         \/ /\ mutex[conn[c].to] \in {None, c} /\ r.st # "unwind"
            /\ \E v : mutex' = [mutex EXCEPT ![conn[c].to] = v]
  PROVE  HoldersOK'
<1> SUFFICES ASSUME NEW d \in Conns, conn'[d].st = "unwind" PROVE mutex'[conn'[d].to] = d
  BY DEF HoldersOK
<1>1. CASE d = c
  <2>1. conn'[c] = r /\ r.to = conn[c].to BY <1>1, OwnMoves DEF MovesTo, Heads
  <2> QED BY <1>1, <2>1
<1>2. CASE d # c
  <2>1. conn'[d] = conn[d] BY <1>2, OthersStay
  <2>2. mutex[conn[d].to] = d BY <2>1 DEF HoldersOK
  <2>3. mutex[conn[c].to] \in {None, c} => conn[d].to # conn[c].to BY <1>2, <2>2, ConnsAssumption
  <2>4. conn[d].to \in Peers BY <2>1 DEF InvBase, InvConns, Sound
  <2>5. mutex \in [Peers -> Conns \cup {None}] BY DEF InvBase, TypeOK
  <2>6. mutex'[conn[d].to] = mutex[conn[d].to]
    <3>1. CASE UNCHANGED mutex BY <3>1
    <3>2. CASE /\ mutex[conn[c].to] \in {None, c}
               /\ \E v : mutex' = [mutex EXCEPT ![conn[c].to] = v]
      BY <2>3, <2>4, <2>5, <3>2
    <3> QED BY <3>1, <3>2
  <2> QED BY <2>1, <2>2, <2>6
<1> QED BY <1>1, <1>2

(* A handler step keeps the order of the registrations if it only moves its own on. *)
LEMMA HandlerOrder ==
  ASSUME InvBase, OrderParts, NEW c \in Conns, NEW r, MovesTo(c, r), HoldersOK',
         conn[c].cmd = "register" /\ r.st # "over" => RegistrationOK(r, c),
         conn[c].cmd = "register" /\ using[conn[c].from] = c /\ r.replies # <<>> =>
           Head(r.replies) = "ok" /\ Registered(conn[c].from),
         conn[c].cmd = "register" => Reported(conn[c]) \subseteq Reported(r),
         conn[c].cmd # "register" => r.st \notin {"unwind", "failed"},
         r.st = "remove" => r.todo = <<>>,
         r.st = "over" => r.replies # <<>> \/ conn[c].cmd = "inform",
         network'[Contact] = network[Contact],
         \A q \in Peers : \A k \in DOMAIN network[q] : network[q][k].addr \in Addresses(q)',
         \A p \in Peers : \A k \in DOMAIN network'[p] : network'[p][k].stamp # "old"
  PROVE  OrderParts'
<1>1. HandlersOK /\ ClientsOK /\ OrderOK BY DEF OrderParts
<1>2. UNCHANGED <<up, client, using>> BY DEF MovesTo, serverUnchanged
<1>3. /\ Addresses(Contact)' = Addresses(Contact) /\ \A q : Registered(q)' <=> Registered(q)
  BY DEF Registered, Addresses
<1>4. Free.st = "free" BY DEF Free
<1>5. Heads(r, conn[c]) /\ r.st # "free" /\ Active(c) BY DEF MovesTo
<1>6. ASSUME NEW p \in Peers, using[p] # None
      PROVE  /\ using[p] \in Conns
             /\ conn'[using[p]] = IF using[p] = c THEN r ELSE conn[using[p]]
  <2>1. using[p] \in Conns /\ conn[using[p]].st # "free" BY <1>1, <1>6, UsingFacts
  <2> QED BY <2>1 DEF MovesTo, Tells
<1>7. HandlersOK'
  <2> SUFFICES ASSUME NEW d \in Conns, conn'[d].st \notin {"free", "over"}
               PROVE  /\ conn'[d].cmd = "register" => RegistrationOK(conn[d], d)'
                      /\ conn'[d].cmd = "inform" => conn'[d].to # Contact
                      /\ conn'[d].cmd # "register" => conn'[d].st \notin {"unwind", "failed"}
                      /\ conn'[d].st = "remove" => conn'[d].todo = <<>>
    BY DEF HandlersOK, Active
  <2>1. CASE d = c /\ conn'[d] = r
    <3>1. conn'[d].cmd = "register" => RegistrationOK(conn[d], d)'
      <4> SUFFICES ASSUME conn'[d].cmd = "register" PROVE RegistrationOK(conn[d], d)' OBVIOUS
      <4>1. RegistrationOK(r, c) BY <1>5, <2>1 DEF Heads
      <4> QED BY <1>2, <1>3, <2>1, <4>1 DEF RegistrationOK
    <3>2. conn[c].cmd = "inform" => conn[c].to # Contact BY <1>1, <1>5 DEF HandlersOK
    <3> QED BY <1>5, <2>1, <3>1, <3>2 DEF Heads
  <2>2. CASE d # c /\ conn'[d] = conn[d]
    <3>1. Active(d) BY <2>2 DEF Active
    <3>2. RegistrationOK(conn[d], d) => RegistrationOK(conn[d], d)'
      BY <1>2, <1>3, <2>2 DEF RegistrationOK
    <3> QED BY <1>1, <2>2, <3>1, <3>2 DEF HandlersOK
  <2>3. CASE Tells(c, d)
    <3>1. conn[c].st = "telling" /\ conn'[d].st = "request" /\ conn'[d].cmd = "inform"
          /\ conn'[d].to # conn[c].to
      BY <2>3 DEF Tells
    <3>2. conn[c].cmd = "register" BY <3>1 DEF InvBase, InvConns, Sound
    <3>3. conn[c].to = Contact BY <1>1, <1>5, <3>2 DEF HandlersOK, RegistrationOK
    <3> QED BY <3>1, <3>3
  <2> QED BY <1>4, <2>1, <2>2, <2>3 DEF MovesTo
<1>8. ClientsOK'
  <2> SUFFICES ASSUME NEW p \in Peers
               PROVE  /\ client[p] \in {"register", "get"} =>
                           /\ conn'[using[p]].from = p /\ conn'[using[p]].cmd = client[p]
                           /\ conn'[using[p]].st # "free"
                           /\ conn'[using[p]].st # "over" \/ conn'[using[p]].replies # <<>>
                      /\ client[p] = "register" /\ conn'[using[p]].replies # <<>> =>
                           Head(conn'[using[p]].replies) = "ok" /\ Registered(p)
                      /\ client[p] \in {"ready", "get"} => Registered(p)
                      /\ client[p] \in {"none", "start"} => p = Contact \/ ~Registered(p)
    BY <1>2, <1>3 DEF ClientsOK
  <2>1. CASE client[p] \notin {"register", "get"} BY <1>1, <2>1 DEF ClientsOK
  <2>2. CASE client[p] \in {"register", "get"}
    <3>1. using[p] # None BY <2>2 DEF InvBase, InvConns
    <3>2. CASE using[p] # c
      <4>1. conn'[using[p]] = conn[using[p]] BY <1>6, <3>1, <3>2
      <4> QED BY <1>1, <4>1 DEF ClientsOK
    <3>3. CASE using[p] = c
      <4>1. conn'[using[p]] = r BY <1>6, <3>1, <3>3
      <4>2. conn[c].from = p /\ conn[c].cmd = client[p] BY <1>1, <2>2, <3>3 DEF ClientsOK
      <4>3. client[p] = "register" /\ r.replies # <<>> => Head(r.replies) = "ok" /\ Registered(p)
        BY <3>3, <4>2
      <4>4. client[p] = "get" => Registered(p) BY <1>1 DEF ClientsOK
      <4> QED BY <1>5, <2>2, <4>1, <4>2, <4>3, <4>4 DEF Heads
    <3> QED BY <3>2, <3>3
  <2> QED BY <2>1, <2>2
<1>9. ASSUME NEW q \in Addresses(Contact) PROVE Told(q) \subseteq Told(q)'
  <2>1. q \in Peers BY AddressListFacts, ContactAssumption DEF InvBase
  <2>2. CASE client[q] = "register"
    <3>1. using[q] # None BY <2>1, <2>2 DEF InvBase, InvConns
    <3>2. Told(q) = Reported(conn[using[q]]) BY <2>2 DEF Told
    <3>3. CASE using[q] # c
      <4>1. conn'[using[q]] = conn[using[q]] BY <1>6, <2>1, <3>1, <3>3
      <4> QED BY <1>2, <1>3, <2>2, <4>1 DEF Told, Reported
    <3>4. CASE using[q] = c
      <4>1. conn'[using[q]] = r BY <1>6, <2>1, <3>1, <3>4
      <4>2. conn[c].cmd = "register" BY <1>1, <2>1, <2>2, <3>4 DEF ClientsOK
      <4>3. Told(q)' = Reported(r) BY <1>2, <1>3, <2>2, <4>1 DEF Told, Reported
      <4> QED BY <3>2, <3>4, <4>2, <4>3
    <3> QED BY <3>3, <3>4
  <2>3. CASE client[q] # "register"
    <3>1. Told(q) = Addresses(q) /\ Told(q)' = Addresses(q)' BY <1>2, <2>3 DEF Told, Addresses
    <3>2. Addresses(q) \subseteq Addresses(q)' BY <2>1 DEF Addresses
    <3> QED BY <3>1, <3>2
  <2> QED BY <2>2, <2>3
<1>10. OrderOK'
  <2>1. up'[Contact] BY <1>1, <1>2 DEF OrderOK
  <2> QED BY <1>1, <1>9, <2>1, OrderKept
<1> QED BY <1>7, <1>8, <1>10 DEF OrderParts

(* What a step of the client thread of p does to connections: it opens one for its request, or
   leaves the one that it has read its reply from. *)
Requests(p, d) == /\ conn[d].st = "free" /\ using'[p] = d /\ client'[p] \in {"register", "get"}
                  /\ conn'[d].from = p /\ conn'[d].cmd = client'[p] /\ conn'[d].st = "request"
                  /\ conn'[d].replies = <<>>
                  /\ client'[p] = "register" => conn'[d].to = Contact /\ ~Registered(p)

(* A step of the client thread of p, or the start of p, leaves the other peers in order. *)
LEMMA ClientOrder ==
  ASSUME InvBase, OrderParts, NEW p \in Peers \ {Contact}, UNCHANGED <<mutex, stolen>>,
         \A d \in Conns : \/ conn'[d] = conn[d]
                          \/ conn'[d] = Free /\ conn[d].st = "over" /\ \A q \in Peers : using'[q] # d
                          \/ Requests(p, d),
         using[p] # None => using'[p] = None /\ conn[using[p]].replies # <<>>,
         \A q \in Peers \ {p} : using'[q] = using[q] /\ client'[q] = client[q] /\ network'[q] = network[q],
         client'[p] \in {"register", "get"} => using'[p] \in Conns /\ Requests(p, using'[p]),
         client'[p] \in {"ready", "get"} => Registered(p),
         client'[p] \in {"none", "start"} => ~Registered(p),
         Registered(p) => Told(p) \subseteq Told(p)',
         \A k \in DOMAIN network'[p] : network'[p][k].stamp # "old",
         up'[Contact]
  PROVE  OrderParts'
<1>1. HoldersOK /\ HandlersOK /\ ClientsOK /\ OrderOK BY DEF OrderParts
<1>2. network'[Contact] = network[Contact] BY ContactAssumption
<1>3. /\ Addresses(Contact)' = Addresses(Contact) /\ \A q : Registered(q)' <=> Registered(q)
  BY <1>2 DEF Registered, Addresses
<1>4. Free.st = "free" BY DEF Free
<1>5. ASSUME NEW q \in Peers \ {p}, using[q] # None
      PROVE  using[q] \in Conns /\ conn'[using[q]] = conn[using[q]] /\ conn[using[q]].from = q
  <2>1. using[q] \in Conns /\ conn[using[q]].st # "free" /\ conn[using[q]].from = q
    BY <1>1, <1>5, UsingFacts
  <2>2. using'[q] = using[q] OBVIOUS
  <2> QED BY <2>1, <2>2 DEF Requests
<1>6. HandlersOK'
  <2> SUFFICES ASSUME NEW d \in Conns, conn'[d].st \notin {"free", "over"}
               PROVE  /\ conn'[d].cmd = "register" => RegistrationOK(conn[d], d)'
                      /\ conn'[d].cmd = "inform" => conn'[d].to # Contact
                      /\ conn'[d].cmd # "register" => conn'[d].st \notin {"unwind", "failed"}
                      /\ conn'[d].st = "remove" => conn'[d].todo = <<>>
    BY DEF HandlersOK, Active
  <2>1. CASE conn'[d] = conn[d]
    <3>1. Active(d) BY <2>1 DEF Active
    <3>2. ASSUME conn[d].cmd = "register" PROVE RegistrationOK(conn[d], d)'
      <4>1. RegistrationOK(conn[d], d) BY <1>1, <3>1, <3>2 DEF HandlersOK
      <4>2. conn[d].from \in Peers BY <3>1 DEF InvBase, InvConns, Sound, Active
      <4>3. ASSUME conn[d].st \notin {"inform", "telling", "unwind", "failed"}
            PROVE  using'[conn[d].from] = d /\ conn[d].replies = <<>>
        <5>1. using[conn[d].from] = d /\ conn[d].replies = <<>> BY <4>1, <4>3 DEF RegistrationOK
        <5>2. d # None BY ConnsAssumption
        <5>3. conn[d].from # p BY <5>1, <5>2
        <5> QED BY <4>2, <5>1, <5>3
      <4> QED BY <1>3, <2>1, <4>1, <4>3 DEF RegistrationOK
    <3> QED BY <1>1, <2>1, <3>1, <3>2 DEF HandlersOK
  <2>2. CASE Requests(p, d)
    <3>1. conn'[d].cmd = "register" => RegistrationOK(conn[d], d)'
      BY <1>3, <2>2 DEF Requests, RegistrationOK
    <3> QED BY <2>2, <3>1 DEF Requests
  <2> QED BY <1>4, <2>1, <2>2
<1>7. ClientsOK'
  <2> SUFFICES ASSUME NEW q \in Peers
               PROVE  /\ client'[q] \in {"register", "get"} =>
                           /\ conn'[using'[q]].from = q /\ conn'[using'[q]].cmd = client'[q]
                           /\ conn'[using'[q]].st # "free"
                           /\ conn'[using'[q]].st # "over" \/ conn'[using'[q]].replies # <<>>
                      /\ client'[q] = "register" /\ conn'[using'[q]].replies # <<>> =>
                           Head(conn'[using'[q]].replies) = "ok" /\ Registered(q)
                      /\ client'[q] \in {"ready", "get"} => Registered(q)
                      /\ client'[q] \in {"none", "start"} => q = Contact \/ ~Registered(q)
    BY <1>3 DEF ClientsOK
  <2>1. CASE q = p BY <2>1 DEF Requests
  <2>2. CASE q # p
    <3>1. using'[q] = using[q] /\ client'[q] = client[q] BY <2>2
    <3>2. CASE client[q] \in {"register", "get"}
      <4>1. using[q] # None BY <3>2 DEF InvBase, InvConns
      <4>2. conn'[using[q]] = conn[using[q]] BY <1>5, <2>2, <4>1
      <4> QED BY <1>1, <3>1, <4>2 DEF ClientsOK
    <3>3. CASE client[q] \notin {"register", "get"} BY <1>1, <3>1, <3>3 DEF ClientsOK
    <3> QED BY <3>2, <3>3
  <2> QED BY <2>1, <2>2
<1>8. ASSUME NEW q \in Addresses(Contact) PROVE Told(q) \subseteq Told(q)'
  <2>1. q \in Peers BY AddressListFacts, ContactAssumption DEF InvBase
  <2>2. CASE q = p BY <2>2 DEF Registered
  <2>3. CASE q # p
    <3>1. client'[q] = client[q] /\ using'[q] = using[q] /\ network'[q] = network[q] BY <2>1, <2>3
    <3>2. CASE client[q] = "register"
      <4>1. using[q] # None BY <2>1, <3>2 DEF InvBase, InvConns
      <4>2. conn'[using[q]] = conn[using[q]] BY <1>5, <2>1, <2>3, <4>1
      <4> QED BY <1>3, <3>1, <3>2, <4>2 DEF Told, Reported
    <3>3. CASE client[q] # "register" BY <3>1, <3>3 DEF Told, Addresses
    <3> QED BY <3>2, <3>3
  <2> QED BY <2>2, <2>3
<1>9. \A r \in Peers : \A k \in DOMAIN network'[r] : network'[r][k].stamp # "old"
  <2> SUFFICES ASSUME NEW r \in Peers, NEW k \in DOMAIN network'[r] PROVE network'[r][k].stamp # "old"
    OBVIOUS
  <2>1. CASE r = p BY <2>1
  <2>2. CASE r # p
    <3>1. network'[r] = network[r] BY <2>2
    <3> QED BY <1>1, <3>1 DEF OrderOK
  <2> QED BY <2>1, <2>2
<1>10. OrderOK' BY <1>1, <1>2, <1>8, <1>9, OrderKept
<1>11. HoldersOK'
  <2>1. \A d \in Conns : conn'[d].st = "unwind" => conn'[d] = conn[d] BY <1>4 DEF Requests
  <2> QED BY <1>1, <2>1 DEF HoldersOK
<1> QED BY <1>6, <1>7, <1>10, <1>11 DEF OrderParts

(* A request that is sent, or one that cannot be. *)
LEMMA ConnectOrder ==
  ASSUME InvBase, OrderParts, NEW p \in Peers \ {Contact}, NEW q \in Peers, NEW cmd \in {"register", "get"},
         ClientConnect(p, q, cmd), client[p] \in {"start", "ready"},
         cmd = "register" => q = Contact /\ ~Registered(p),
         cmd = "get" => client[p] = "ready" /\ Registered(p)
  PROVE  OrderParts'
<1>1. /\ TypeOK /\ conn \in [Conns -> Connection] /\ OrderOK /\ network' = network /\ up' = up
      /\ UNCHANGED <<mutex, stolen>>
  BY DEF InvBase, InvConns, OrderParts, ClientConnect
<1>2. using[p] = None BY DEF InvBase, InvConns
<1>3. \A r \in Peers : \A k \in DOMAIN network'[r] : network'[r][k].stamp # "old"
  BY <1>1 DEF OrderOK
<1>4. up'[Contact] BY <1>1 DEF OrderOK
<1>5. CASE listening[q]
  <2> DEFINE c == NextConn
             r == Request(p, q, cmd, None)
  <2>1. /\ FreeConns # {} /\ conn' = [conn EXCEPT ![c] = r]
        /\ using' = [using EXCEPT ![p] = c] /\ client' = [client EXCEPT ![p] = cmd]
    BY <1>5 DEF ClientConnect
  <2>2. c \in Conns /\ conn[c].st = "free" BY <2>1, NextConnFree
  <2> HIDE DEF c
  <2>3. /\ conn'[c] = r /\ \A d \in Conns \ {c} : conn'[d] = conn[d]
        /\ using'[p] = c /\ client'[p] = cmd
        /\ \A s \in Peers \ {p} : using'[s] = using[s] /\ client'[s] = client[s]
    BY <1>1, <2>1, <2>2 DEF TypeOK
  <2>4. /\ r.st = "request" /\ r.from = p /\ r.to = q /\ r.cmd = cmd /\ r.replies = <<>>
    BY DEF Request, Free
  <2> HIDE DEF r
  <2>5. Requests(p, c) BY <2>2, <2>3, <2>4 DEF Requests
  <2>6. Registered(p) => Told(p) \subseteq Told(p)'
    <3> SUFFICES ASSUME Registered(p) PROVE Told(p) \subseteq Told(p)' OBVIOUS
    <3>1. client[p] = "ready" /\ client'[p] = "get" BY <2>3
    <3> QED BY <1>1, <3>1 DEF Told, Addresses
  <2> QED BY <1>1, <1>2, <1>3, <1>4, <2>2, <2>3, <2>5, <2>6, ClientOrder
<1>6. CASE ~listening[q]
  <2>1. client' = [client EXCEPT ![p] = "dead"] /\ UNCHANGED <<conn, using>>
    BY <1>6 DEF ClientConnect
  <2>2. client'[p] = "dead" /\ \A s \in Peers \ {p} : client'[s] = client[s] BY <1>1, <2>1 DEF TypeOK
  <2>3. Told(p) \subseteq Told(p)' BY <1>1, <2>2 DEF Told, Addresses
  <2> QED BY <1>1, <1>2, <1>3, <1>4, <2>1, <2>2, <2>3, ClientOrder
<1> QED BY <1>5, <1>6

LEMMA ClientRegisterOrder ==
  ASSUME InvBase, OrderParts, NEW p \in Peers, ClientRegister(p) PROVE OrderParts'
<1>1. client[p] = "start" BY DEF ClientRegister
<1>2. p # Contact BY <1>1 DEF InvBase, InvConns
<1>3. ~Registered(p) BY <1>1, <1>2 DEF OrderParts, ClientsOK
<1>4. ClientConnect(p, Contact, "register") /\ "register" \in {"register", "get"} BY DEF ClientRegister
<1> QED BY <1>1, <1>2, <1>3, <1>4, ContactAssumption, ConnectOrder

LEMMA ClientGetOrder ==
  ASSUME InvBase, OrderParts, NEW p \in Peers, ClientGet(p) PROVE OrderParts'
<1>1. client[p] = "ready" BY DEF ClientGet
<1>2. p # Contact BY <1>1 DEF InvBase, InvConns
<1>3. Registered(p) BY <1>1 DEF OrderParts, ClientsOK
<1>4. ASSUME NEW q \in Addresses(p) \ {p}, ClientConnect(p, q, "get") PROVE OrderParts'
  <2>1. q \in Peers BY AddressListFacts DEF InvBase
  <2>2. "get" \in {"register", "get"} OBVIOUS
  <2> QED BY <1>1, <1>2, <1>3, <1>4, <2>1, <2>2, ConnectOrder
<1>5. CASE /\ client' = [client EXCEPT ![p] = "dead"]
           /\ UNCHANGED <<up, listening, network, mutex, using, conn, crashes, ticks, stolen>>
  <2>1. TypeOK /\ OrderOK /\ using[p] = None BY <1>1 DEF InvBase, InvConns, OrderParts
  <2>2. client'[p] = "dead" /\ \A s \in Peers \ {p} : client'[s] = client[s] BY <1>5, <2>1 DEF TypeOK
  <2>3. Told(p) \subseteq Told(p)' BY <1>1, <1>5, <2>2 DEF Told, Addresses
  <2>4. up'[Contact] /\ \A k \in DOMAIN network'[p] : network'[p][k].stamp # "old"
    BY <1>5, <2>1 DEF OrderOK
  <2> QED BY <1>2, <1>5, <2>1, <2>2, <2>3, <2>4, ClientOrder
<1> QED BY <1>4, <1>5 DEF ClientGet

(* The client thread reads a reply: it keeps its list, or adds what the reply names. *)
LEMMA ClientLeavesOrder ==
  ASSUME InvBase, OrderParts, NEW p \in Peers, client[p] \in {"register", "get"},
         conn[using[p]].replies # <<>>, Registered(p),
         client' = [client EXCEPT ![p] = "ready"], using' = [using EXCEPT ![p] = None],
         conn' = Settle(conn, using'), UNCHANGED <<up, mutex, stolen>>,
         \A q \in Peers \ {p} : network'[q] = network[q],
         Told(p) \subseteq Addresses(p)',
         \A k \in DOMAIN network'[p] : network'[p][k].stamp # "old"
  PROVE  OrderParts'
<1>1. TypeOK /\ OrderOK BY DEF InvBase, OrderParts
<1>2. p # Contact BY DEF InvBase, InvConns
<1>3. \A d \in Conns : \/ conn'[d] = conn[d]
                       \/ conn'[d] = Free /\ conn[d].st = "over" /\ \A q \in Peers : using'[q] # d
  BY DEF Settle
<1>4. /\ client'[p] = "ready" /\ using'[p] = None
      /\ \A q \in Peers \ {p} : using'[q] = using[q] /\ client'[q] = client[q] /\ network'[q] = network[q]
  BY <1>1 DEF TypeOK
<1>5. Told(p) \subseteq Told(p)' BY <1>4 DEF Told, Addresses
<1>6. up'[Contact] BY <1>1 DEF OrderOK
<1>7. /\ client'[p] \notin {"register", "get"} /\ client'[p] \notin {"none", "start"}
      /\ using[p] # None => using'[p] = None /\ conn[using[p]].replies # <<>>
      /\ Registered(p) => Told(p) \subseteq Told(p)'
  BY <1>4, <1>5
<1>8. \A d \in Conns : \/ conn'[d] = conn[d]
                       \/ conn'[d] = Free /\ conn[d].st = "over" /\ \A q \in Peers : using'[q] # d
                       \/ Requests(p, d)
  BY <1>3
<1>9. p \in Peers \ {Contact} BY <1>2
<1>10. /\ client'[p] \in {"register", "get"} => using'[p] \in Conns /\ Requests(p, using'[p])
       /\ client'[p] \in {"ready", "get"} => Registered(p)
       /\ client'[p] \in {"none", "start"} => ~Registered(p)
  BY <1>7
<1> QED BY <1>4, <1>6, <1>7, <1>8, <1>9, <1>10, ClientOrder

LEMMA ClientRegisteredOrder ==
  ASSUME InvBase, OrderParts, NEW p \in Peers, ClientRegistered(p) PROVE OrderParts'
<1>1. /\ client[p] = "register" /\ conn[using[p]].replies # <<>>
      /\ client' = [client EXCEPT ![p] = "ready"] /\ using' = [using EXCEPT ![p] = None]
      /\ conn' = Settle(conn, using') /\ UNCHANGED <<up, mutex, stolen>>
  BY DEF ClientRegistered
<1>2. Head(conn[using[p]].replies) = "ok" /\ Registered(p) BY <1>1 DEF OrderParts, ClientsOK
<1>3. using[p] \in Conns BY <1>1 DEF InvBase, InvConns, TypeOK
<1> DEFINE m == conn[using[p]].payload
           s == Merged(p, m)
<1>4. m \in Seq(Peers) /\ network[p] \in Seq(Known)
  <2>1. conn[using[p]] \in Connection BY <1>3 DEF InvBase, InvConns
  <2> QED BY <2>1 DEF Connection, InvBase, TypeOK
<1>5. /\ \A k \in DOMAIN network[p] : k \in DOMAIN s /\ s[k] = network[p][k]
      /\ \A k \in DOMAIN s : k \in DOMAIN network[p] \/ s[k].stamp = "new"
      /\ \A i \in DOMAIN m : \E k \in DOMAIN s : s[k].addr = m[i]
  <2> HIDE DEF m
  <2>1. /\ Extends(s, network[p])
        /\ \A i \in DOMAIN m : \E k \in DOMAIN s : s[k].addr = m[i]
    BY <1>4, MergedFacts
  <2> HIDE DEF s
  <2> QED BY <2>1 DEF Extends
<1>6. network' = [network EXCEPT ![p] = s] BY <1>2 DEF ClientRegistered
<1>7. Told(p) = {m[i] : i \in DOMAIN m}
  <2>1. conn[using[p]].st # "build"
    <3> SUFFICES ASSUME conn[using[p]].st = "build" PROVE FALSE OBVIOUS
    <3>1. Active(using[p]) /\ conn[using[p]].cmd = "register"
      BY <1>1 DEF Active, OrderParts, ClientsOK
    <3>2. RegistrationOK(conn[using[p]], using[p]) BY <1>3, <3>1 DEF OrderParts, HandlersOK
    <3> QED BY <1>1, <3>2 DEF RegistrationOK
  <2> QED BY <1>1, <2>1 DEF Told, Reported
<1> HIDE DEF s, m
<1>8. network'[p] = s /\ \A q \in Peers \ {p} : network'[q] = network[q]
  BY <1>6 DEF InvBase, TypeOK
<1>9. Told(p) \subseteq Addresses(p)' BY <1>5, <1>7, <1>8 DEF Addresses
<1>10. \A k \in DOMAIN network'[p] : network'[p][k].stamp # "old"
  BY <1>5, <1>8 DEF OrderParts, OrderOK
<1> QED BY <1>1, <1>2, <1>8, <1>9, <1>10, ClientLeavesOrder

LEMMA ClientGotOrder ==
  ASSUME InvBase, OrderParts, NEW p \in Peers, ClientGot(p) PROVE OrderParts'
<1>1. /\ client[p] = "get" /\ conn[using[p]].replies # <<>> /\ network' = network
      /\ client' = [client EXCEPT ![p] = "ready"] /\ using' = [using EXCEPT ![p] = None]
      /\ conn' = Settle(conn, using') /\ UNCHANGED <<up, mutex, stolen>>
  BY DEF ClientGot
<1>2. Registered(p) BY <1>1 DEF OrderParts, ClientsOK
<1>3. Told(p) \subseteq Addresses(p)' BY <1>1 DEF Told, Addresses
<1>4. \A k \in DOMAIN network'[p] : network'[p][k].stamp # "old" BY <1>1 DEF OrderParts, OrderOK
<1> QED BY <1>1, <1>2, <1>3, <1>4, ClientLeavesOrder

LEMMA ClientDroppedOrder ==
  ASSUME InvBase, OrderParts, NEW p \in Peers, ClientDropped(p) PROVE FALSE
BY DEF ClientDropped, InvBase, InvConns, OrderParts, ClientsOK

LEMMA BootOrder == ASSUME InvBase, OrderParts, NEW p \in Peers, Boot(p) PROVE OrderParts'
<1>1. TypeOK /\ OrderOK /\ ~up[p] BY DEF InvBase, OrderParts, Boot
<1>2. p # Contact /\ client[p] = "none" /\ using[p] = None
  BY <1>1 DEF InvBase, InvConns, OrderOK
<1>3. ~Registered(p) BY <1>2 DEF OrderParts, ClientsOK
<1>4. /\ network' = [network EXCEPT ![p] = <<Own(p)>>] /\ client' = [client EXCEPT ![p] = "start"]
      /\ up' = [up EXCEPT ![p] = TRUE] /\ UNCHANGED <<using, conn, mutex, stolen>>
  BY <1>2 DEF Boot
<1>5. /\ network'[p] = <<Own(p)>> /\ client'[p] = "start"
      /\ \A q \in Peers \ {p} : network'[q] = network[q] /\ client'[q] = client[q]
  BY <1>1, <1>4 DEF TypeOK
<1>6. up'[Contact] BY <1>1, <1>2, <1>4, ContactAssumption DEF OrderOK, TypeOK
<1>7. \A k \in DOMAIN network'[p] : network'[p][k].stamp # "old"
  <2>1. DOMAIN <<Own(p)>> = {1} /\ <<Own(p)>>[1].stamp = "own" BY DEF Own
  <2> QED BY <1>5, <2>1
<1> QED BY <1>2, <1>3, <1>4, <1>5, <1>6, <1>7, ClientOrder

(* What does not touch connections, clients and lists does not touch the order. *)
LEMMA QuietOrder ==
  ASSUME OrderParts, UNCHANGED <<up, network, mutex, client, using, conn, stolen>> PROVE OrderParts'
<1>1. \A q : Registered(q)' <=> Registered(q) BY DEF Registered, Addresses
<1>2. \A c \in Conns : RegistrationOK(conn[c], c)' <=> RegistrationOK(conn[c], c)
  BY <1>1 DEF RegistrationOK
<1>3. HoldersOK' BY DEF OrderParts, HoldersOK
<1>4. HandlersOK' BY <1>2 DEF OrderParts, HandlersOK, Active
<1>5. ClientsOK' BY <1>1 DEF OrderParts, ClientsOK
<1>6. \A q : Told(q)' = Told(q) BY DEF Told, Reported, Addresses
<1>7. OrderOK'
  <2>1. \A q \in Addresses(Contact) : Told(q) \subseteq Told(q)' BY <1>6
  <2>2. up'[Contact] /\ \A p \in Peers : \A k \in DOMAIN network'[p] : network'[p][k].stamp # "old"
    BY DEF OrderParts, OrderOK
  <2> QED BY <2>1, <2>2, OrderKept DEF OrderParts
<1> QED BY <1>3, <1>4, <1>5, <1>7 DEF OrderParts

-----------------------------------------------------------------------------
(* The handlers, one by one, as long as nothing is disturbed.              *)

(* The reply that the registering client reads is OK, and stays the first. *)
LEMMA RepliesOK ==
  ASSUME InvBase, OrderParts, NEW c \in Conns, Active(c), conn[c].cmd = "register"
  PROVE  /\ RegistrationOK(conn[c], c) /\ conn[c].from \in Peers
         /\ using[conn[c].from] = c => client[conn[c].from] = "register"
         /\ using[conn[c].from] = c /\ conn[c].replies # <<>> =>
              Head(conn[c].replies) = "ok" /\ Registered(conn[c].from)
<1>1. RegistrationOK(conn[c], c) BY DEF OrderParts, HandlersOK
<1>2. conn[c].from \in Peers BY DEF InvBase, InvConns, Sound, Active
<1>3. ASSUME using[conn[c].from] = c PROVE client[conn[c].from] = "register"
  <2>1. using[conn[c].from] # None BY <1>3, ConnsAssumption
  <2> QED BY <1>2, <1>3, <2>1, UsingFacts DEF OrderParts
<1>4. using[conn[c].from] = c /\ conn[c].replies # <<>> =>
              Head(conn[c].replies) = "ok" /\ Registered(conn[c].from)
  BY <1>2, <1>3 DEF OrderParts, ClientsOK
<1> QED BY <1>1, <1>2, <1>3, <1>4

\* How a registration's handler goes on when it neither adds, nor builds its reply, nor replies.
Goes(s, t) ==
  \/ s = "request" /\ t = "scan"
  \/ s = "scan" /\ t = "remove"
  \/ s = "remove" /\ t = "dispatch"
  \/ s = "dispatch" /\ t = "search"
  \/ s = "search" /\ t = "append"
  \/ s = "added" /\ t = "registered"
  \/ s = "inform" /\ t = "telling"
  \/ s = "telling" /\ t \in {"telling", "unwind", "over"}
  \/ s = "unwind" /\ t = "failed"
  \/ s = "failed" /\ t = "over"

(* A handler that only goes on keeps the order. *)
LEMMA GoesOrder ==
  ASSUME InvBase, OrderParts, NEW c \in Conns, NEW r, MovesTo(c, r), HoldersOK', network' = network,
         r.payload = conn[c].payload, r.replies = conn[c].replies,
         conn[c].cmd = "register" => Goes(conn[c].st, r.st),
         conn[c].cmd # "register" => r.st \notin {"unwind", "failed"},
         r.st = "remove" => r.todo = <<>>,
         r.st = "over" => conn[c].cmd \in {"register", "inform"}
  PROVE  OrderParts'
<1>1. Active(c) /\ Heads(r, conn[c]) BY DEF MovesTo
<1>2. ASSUME conn[c].cmd = "register"
      PROVE  /\ r.st # "over" => RegistrationOK(r, c)
             /\ using[conn[c].from] = c /\ r.replies # <<>> =>
                  Head(r.replies) = "ok" /\ Registered(conn[c].from)
             /\ Reported(conn[c]) \subseteq Reported(r)
             /\ r.st = "over" => r.replies # <<>>
  <2>1. /\ RegistrationOK(conn[c], c)
        /\ using[conn[c].from] = c /\ conn[c].replies # <<>> =>
             Head(conn[c].replies) = "ok" /\ Registered(conn[c].from)
    BY <1>1, <1>2, RepliesOK
  <2>2. Goes(conn[c].st, r.st) BY <1>2
  <2>3. r.st # "over" => RegistrationOK(r, c)
    BY ONLY <1>1, <2>1, <2>2, r.replies = conn[c].replies DEF Goes, RegistrationOK, Heads
  <2>4. conn[c].st # "build" /\ r.st # "build" BY ONLY <2>2 DEF Goes
  <2>5. r.st = "over" => r.replies # <<>>
    BY ONLY <2>1, <2>2, r.replies = conn[c].replies DEF Goes, RegistrationOK
  <2> QED BY <2>1, <2>3, <2>4, <2>5 DEF Reported
<1>3. \A q \in Peers : \A k \in DOMAIN network[q] : network[q][k].addr \in Addresses(q)'
  BY DEF Addresses
<1>4. \A p \in Peers : \A k \in DOMAIN network'[p] : network'[p][k].stamp # "old"
  BY DEF OrderParts, OrderOK
<1>5. r.st = "over" => r.replies # <<>> \/ conn[c].cmd = "inform" BY <1>2
<1> QED BY <1>2, <1>3, <1>4, <1>5, HandlerOrder

(* and so does one that replies. *)
LEMMA ReplyOrder ==
  ASSUME InvBase, OrderParts, serverUnchanged, UNCHANGED <<network, mutex, stolen>>,
         NEW c \in Conns, Active(c),
         NEW status \in {"ok", "other"}, NEW s \in {"inform", "over"}, conn' = Reply(c, status, s),
         conn[c].cmd = "register" =>
           IF conn[c].replies = <<>> THEN status = "ok" /\ Registered(conn[c].from) ELSE TRUE,
         conn[c].cmd = "register" => conn[c].st # "build"
  PROVE  OrderParts'
<1>1. s \in States \ {"free"} /\ status \in {"ok", "exists", "other"} /\ InvConns BY DEF States, InvBase
<1>2. PICK r : /\ MovesTo(c, r) /\ r.st = s /\ r.payload = conn[c].payload /\ r.replies # <<>>
               /\ Head(r.replies) = IF conn[c].replies = <<>> THEN status ELSE Head(conn[c].replies)
  BY <1>1, ReplyMoves
<1>3. Heads(r, conn[c]) /\ conn[c].to \in Peers
  BY <1>2 DEF MovesTo, InvBase, InvConns, Sound, Active
<1>4. HoldersOK' BY <1>2, <1>3, HoldersKept DEF OrderParts, HoldersOK
<1>5. ASSUME conn[c].cmd = "register"
      PROVE  /\ r.st # "over" => RegistrationOK(r, c)
             /\ using[conn[c].from] = c => Head(r.replies) = "ok" /\ Registered(conn[c].from)
             /\ Reported(conn[c]) \subseteq Reported(r)
  <2>1. /\ RegistrationOK(conn[c], c)
        /\ using[conn[c].from] = c /\ conn[c].replies # <<>> =>
             Head(conn[c].replies) = "ok" /\ Registered(conn[c].from)
    BY <1>5, RepliesOK
  <2>2. r.st \in {"inform", "over"} BY <1>2
  <2>3. r.st # "over" => RegistrationOK(r, c)
    BY ONLY <1>2, <1>3, <2>1, <2>2 DEF RegistrationOK, Heads
  <2>4. conn[c].st # "build" /\ r.st # "build" BY <1>5, <2>2
  <2> QED BY <1>2, <1>5, <2>1, <2>3, <2>4 DEF Reported
<1>6. \A q \in Peers : \A k \in DOMAIN network[q] : network[q][k].addr \in Addresses(q)'
  BY DEF Addresses
<1>7. \A p \in Peers : \A k \in DOMAIN network'[p] : network'[p][k].stamp # "old"
  BY DEF OrderParts, OrderOK
<1>8. r.st \notin {"unwind", "failed", "remove"} BY <1>2
<1> QED BY <1>2, <1>4, <1>5, <1>6, <1>7, <1>8, HandlerOrder

LEMMA BeginOrder ==
  ASSUME InvBase, OrderParts, NEW c \in Conns, RefreshBegin(c) \/ AddBegin(c) \/ InformBegin(c)
  PROVE  OrderParts'
<1>1. PICK t \in {"scan", "search", "telling"} :
        /\ Acquire(c, t)
        /\ t = "scan" => conn[c].st = "request"
        /\ t = "search" => conn[c].st = "dispatch"
        /\ t = "telling" => conn[c].st = "inform"
  BY DEF RefreshBegin, AddBegin, InformBegin
<1>2. /\ Active(c) /\ InvConns /\ t \in States \ {"free"} /\ t \notin {"unwind", "failed", "remove", "over"}
      /\ serverUnchanged /\ conn' = Goto(c, t) /\ stolen' = stolen /\ network' = network
      /\ mutex[conn[c].to] = None /\ mutex' = [mutex EXCEPT ![conn[c].to] = c]
  BY <1>1 DEF Acquire, Active, InvBase, States
<1>3. PICK r : r = [conn[c] EXCEPT !.st = t] OBVIOUS
<1>4. MovesTo(c, r) /\ r.st = t /\ r.payload = conn[c].payload /\ r.replies = conn[c].replies
  BY <1>2, <1>3, GotoMoves
<1>5. conn[c].to \in Peers BY <1>2 DEF InvConns, Sound, Active
<1>6. HoldersOK' BY <1>2, <1>4, <1>5, HoldersKept DEF OrderParts, HoldersOK
<1>7. Goes(conn[c].st, r.st) BY <1>1, <1>4 DEF Goes
<1> QED BY <1>2, <1>4, <1>6, <1>7, GoesOrder

(* Nothing in the list is old, so the refresh removes nothing (peer.py:131-139). *)
LEMMA ScanOrder == ASSUME InvBase, OrderParts, NEW c \in Conns, Scan(c) PROVE OrderParts'
<1>1. Active(c) /\ conn[c].st = "scan" /\ UNCHANGED <<network, mutex, stolen>>
  BY DEF Scan, Within, Active
<1>2. conn[c].to \in Peers BY <1>1 DEF InvBase, InvConns, Sound, Active
<1>3. PICK r : /\ MovesTo(c, r) /\ r.st = "remove" /\ r.payload = conn[c].payload
               /\ r.replies = conn[c].replies
               /\ (\A k \in DOMAIN network[conn[c].to] : network[conn[c].to][k].stamp # "old") =>
                    r.todo = <<>>
  BY ScanMoves
<1>4. r.todo = <<>> BY <1>2, <1>3 DEF OrderParts, OrderOK
<1>5. HoldersOK' BY <1>1, <1>2, <1>3, HoldersKept DEF OrderParts, HoldersOK
<1>6. Goes(conn[c].st, r.st) BY <1>1, <1>3 DEF Goes
<1> QED BY <1>1, <1>3, <1>4, <1>5, <1>6, GoesOrder

LEMMA RemoveOrder == ASSUME InvBase, OrderParts, NEW c \in Conns, Remove(c) PROVE FALSE
BY DEF Remove, Within, OrderParts, HandlersOK, Active

(* A newcomer is not known yet. *)
LEMMA SearchOrder == ASSUME InvBase, OrderParts, NEW c \in Conns, Search(c) PROVE OrderParts'
<1> DEFINE t == IF Newcomer(c) \in Addresses(conn[c].to) THEN "there" ELSE "append"
<1>1. /\ Active(c) /\ InvConns /\ conn[c].st = "search" /\ UNCHANGED <<network, mutex, stolen>>
      /\ serverUnchanged
  BY DEF Search, Within, Active, InvBase
<1>2. conn[c].to \in Peers BY <1>1 DEF InvConns, Sound, Active
<1>3. conn' = Goto(c, t) /\ t \in States \ {"free"} BY DEF Search, States
<1>4. conn[c].cmd = "register" => t = "append"
  <2> SUFFICES ASSUME conn[c].cmd = "register" PROVE t = "append" OBVIOUS
  <2>1. RegistrationOK(conn[c], c) BY <1>1, RepliesOK
  <2>2. conn[c].to = Contact /\ ~Registered(conn[c].from) BY <1>1, <2>1 DEF RegistrationOK
  <2> QED BY <2>2 DEF Registered, Newcomer
<1>5. t \in {"there", "append"} OBVIOUS
<1> HIDE DEF t
<1>6. PICK r : r = [conn[c] EXCEPT !.st = t] OBVIOUS
<1>7. MovesTo(c, r) /\ r.st = t /\ r.payload = conn[c].payload /\ r.replies = conn[c].replies
  BY <1>1, <1>3, <1>6, GotoMoves
<1>8. HoldersOK' BY <1>1, <1>2, <1>5, <1>7, HoldersKept DEF OrderParts, HoldersOK
<1>9. conn[c].cmd = "register" => Goes(conn[c].st, r.st) BY <1>1, <1>4, <1>7 DEF Goes
<1> QED BY <1>1, <1>5, <1>7, <1>8, <1>9, GoesOrder

(* Who gives a mutex back has it. *)
LEMMA EndOrder ==
  ASSUME InvBase, OrderParts, NEW c \in Conns, RefreshEnd(c) \/ AddEnd(c) \/ Unwind(c) \/ InformEnd(c)
  PROVE  OrderParts'
<1>1. Active(c) /\ conn[c].st \in Section \cup {"unwind"} /\ InvConns
  BY DEF RefreshEnd, AddEnd, Unwind, InformEnd, Active, Section, InvBase
<1>2. conn[c].to \in Peers BY <1>1 DEF InvConns, Sound, Active
<1>3. mutex[conn[c].to] = c /\ stolen = {} /\ c # None
  BY <1>1, ConnsAssumption DEF InvBase, InvMutex, OrderParts, HoldersOK
<1>4. conn[c].cmd = "register" => conn[c].st \notin {"there", "exists"}
  BY <1>1, RepliesOK DEF RegistrationOK
<1>5. conn[c].st = "telling" => conn[c].cmd = "register"
  BY DEF InvBase, InvConns, Sound
<1>6. conn[c].st = "unwind" => conn[c].cmd = "register"
  BY <1>1 DEF OrderParts, HandlersOK
<1>7. conn[c].st \in {"there", "added"} => conn[c].cmd \in {"register", "inform"}
  <2>1. conn[c].cmd \in {"none", "register", "get", "inform"} BY <1>1 DEF InvConns, Connection
  <2> QED BY <1>1, <2>1 DEF InvConns, Sound, Active
<1>8. PICK t \in {"dispatch", "registered", "over", "failed"}, raised \in {"unwind", "failed"} :
        /\ Release(c, t, raised)
        /\ conn[c].cmd = "register" => Goes(conn[c].st, t)
        /\ t = "over" => conn[c].cmd \in {"register", "inform"}
        /\ t = "failed" => conn[c].cmd = "register"
  <2>1. CASE RefreshEnd(c) BY <2>1 DEF RefreshEnd, Goes
  <2>2. CASE AddEnd(c)
    <3>1. CASE conn[c].cmd = "inform"
      <4>1. Release(c, "over", "unwind") BY <2>2, <3>1 DEF AddEnd
      <4> QED BY <3>1, <4>1
    <3>2. CASE conn[c].cmd = "register"
      <4>1. conn[c].st = "added" BY <1>4, <2>2, <3>2 DEF AddEnd
      <4>2. Release(c, "registered", "unwind") BY <2>2, <3>2, <4>1 DEF AddEnd
      <4> QED BY <3>2, <4>1, <4>2 DEF Goes
    <3> QED BY <1>7, <2>2, <3>1, <3>2 DEF AddEnd
  <2>3. CASE Unwind(c) BY <1>6, <2>3 DEF Unwind, Goes
  <2>4. CASE InformEnd(c) BY <1>5, <2>4 DEF InformEnd, Goes
  <2> QED BY <2>1, <2>2, <2>3, <2>4
<1>9. /\ conn' = Goto(c, t) /\ mutex' = [mutex EXCEPT ![conn[c].to] = None] /\ stolen' = {}
      /\ serverUnchanged /\ network' = network /\ t \in States \ {"free"}
  BY <1>3, <1>8 DEF Release, States
<1>10. PICK r : r = [conn[c] EXCEPT !.st = t] OBVIOUS
<1>11. MovesTo(c, r) /\ r.st = t /\ r.payload = conn[c].payload /\ r.replies = conn[c].replies
  BY <1>1, <1>9, <1>10, GotoMoves
<1>12. HoldersOK' BY <1>2, <1>3, <1>8, <1>9, <1>11, HoldersKept DEF OrderParts
<1>13. /\ conn[c].cmd = "register" => Goes(conn[c].st, r.st)
       /\ conn[c].cmd # "register" => r.st \notin {"unwind", "failed"}
       /\ r.st # "remove"
       /\ r.st = "over" => conn[c].cmd \in {"register", "inform"}
  BY <1>8, <1>11
<1> QED BY <1>9, <1>11, <1>12, <1>13, GoesOrder

LEMMA TellOrder == ASSUME InvBase, OrderParts, NEW c \in Conns, Tell(c) PROVE OrderParts'
<1>1. Active(c) /\ conn[c].st = "telling" /\ UNCHANGED <<network, mutex, stolen>>
  BY DEF Tell, Within, Active
<1>2. conn[c].to \in Peers /\ conn[c].cmd = "register" BY <1>1 DEF InvBase, InvConns, Sound, Active
<1>3. PICK r : /\ MovesTo(c, r) /\ r.st \in {"telling", "unwind"} /\ r.payload = conn[c].payload
               /\ r.replies = conn[c].replies
  BY TellMoves
<1>4. mutex[conn[c].to] = c /\ stolen' = {}
  BY <1>1 DEF InvBase, InvMutex, Section, OrderParts, HoldersOK
<1>5. HoldersOK' BY <1>1, <1>2, <1>3, <1>4, HoldersKept DEF OrderParts
<1>6. Goes(conn[c].st, r.st) BY <1>1, <1>3 DEF Goes
<1> QED BY <1>1, <1>2, <1>3, <1>5, <1>6, GoesOrder

LEMMA RepliesOrder ==
  ASSUME InvBase, OrderParts, NEW c \in Conns, ReplyRegistered(c) \/ ReplyExists(c) \/ HandleGet(c)
  PROVE  OrderParts'
<1>1. /\ Active(c) /\ UNCHANGED <<network, mutex, stolen>> /\ serverUnchanged
  BY DEF ReplyRegistered, ReplyExists, HandleGet, Within, Active
<1>2. CASE ReplyRegistered(c)
  <2>1. conn[c].st = "registered" /\ conn[c].cmd = "register"
    BY <1>2 DEF ReplyRegistered, Within, InvBase, InvConns, Sound
  <2>2. using[conn[c].from] = c /\ Registered(conn[c].from) BY <1>1, <2>1, RepliesOK DEF RegistrationOK
  <2>3. conn' = Reply(c, "ok", "inform") BY <1>2, <2>2 DEF ReplyRegistered, Attached
  <2> QED BY <1>1, <2>1, <2>2, <2>3, ReplyOrder
<1>3. CASE ReplyExists(c)
  <2>1. conn[c].st = "exists" /\ conn[c].cmd = "register"
    BY <1>3 DEF ReplyExists, Within, InvBase, InvConns, Sound
  <2> QED BY <1>1, <2>1, RepliesOK DEF RegistrationOK
<1>4. CASE HandleGet(c)
  <2>1. conn[c].cmd = "get" /\ conn' = Reply(c, "ok", "over") BY <1>4 DEF HandleGet
  <2> QED BY <1>1, <2>1, ReplyOrder
<1> QED BY <1>2, <1>3, <1>4

LEMMA ReplyFailedOrder ==
  ASSUME InvBase, OrderParts, NEW c \in Conns, ReplyFailed(c) PROVE OrderParts'
<1>1. /\ Active(c) /\ InvConns /\ conn[c].st = "failed" /\ UNCHANGED <<network, mutex, stolen>>
      /\ serverUnchanged
  BY DEF ReplyFailed, Within, Active, InvBase
<1>2. conn[c].cmd = "register" /\ conn[c].to \in Peers
  BY <1>1 DEF OrderParts, HandlersOK, InvConns, Sound, Active
<1>3. conn[c].replies # <<>> BY <1>1, <1>2, RepliesOK DEF RegistrationOK
<1>4. CASE conn' = Reply(c, "other", "over") BY <1>1, <1>2, <1>3, <1>4, ReplyOrder
<1>5. CASE conn' = Goto(c, "over")
  <2>1. "over" \in States \ {"free"} BY DEF States
  <2>2. PICK r : r = [conn[c] EXCEPT !.st = "over"] OBVIOUS
  <2>3. MovesTo(c, r) /\ r.st = "over" /\ r.payload = conn[c].payload /\ r.replies = conn[c].replies
    BY <1>1, <1>5, <2>1, <2>2, GotoMoves
  <2>4. HoldersOK' BY <1>1, <1>2, <2>3, HoldersKept DEF OrderParts, HoldersOK
  <2>5. Goes(conn[c].st, r.st) BY <1>1, <2>3 DEF Goes
  <2> QED BY <1>1, <1>2, <2>3, <2>4, <2>5, GoesOrder
<1> QED BY <1>4, <1>5 DEF ReplyFailed

(* The reply to a registration names everybody in the contact's list (peer.py:222-230). *)
LEMMA BuildOrder == ASSUME InvBase, OrderParts, NEW c \in Conns, Build(c) PROVE OrderParts'
<1>1. /\ Active(c) /\ conn[c].st = "build" /\ UNCHANGED <<network, mutex, stolen>>
  BY DEF Build, Within, Active
<1>2. conn[c].cmd = "register" BY <1>1 DEF InvBase, InvConns, Sound
<1>3. /\ conn[c].to = Contact /\ Registered(conn[c].from)
      /\ using[conn[c].from] = c /\ conn[c].replies = <<>>
  BY <1>1, <1>2, RepliesOK DEF RegistrationOK
<1>4. PICK r : /\ MovesTo(c, r) /\ r.st = "added" /\ r.replies = conn[c].replies
               /\ r.payload = AddressList(conn[c].to)
  BY BuildMoves
<1>5. HoldersOK' BY <1>1, <1>3, <1>4, HoldersKept, ContactAssumption DEF OrderParts, HoldersOK
<1>6. Heads(r, conn[c]) BY <1>4 DEF MovesTo
<1>7. RegistrationOK(r, c) BY ONLY <1>2, <1>3, <1>4, <1>6 DEF RegistrationOK, Heads
<1>8. Reported(conn[c]) \subseteq Reported(r)
  <2>1. /\ DOMAIN r.payload = DOMAIN network[Contact]
        /\ \A k \in DOMAIN network[Contact] : r.payload[k] = network[Contact][k].addr
    BY <1>3, <1>4, AddressListFacts, ContactAssumption DEF InvBase
  <2>2. Reported(r) = {r.payload[i] : i \in DOMAIN r.payload} BY <1>4 DEF Reported
  <2>3. Reported(conn[c]) = {network[Contact][k].addr : k \in DOMAIN network[Contact]}
    BY <1>1 DEF Reported, Addresses
  <2> QED BY <2>1, <2>2, <2>3
<1>9. \A q \in Peers : \A k \in DOMAIN network[q] : network[q][k].addr \in Addresses(q)'
  BY <1>1 DEF Addresses
<1>10. \A p \in Peers : \A k \in DOMAIN network'[p] : network'[p][k].stamp # "old"
  BY <1>1 DEF OrderParts, OrderOK
<1>11. network'[Contact] = network[Contact] BY <1>1
<1> QED BY <1>2, <1>3, <1>4, <1>5, <1>7, <1>8, <1>9, <1>10, <1>11, HandlerOrder

(* Informs add to the lists of the other peers. *)
LEMMA InformedOrder ==
  ASSUME InvBase, OrderParts, NEW c \in Conns, AppendEntry(c), conn[c].cmd # "register"
  PROVE  OrderParts'
<1> DEFINE p == conn[c].to
           n == Newcomer(c)
           s == Append(network[p], Entry(n))
<1>1. /\ Active(c) /\ conn[c].st = "append" /\ InvConns /\ TypeOK /\ serverUnchanged
      /\ UNCHANGED <<mutex, stolen>>
  BY DEF AppendEntry, Within, Active, InvBase
<1>2. conn[c].cmd = "inform"
  <2>1. conn[c].cmd \in {"none", "register", "get", "inform"} BY <1>1 DEF InvConns, Connection
  <2> QED BY <1>1, <2>1 DEF InvConns, Sound, Active
<1>3. p \in Peers /\ n \in Peers BY <1>1, <1>2 DEF InvConns, Sound, Active, Newcomer
<1>4. p # Contact BY <1>1, <1>2 DEF OrderParts, HandlersOK
<1>5. conn' = Goto(c, "added") BY <1>2 DEF AppendEntry
<1>6. "added" \in States \ {"free"} BY DEF States
<1>7. PICK r : r = [conn[c] EXCEPT !.st = "added"] OBVIOUS
<1>8. MovesTo(c, r) /\ r.st = "added" BY <1>1, <1>5, <1>6, <1>7, GotoMoves
<1>9. HoldersOK' BY <1>1, <1>3, <1>8, HoldersKept DEF OrderParts, HoldersOK
<1>10. network' = [network EXCEPT ![p] = s] BY DEF AppendEntry
<1>11. Extends(s, network[p])
  <2>1. network[p] \in Seq(Known) BY <1>1, <1>3 DEF TypeOK
  <2> HIDE DEF n, p
  <2> QED BY <1>3, <2>1, AppendFacts
<1> HIDE DEF s
<1>12. network'[p] = s /\ \A q \in Peers \ {p} : network'[q] = network[q]
  BY <1>1, <1>3, <1>10 DEF TypeOK
<1>13. ASSUME NEW q \in Peers, NEW k \in DOMAIN network[q] PROVE network[q][k].addr \in Addresses(q)'
  <2>1. k \in DOMAIN network'[q] /\ network'[q][k] = network[q][k]
    BY <1>11, <1>12 DEF Extends
  <2> QED BY <2>1 DEF Addresses
<1>14. ASSUME NEW q \in Peers, NEW k \in DOMAIN network'[q] PROVE network'[q][k].stamp # "old"
  <2>1. CASE q = p
    <3>1. \A i \in DOMAIN network[p] : network[p][i].stamp # "old" BY <1>3 DEF OrderParts, OrderOK
    <3> QED BY <1>11, <1>12, <2>1, <3>1 DEF Extends
  <2>2. CASE q # p
    <3>1. network'[q] = network[q] BY <1>12, <2>2
    <3> QED BY <3>1 DEF OrderParts, OrderOK
  <2> QED BY <2>1, <2>2
<1>15. network'[Contact] = network[Contact] BY <1>4, <1>12, ContactAssumption
<1> HIDE DEF p, n
<1> QED BY <1>2, <1>8, <1>9, <1>13, <1>14, <1>15, HandlerOrder


(* The newcomer comes last in the contact's list, and its reply will name all that is in it
   (peer.py:211-230). *)
LEMMA NewcomerOrder ==
  ASSUME InvBase, OrderParts, NEW c \in Conns, AppendEntry(c), conn[c].cmd = "register"
  PROVE  OrderParts'
<1> DEFINE n == conn[c].from
           s == Append(network[Contact], Entry(n))
           L == Len(network[Contact])
<1>1. /\ Active(c) /\ conn[c].st = "append" /\ InvConns /\ TypeOK /\ serverUnchanged
      /\ UNCHANGED <<mutex, stolen>>
  BY DEF AppendEntry, Within, Active, InvBase
<1>2. HoldersOK /\ HandlersOK /\ ClientsOK /\ OrderOK BY DEF OrderParts
<1>3. /\ conn[c].to = Contact /\ n \in Peers /\ using[n] = c /\ conn[c].replies = <<>>
      /\ ~Registered(n) /\ client[n] = "register"
  BY <1>1, RepliesOK DEF RegistrationOK
<1>4. network' = [network EXCEPT ![Contact] = s] BY <1>3 DEF AppendEntry, Newcomer
<1>5. conn' = Goto(c, "build") BY DEF AppendEntry
<1>6. PICK r : r = [conn[c] EXCEPT !.st = "build"] OBVIOUS
<1>7. "build" \in States \ {"free"} BY DEF States
<1>8. MovesTo(c, r) /\ r.st = "build" /\ r.replies = <<>> BY <1>1, <1>3, <1>5, <1>6, <1>7, GotoMoves
<1>9. /\ r.from = n /\ r.to = Contact /\ r.cmd = "register" BY <1>3, <1>8 DEF MovesTo, Heads
<1>10. /\ conn'[c] = r
       /\ \A d \in Conns \ {c} :
            conn'[d] = conn[d] \/ (conn'[d] = Free /\ \A q \in Peers : using[q] # d)
  <2>1. r.st # "over" /\ \A d : ~Tells(c, d) BY <1>1, <1>8 DEF Tells
  <2>2. \A d \in Conns : \/ conn'[d] = IF d = c THEN r ELSE conn[d]
                         \/ /\ conn'[d] = Free /\ (IF d = c THEN r ELSE conn[d]).st = "over"
                            /\ \A q \in Peers : using[q] # d
    BY ONLY <1>8, <2>1 DEF MovesTo
  <2>3. conn'[c] = r BY ONLY c \in Conns, <2>1, <2>2
  <2>4. ASSUME NEW d \in Conns \ {c}
        PROVE  conn'[d] = conn[d] \/ (conn'[d] = Free /\ \A q \in Peers : using[q] # d)
    BY ONLY <2>2, <2>4
  <2> QED BY ONLY <2>3, <2>4
<1>11. UNCHANGED <<up, client, using>> BY <1>1 DEF serverUnchanged
<1>12. HoldersOK' BY <1>1, <1>2, <1>3, <1>8, HoldersKept, ContactAssumption DEF HoldersOK
<1>13. /\ \A k \in DOMAIN network[Contact] : k \in DOMAIN s /\ s[k] = network[Contact][k]
       /\ s[L + 1] = Entry(n) /\ L + 1 \in DOMAIN s
       /\ \A k \in DOMAIN s : k \in DOMAIN network[Contact] \/ k = L + 1
       /\ L \in Nat /\ DOMAIN network[Contact] = 1 .. L
  <2>1. network[Contact] \in Seq(Known) BY <1>1, ContactAssumption DEF TypeOK
  <2>2. L \in Nat BY <2>1, LenProperties
  <2>3. n \in Peers BY <1>3
  <2> HIDE DEF n
  <2>4. /\ Extends(s, network[Contact])
        /\ L + 1 \in DOMAIN s /\ s[L + 1] = Entry(n) /\ DOMAIN network[Contact] = 1 .. L
        /\ \A k \in DOMAIN s : k \in DOMAIN network[Contact] \/ k = L + 1
    BY ONLY <2>1, <2>3, AppendFacts
  <2> HIDE DEF s, L
  <2> QED BY <2>2, <2>4 DEF Extends
<1> HIDE DEF s, L, n
<1>14. network'[Contact] = s /\ \A q \in Peers \ {Contact} : network'[q] = network[q]
  BY <1>1, <1>4, ContactAssumption DEF TypeOK
<1>15. Entry(n).addr = n /\ Entry(n).stamp = "new" BY DEF Entry
<1>16. Addresses(Contact)' = Addresses(Contact) \cup {n}
  <2>1. Addresses(Contact) = {network[Contact][k].addr : k \in DOMAIN network[Contact]} BY DEF Addresses
  <2>2. Addresses(Contact)' = {s[k].addr : k \in DOMAIN s} BY <1>14 DEF Addresses
  <2> QED BY <1>13, <1>15, <2>1, <2>2
<1>17. \A q : Registered(q)' <=> Registered(q) \/ q = n BY <1>16 DEF Registered
<1>18. ASSUME NEW q \in Peers, using[q] # None, q # n
       PROVE  using[q] \in Conns \ {c} /\ conn'[using[q]] = conn[using[q]]
  <2>1. using[q] \in Conns /\ using[q] # c BY <1>2, <1>3, <1>18, UsingFacts
  <2> QED BY <1>10, <2>1
<1>19. HandlersOK'
  <2> SUFFICES ASSUME NEW d \in Conns, conn'[d].st \notin {"free", "over"}
               PROVE  /\ conn'[d].cmd = "register" => RegistrationOK(conn[d], d)'
                      /\ conn'[d].cmd = "inform" => conn'[d].to # Contact
                      /\ conn'[d].cmd # "register" => conn'[d].st \notin {"unwind", "failed"}
                      /\ conn'[d].st = "remove" => conn'[d].todo = <<>>
    BY DEF HandlersOK, Active
  <2>1. CASE d = c
    <3>1. RegistrationOK(conn[d], d)'
      BY <1>3, <1>8, <1>9, <1>10, <1>11, <1>17, <2>1 DEF RegistrationOK
    <3> QED BY <1>8, <1>9, <1>10, <2>1, <3>1
  <2>2. CASE d # c
    <3>1. conn'[d] = conn[d]
      <4>1. Free.st = "free" BY DEF Free
      <4> QED BY <1>10, <2>2, <4>1
    <3>2. Active(d) BY <3>1 DEF Active
    <3>3. ASSUME conn[d].cmd = "register" PROVE RegistrationOK(conn[d], d)'
      <4>1. RegistrationOK(conn[d], d) BY <1>2, <3>2, <3>3 DEF HandlersOK
      <4>2. conn[d].st \notin {"inform", "telling", "unwind", "failed"} => conn[d].from # n
        BY <1>3, <2>2, <4>1 DEF RegistrationOK
      <4> QED BY <1>11, <1>17, <3>1, <4>1, <4>2 DEF RegistrationOK
    <3> QED BY <1>2, <3>1, <3>2, <3>3 DEF HandlersOK
  <2> QED BY <2>1, <2>2
<1>20. ClientsOK'
  <2> SUFFICES ASSUME NEW q \in Peers
               PROVE  /\ client[q] \in {"register", "get"} =>
                           /\ conn'[using[q]].from = q /\ conn'[using[q]].cmd = client[q]
                           /\ conn'[using[q]].st # "free"
                           /\ conn'[using[q]].st # "over" \/ conn'[using[q]].replies # <<>>
                      /\ client[q] = "register" /\ conn'[using[q]].replies # <<>> =>
                           Head(conn'[using[q]].replies) = "ok" /\ Registered(q)'
                      /\ client[q] \in {"ready", "get"} => Registered(q)'
                      /\ client[q] \in {"none", "start"} => q = Contact \/ ~Registered(q)'
    BY <1>11 DEF ClientsOK
  <2>1. CASE q = n
    <3>1. conn'[using[q]] = r /\ client[q] = "register" BY <1>3, <1>10, <2>1
    <3> QED BY <1>8, <1>9, <2>1, <3>1
  <2>2. CASE q # n
    <3>1. Registered(q)' <=> Registered(q) BY <1>17, <2>2
    <3>2. CASE client[q] \in {"register", "get"}
      <4>1. using[q] # None BY <1>1, <3>2 DEF InvConns
      <4>2. conn'[using[q]] = conn[using[q]] BY <1>18, <2>2, <4>1
      <4> QED BY <1>2, <3>1, <4>2 DEF ClientsOK
    <3>3. CASE client[q] \notin {"register", "get"} BY <1>2, <3>1, <3>3 DEF ClientsOK
    <3> QED BY <3>2, <3>3
  <2> QED BY <2>1, <2>2
<1>21. ASSUME NEW q \in Peers, q # n PROVE Told(q) \subseteq Told(q)'
  <2>1. CASE client[q] = "register"
    <3>1. using[q] # None BY <1>1, <2>1 DEF InvConns
    <3>2. conn'[using[q]] = conn[using[q]] BY <1>18, <1>21, <3>1
    <3>3. /\ Told(q) = Reported(conn[using[q]])
          /\ Told(q)' = IF conn[using[q]].st = "build" THEN Addresses(Contact)'
                        ELSE Reported(conn[using[q]])
      BY <1>11, <2>1, <3>2 DEF Told, Reported
    <3> QED BY <1>16, <3>3 DEF Reported
  <2>2. CASE client[q] # "register" /\ q # Contact
    <3>1. network'[q] = network[q] BY <1>14, <2>2
    <3> QED BY <1>11, <2>2, <3>1 DEF Told, Addresses
  <2>3. CASE client[q] # "register" /\ q = Contact
    <3>1. Told(q) = Addresses(Contact) /\ Told(q)' = Addresses(Contact)'
      BY <1>11, <2>3 DEF Told, Addresses
    <3> QED BY <1>16, <3>1
  <2> QED BY <2>1, <2>2, <2>3
<1>22. ASSUME NEW q, q = n PROVE Told(q)' = Addresses(Contact)'
  <2>1. client'[q] = "register" /\ conn'[using'[q]] = r BY <1>3, <1>10, <1>11, <1>22
  <2> QED BY <1>8, <2>1 DEF Told, Reported
<1>23. OrderOK'
  <2>1. up'[Contact] BY <1>2, <1>11 DEF OrderOK
  <2>2. ASSUME NEW i \in DOMAIN s, NEW j \in DOMAIN s, i < j, NEW q, q = s[j].addr
        PROVE  s[i].addr \in Told(q)'
    <3>1. i \in DOMAIN network[Contact] /\ s[i] = network[Contact][i] BY <1>13, <2>2
    <3>2. s[i].addr \in Addresses(Contact) BY <3>1 DEF Addresses
    <3>3. CASE q = n
      <4>1. Told(q)' = Addresses(Contact)' BY <1>22, <3>3
      <4> QED BY <1>16, <3>2, <4>1
    <3>4. CASE q # n
      <4>1. j \in DOMAIN network[Contact] /\ q = network[Contact][j].addr
        BY <1>13, <1>15, <2>2, <3>4
      <4>2. s[i].addr \in Told(q) BY <1>2, <2>2, <3>1, <4>1 DEF OrderOK
      <4>3. q \in Addresses(Contact) BY <4>1 DEF Addresses
      <4>4. q \in Peers BY <1>1, <4>3, ContactAssumption, AddressListFacts
      <4>5. Told(q) \subseteq Told(q)' BY <1>21, <3>4, <4>4
      <4> QED BY <4>2, <4>5
    <3> QED BY <3>3, <3>4
  <2>3. ASSUME NEW q \in Peers, NEW k \in DOMAIN network'[q] PROVE network'[q][k].stamp # "old"
    <3>1. CASE q = Contact
      BY <1>2, <1>13, <1>14, <1>15, <3>1, ContactAssumption DEF OrderOK
    <3>2. CASE q # Contact
      <4>1. network'[q] = network[q] BY <1>14, <3>2
      <4> QED BY <1>2, <4>1 DEF OrderOK
    <3> QED BY <3>1, <3>2
  <2>4. ASSUME NEW i \in DOMAIN network'[Contact], NEW j \in DOMAIN network'[Contact], i < j
        PROVE  network'[Contact][i].addr \in Told(network[Contact][j].addr)'
    <3>1. PICK q : q = network'[Contact][j].addr OBVIOUS
    <3>2. network'[Contact][i].addr \in Told(q)' BY <1>14, <2>2, <2>4, <3>1
    <3> QED BY <3>1, <3>2 DEF Told, Reported, Addresses
  <2> QED BY <2>1, <2>3, <2>4 DEF OrderOK
<1> QED BY <1>12, <1>19, <1>20, <1>23 DEF OrderParts

LEMMA AppendOrder == ASSUME InvBase, OrderParts, NEW c \in Conns, AppendEntry(c) PROVE OrderParts'
BY InformedOrder, NewcomerOrder


(* Every step keeps the order, or disturbs it: a crash, or silence for a minute. *)
LEMMA StepOrder == InvBase /\ InvOrder /\ [Next]_vars => InvOrder'
<1> SUFFICES ASSUME InvBase, InvOrder, [Next]_vars, Undisturbed' PROVE OrderParts'
  BY DEF InvOrder
<1>1. ASSUME NEW p \in Peers PROVE ~Crash(p) /\ ~Tick(p)
  BY DEF Crash, Tick, Undisturbed, InvBase, TypeOK
<1>2. Undisturbed
  <2>1. CASE crashes' = crashes /\ ticks' = ticks BY <2>1 DEF Undisturbed
  <2>2. CASE UNCHANGED vars BY <2>1, <2>2 DEF vars
  <2>3. ASSUME NEW p \in Peers, Boot(p) \/ Listen(p) \/ Client(p) \/ ClientGet(p)
        PROVE  Undisturbed
    BY <2>1, <2>3 DEF Boot, Listen, Client, ClientGet, ClientRegister, ClientConnect, ClientRegistered,
       ClientGot, ClientDropped
  <2>4. ASSUME NEW c \in Conns, Handler(c) PROVE Undisturbed
    <3>1. serverUnchanged
      BY <2>4 DEF Handler, RefreshBegin, Scan, Remove, RefreshEnd, AddBegin, Search, AppendEntry, Build,
         AddEnd, ReplyRegistered, ReplyExists, Unwind, InformBegin, Tell, InformEnd, HandleGet,
         ReplyFailed, Within, Acquire, Release
    <3> QED BY <2>1, <3>1 DEF serverUnchanged
  <2> QED BY <1>1, <2>2, <2>3, <2>4 DEF Next
<1>3. OrderParts BY <1>2 DEF InvOrder
<1>4. ASSUME NEW p \in Peers, Boot(p) \/ Listen(p) \/ Client(p) \/ ClientGet(p) PROVE OrderParts'
  <2>1. CASE Listen(p)
    <3>1. UNCHANGED <<up, network, mutex, client, using, conn, stolen>> BY <2>1 DEF Listen
    <3> QED BY <1>3, <3>1, QuietOrder
  <2>2. CASE Boot(p) BY <1>3, <2>2, BootOrder
  <2>3. CASE Client(p)
    BY <1>3, <2>3, ClientRegisterOrder, ClientRegisteredOrder, ClientGotOrder, ClientDroppedOrder
       DEF Client
  <2>4. CASE ClientGet(p) BY <1>3, <2>4, ClientGetOrder
  <2> QED BY <1>4, <2>1, <2>2, <2>3, <2>4
<1>5. ASSUME NEW c \in Conns, Handler(c) PROVE OrderParts'
  BY <1>3, <1>5, BeginOrder, ScanOrder, RemoveOrder, SearchOrder, EndOrder, TellOrder, RepliesOrder,
     ReplyFailedOrder, BuildOrder, AppendOrder DEF Handler
<1>6. CASE UNCHANGED vars
  <2>1. UNCHANGED <<up, network, mutex, client, using, conn, stolen>> BY <1>6 DEF vars
  <2> QED BY <1>3, <2>1, QuietOrder
<1> QED BY <1>1, <1>4, <1>5, <1>6 DEF Next

(* The inductive invariant: whatever happens, lists and connections are in order; and until
   something is disturbed, the contact orders the registrations. *)
THEOREM NetInvariant == Spec => []InvNet
<1>1. Init => InvBase /\ InvOrder BY InitBase, InitOrder
<1>2. InvBase /\ InvOrder /\ [Next]_vars => (InvBase /\ InvOrder)' BY StepBase, StepOrder
<1>3. InvBase /\ InvOrder => InvNet BY DEF InvNet
<1> QED BY <1>1, <1>2, <1>3, PTL DEF Spec

(* A peer that has joined is in the contact's list, and in its own. *)
LEMMA JoinedFacts ==
  ASSUME InvNet, Undisturbed, NEW p \in Peers, Joined(p)
  PROVE  Registered(p) /\ p \in Addresses(p) /\ Told(p) = Addresses(p)
<1>1. InvBase /\ ClientsOK /\ OrderOK BY DEF InvNet, InvOrder, OrderParts
<1>2. Registered(p) /\ up[p] /\ Told(p) = Addresses(p)
  <2>1. CASE p = Contact
    <3>1. up[Contact] BY <1>1 DEF OrderOK
    <3>2. client[Contact] = "none" BY <1>1, UsingFacts
    <3> QED BY <1>1, <2>1, <3>1, <3>2, ContactFirst DEF Told
  <2>2. CASE p # Contact
    <3>1. client[p] \in {"ready", "get"} BY <2>2 DEF Joined
    <3> QED BY <1>1, <3>1 DEF ClientsOK, InvBase, InvConns, Told
  <2> QED BY <2>1, <2>2
<1>3. network[p] \in Seq(Known) /\ network[p] # <<>> /\ network[p][1] = Own(p)
  BY <1>1, <1>2 DEF InvBase, TypeOK
<1>4. 1 \in DOMAIN network[p] BY <1>3, LenProperties, EmptySeq
<1>5. p \in Addresses(p) BY <1>3, <1>4 DEF Addresses, Own
<1> QED BY <1>2, <1>5

(* As long as no peer crashes or falls silent, of any two peers that have joined at least one
   knows the other (peer.py:211-230). *)
THEOREM JoinedInOrder == Spec => []OneKnowsOther
<1>1. ASSUME InvNet PROVE OneKnowsOther
  <2> SUFFICES ASSUME Undisturbed, NEW p \in Peers, NEW q \in Peers, Joined(p), Joined(q)
               PROVE  p \in Addresses(q) \/ q \in Addresses(p)
    BY DEF OneKnowsOther
  <2>1. InvBase /\ OrderOK BY <1>1 DEF InvNet, InvOrder, OrderParts
  <2>2. PICK i \in DOMAIN network[Contact] : network[Contact][i].addr = p
    BY <1>1, JoinedFacts DEF Registered, Addresses
  <2>3. PICK j \in DOMAIN network[Contact] : network[Contact][j].addr = q
    BY <1>1, JoinedFacts DEF Registered, Addresses
  <2>4. i \in Nat /\ j \in Nat BY <2>1, <2>2, <2>3, ContactFirst DEF OrderOK
  <2>5. CASE i < j
    <3>1. p \in Told(q) BY <2>1, <2>2, <2>3, <2>5 DEF OrderOK
    <3> QED BY <1>1, <3>1, JoinedFacts
  <2>6. CASE j < i
    <3>1. q \in Told(p) BY <2>1, <2>2, <2>3, <2>6 DEF OrderOK
    <3> QED BY <1>1, <3>1, JoinedFacts
  <2>7. CASE i = j BY <1>1, <2>2, <2>3, <2>7, JoinedFacts
  <2> QED BY <2>4, <2>5, <2>6, <2>7
<1> QED BY <1>1, NetInvariant, PTL

(* Then a peer that has joined has a peer to ask for a file (peer.py:762-765). *)
THEOREM JoinedNotAlone == Spec => []JoinedKnowsSomebody
<1>1. ASSUME InvNet PROVE JoinedKnowsSomebody
  <2> SUFFICES ASSUME Undisturbed, NEW p \in Peers \ {Contact}, client[p] = "ready"
               PROVE  Addresses(p) # {p}
    BY DEF JoinedKnowsSomebody
  <2>1. InvBase /\ OrderOK /\ Joined(p) BY <1>1 DEF InvNet, InvOrder, OrderParts, Joined
  <2>2. PICK j \in DOMAIN network[Contact] : network[Contact][j].addr = p
    BY <1>1, <2>1, JoinedFacts DEF Registered, Addresses
  <2>3. 1 \in DOMAIN network[Contact] /\ network[Contact][1].addr = Contact /\ 1 < j
    BY <2>1, <2>2, ContactFirst DEF OrderOK
  <2>4. Contact \in Told(p) BY <2>1, <2>2, <2>3 DEF OrderOK
  <2>5. Contact \in Addresses(p) BY <1>1, <2>1, <2>4, JoinedFacts
  <2> QED BY <2>5
<1> QED BY <1>1, NetInvariant, PTL
=============================================================================
