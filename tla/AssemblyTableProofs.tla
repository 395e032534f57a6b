------------------------ MODULE AssemblyTableProofs --------------------------
(***************************************************************************)
(* Proofs about AssemblyTable, for every set of addresses and texts: no    *)
(* entry is lost, duplicated or hidden by the probing, through any number  *)
(* of growths, and the table implements the map of TextMap.                *)
(***************************************************************************)
EXTENDS AssemblyTable, TLAPS

-----------------------------------------------------------------------------
(* Probing.                                                                *)

LEMMA ProbesInTable ==
  ASSUME NEW a \in Nat, NEW n \in Nat \ {0}
  PROVE  Probes(a, n) \subseteq 0 .. n - 1
<1>1. \A offset \in 0 .. 3 : Slot(a, n, offset) \in 0 .. n - 1
  BY DEF Slot
<1> QED
  BY <1>1 DEF Probes, Window

\* Of a non-empty set of probed slots the nearest is one.
LEMMA NearestIsIn ==
  ASSUME NEW a \in Nat, NEW n \in Nat \ {0}, NEW S, S \subseteq Probes(a, n), S # {}
  PROVE  NearestOf(a, n, S) \in S
<1> DEFINE In(offset) == Slot(a, n, offset) \in S
<1>1. \E offset \in 0 .. 3 : In(offset)
  BY DEF Probes, Window
<1> HIDE DEF In
<1>2. In(0) \/ In(1) \/ In(2) \/ In(3)
  BY <1>1
<1>3. \E offset \in 0 .. 3 : In(offset) /\ \A before \in 0 .. offset - 1 : ~In(before)
  BY <1>2
<1> QED
  BY <1>3 DEF NearestOf, In, Window

LEMMA EntryFound ==
  ASSUME NEW a \in Nat, NEW n \in Nat \ {0}, NEW t, HasEntry(t, n, a)
  PROVE  /\ FindEntry(t, n, a) \in Probes(a, n)
         /\ t[FindEntry(t, n, a)] # Empty
         /\ t[FindEntry(t, n, a)].addr = a
<1> DEFINE S == {k \in Probes(a, n) : t[k] # Empty /\ t[k].addr = a}
<1>1. S \subseteq Probes(a, n) /\ S # {}
  BY DEF HasEntry
<1>2. NearestOf(a, n, S) \in S
  BY <1>1, NearestIsIn
<1> QED
  BY <1>2 DEF FindEntry

LEMMA RoomFound ==
  ASSUME NEW a \in Nat, NEW n \in Nat \ {0}, NEW t, HasRoom(t, n, a)
  PROVE  FindEmpty(t, n, a) \in Probes(a, n) /\ t[FindEmpty(t, n, a)] = Empty
<1> DEFINE S == {k \in Probes(a, n) : t[k] = Empty}
<1>1. S \subseteq Probes(a, n) /\ S # {}
  BY DEF HasRoom
<1>2. NearestOf(a, n, S) \in S
  BY <1>1, NearestIsIn
<1> QED
  BY <1>2 DEF FindEmpty

-----------------------------------------------------------------------------
(* Tables.                                                                 *)

IsTable(t, n) == n \in Nat \ {0} /\ t \in [0 .. n - 1 -> Entries \cup {Empty}]

LEMMA EntryFields ==
  ASSUME NEW e \in Entries \cup {Empty}, e # Empty
  PROVE  e \in Entries /\ e.addr \in Addrs /\ e.addr \in Nat /\ e.text \in Texts
  BY AddrsAssumption DEF Entries

\* assembly_get returns the text of an entry that is in the table, wherever it is,
LEMMA GetThere ==
  ASSUME NEW t, NEW n, IsTable(t, n), Reachable(t, n), NEW k \in 0 .. n - 1, t[k] # Empty
  PROVE  HasEntry(t, n, t[k].addr) /\ Get(t, n, t[k].addr) = t[k].text
<1> DEFINE a == t[k].addr
<1>1. a \in Nat /\ n \in Nat \ {0}
  BY EntryFields DEF IsTable
<1>2. k \in Probes(a, n)
  BY DEF Reachable
<1>3. HasEntry(t, n, a)
  BY <1>2 DEF HasEntry
<1>4. /\ FindEntry(t, n, a) \in 0 .. n - 1
      /\ t[FindEntry(t, n, a)] # Empty /\ t[FindEntry(t, n, a)].addr = a
  BY <1>1, <1>3, EntryFound, ProbesInTable
<1>5. FindEntry(t, n, a) = k
  BY <1>4 DEF Reachable
<1> QED
  BY <1>3, <1>5 DEF Get

\* and no text for an address that is not.
LEMMA GetNot ==
  ASSUME NEW t, NEW n, IsTable(t, n), NEW a \in Addrs,
         \A k \in 0 .. n - 1 : t[k] # Empty => t[k].addr # a
  PROVE  ~HasEntry(t, n, a) /\ Get(t, n, a) = NoText
<1>1. Probes(a, n) \subseteq 0 .. n - 1
  BY ProbesInTable, AddrsAssumption DEF IsTable
<1> QED
  BY <1>1 DEF HasEntry, Get

\* Two tables with the same entries give the same texts.
LEMMA SameTexts ==
  ASSUME NEW t, NEW n, IsTable(t, n), Reachable(t, n),
         NEW u, NEW m, IsTable(u, m), Reachable(u, m),
         \A k \in 0 .. n - 1 : t[k] # Empty => \E j \in 0 .. m - 1 : u[j] = t[k],
         \A j \in 0 .. m - 1 : u[j] # Empty => \E k \in 0 .. n - 1 : t[k] = u[j],
         NEW a \in Addrs
  PROVE  Get(t, n, a) = Get(u, m, a)
<1>1. CASE \E k \in 0 .. n - 1 : t[k] # Empty /\ t[k].addr = a
  <2>1. PICK k \in 0 .. n - 1 : t[k] # Empty /\ t[k].addr = a
    BY <1>1
  <2>2. PICK j \in 0 .. m - 1 : u[j] = t[k]
    BY <2>1
  <2>3. Get(t, n, a) = t[k].text
    BY <2>1, GetThere
  <2>4. Get(u, m, a) = u[j].text
    BY <2>1, <2>2, GetThere
  <2> QED
    BY <2>2, <2>3, <2>4
<1>2. CASE \A k \in 0 .. n - 1 : t[k] # Empty => t[k].addr # a
  <2>1. \A j \in 0 .. m - 1 : u[j] # Empty => u[j].addr # a
    BY <1>2
  <2>2. Get(t, n, a) = NoText
    BY <1>2, GetNot
  <2>3. Get(u, m, a) = NoText
    BY <2>1, GetNot
  <2> QED
    BY <2>2, <2>3
<1> QED
  BY <1>1, <1>2

LEMMA EmptyTableReachable ==
  ASSUME NEW n \in Nat \ {0}
  PROVE  IsTable(EmptyTable(n), n) /\ Reachable(EmptyTable(n), n)
  BY DEF IsTable, EmptyTable, Reachable

\* The table u is t with e in slot p.
PutAt(t, n, p, e, u) == u[p] = e /\ \A k \in 0 .. n - 1 : k # p => u[k] = t[k]

\* A new address stored in the nearest free slot.
LEMMA PutNew ==
  ASSUME NEW t, NEW n, IsTable(t, n), Reachable(t, n), NEW e \in Entries,
         HasRoom(t, n, e.addr), \A k \in 0 .. n - 1 : t[k] # Empty => t[k].addr # e.addr,
         NEW u, u = [t EXCEPT ![FindEmpty(t, n, e.addr)] = e]
  PROVE  /\ IsTable(u, n) /\ Reachable(u, n)
         /\ FindEmpty(t, n, e.addr) \in 0 .. n - 1 /\ t[FindEmpty(t, n, e.addr)] = Empty
         /\ PutAt(t, n, FindEmpty(t, n, e.addr), e, u)
<1> DEFINE p == FindEmpty(t, n, e.addr)
<1>1. e # Empty /\ e.addr \in Nat
  BY EmptyAssumption, AddrsAssumption DEF Entries
<1>2. p \in Probes(e.addr, n) /\ p \in 0 .. n - 1 /\ t[p] = Empty
  BY <1>1, RoomFound, ProbesInTable DEF IsTable
<1>3. IsTable(u, n) /\ u[p] = e /\ \A k \in 0 .. n - 1 : k # p => u[k] = t[k]
  BY <1>2 DEF IsTable
<1> HIDE DEF p
<1>4. \A k \in 0 .. n - 1 : u[k] # Empty => k \in Probes(u[k].addr, n)
  BY <1>2, <1>3 DEF Reachable
<1>5. \A j, k \in 0 .. n - 1 : u[j] # Empty /\ u[k] # Empty /\ u[j].addr = u[k].addr => j = k
  BY <1>2, <1>3 DEF Reachable
<1>6. Reachable(u, n)
  BY ONLY <1>4, <1>5 DEF Reachable
<1>7. PutAt(t, n, p, e, u)
  BY ONLY <1>3 DEF PutAt
<1> QED
  BY ONLY <1>2, <1>3, <1>6, <1>7 DEF p

\* The entry of an address replaced by another of the same address.
LEMMA PutOver ==
  ASSUME NEW t, NEW n, IsTable(t, n), Reachable(t, n), NEW e \in Entries, HasEntry(t, n, e.addr),
         NEW u, u = [t EXCEPT ![FindEntry(t, n, e.addr)] = e]
  PROVE  /\ IsTable(u, n) /\ Reachable(u, n)
         /\ FindEntry(t, n, e.addr) \in 0 .. n - 1
         /\ t[FindEntry(t, n, e.addr)] # Empty /\ t[FindEntry(t, n, e.addr)].addr = e.addr
         /\ PutAt(t, n, FindEntry(t, n, e.addr), e, u)
<1> DEFINE p == FindEntry(t, n, e.addr)
<1>1. e # Empty /\ e.addr \in Nat
  BY EmptyAssumption, AddrsAssumption DEF Entries
<1>2. p \in Probes(e.addr, n) /\ p \in 0 .. n - 1 /\ t[p] # Empty /\ t[p].addr = e.addr
  BY <1>1, EntryFound, ProbesInTable DEF IsTable
<1>3. IsTable(u, n) /\ u[p] = e /\ \A k \in 0 .. n - 1 : k # p => u[k] = t[k]
  BY <1>2 DEF IsTable
<1> HIDE DEF p
<1>4. \A k \in 0 .. n - 1 : u[k] # Empty => k \in Probes(u[k].addr, n)
  BY <1>2, <1>3 DEF Reachable
<1>5. \A j, k \in 0 .. n - 1 : u[j] # Empty /\ u[k] # Empty /\ u[j].addr = u[k].addr => j = k
  BY <1>2, <1>3 DEF Reachable
<1>6. Reachable(u, n)
  BY ONLY <1>4, <1>5 DEF Reachable
<1>7. PutAt(t, n, p, e, u)
  BY ONLY <1>3 DEF PutAt
<1> QED
  BY ONLY <1>2, <1>3, <1>6, <1>7 DEF p

-----------------------------------------------------------------------------
(* The inductive invariant.                                                *)

LEMMA InitTableInv == TableInit => TableInv
<1> SUFFICES ASSUME TableInit PROVE TableInv
  OBVIOUS
<1>1. IsTable(table, size) /\ Reachable(table, size)
  BY EmptyTableReachable DEF TableInit, InitSize
<1>2. TableTypeOK
  BY <1>1 DEF TableInit, TableTypeOK, IsTable, EmptyTable
<1> QED
  BY <1>1, <1>2 DEF TableInv, Moved, TableInit

\* What TableInv says of the two tables.
LEMMA Tables ==
  ASSUME TableInv
  PROVE  /\ IsTable(table, size) /\ Reachable(table, size)
         /\ growing => IsTable(old, oldSize) /\ Reachable(old, oldSize) /\ pending \in Entries
  BY DEF TableInv, TableTypeOK, IsTable, Moved

\* An address that is not found is not in the table.
LEMMA NotFound ==
  ASSUME NEW t, NEW n, Reachable(t, n), NEW a, ~HasEntry(t, n, a)
  PROVE  \A k \in 0 .. n - 1 : t[k] # Empty => t[k].addr # a
  BY DEF Reachable, HasEntry

LEMMA ReplaceKeeps ==
  ASSUME TableInv, NEW e \in Entries, Replace(e)
  PROVE  TableInv'
<1>1. IsTable(table', size) /\ Reachable(table', size)
  BY Tables, PutOver DEF Replace
<1> QED
  BY <1>1 DEF Replace, TableInv, TableTypeOK, IsTable, Reachable, Moved

LEMMA InsertKeeps ==
  ASSUME TableInv, NEW e \in Entries, InsertEntry(e)
  PROVE  TableInv'
<1>1. \A k \in 0 .. size - 1 : table[k] # Empty => table[k].addr # e.addr
  BY Tables, NotFound DEF InsertEntry
<1>2. IsTable(table', size) /\ Reachable(table', size)
  BY <1>1, Tables, PutNew DEF InsertEntry
<1> QED
  BY <1>2 DEF InsertEntry, TableInv, TableTypeOK, IsTable, Reachable, Moved

LEMMA StartGrowingKeeps ==
  ASSUME TableInv, NEW e \in Entries, StartGrowing(e)
  PROVE  TableInv'
<1>1. \A k \in 0 .. size - 1 : table[k] # Empty => table[k].addr # e.addr
  BY Tables, NotFound DEF StartGrowing
<1>2. IsTable(table', size') /\ Reachable(table', size')
  BY EmptyTableReachable DEF StartGrowing, TableInv, TableTypeOK
<1>3. TableTypeOK'
  BY <1>2 DEF StartGrowing, TableInv, TableTypeOK, IsTable
<1>4. Moved'
  BY <1>1 DEF StartGrowing, TableInv, TableTypeOK, Moved, EmptyTable, Reachable
<1> QED
  BY <1>2, <1>3, <1>4 DEF TableInv, Reachable

LEMMA MoveKeeps ==
  ASSUME TableInv, Move
  PROVE  TableInv'
<1>1. growing /\ idx \in 0 .. oldSize - 1 /\ idx' = idx + 1
  BY DEF Move, TableInv, TableTypeOK
<1>2. CASE old[idx] = Empty
  <2>1. UNCHANGED <<table, size, old, oldSize, pending, growing>>
    BY <1>2 DEF Move
  <2>2. TableTypeOK' /\ Reachable(table, size)'
    BY <1>1, <2>1 DEF TableInv, TableTypeOK, Reachable
  <2>3. Moved'
    <3>1. /\ Reachable(old, oldSize)
          /\ \A k \in 0 .. size - 1 : table[k] # Empty => \E j \in 0 .. idx - 1 : old[j] = table[k]
          /\ \A j \in 0 .. idx - 1 : old[j] # Empty => \E k \in 0 .. size - 1 : table[k] = old[j]
          /\ \A j \in 0 .. oldSize - 1 : old[j] # Empty => old[j].addr # pending.addr
      BY <1>1 DEF TableInv, Moved
    <3>2. \A j \in 0 .. idx' - 1 : j \in 0 .. idx - 1 \/ j = idx BY <1>1
    <3>3. \A j \in 0 .. idx - 1 : j \in 0 .. idx' - 1 BY <1>1
    <3>4. \A k \in 0 .. size - 1 : table[k] # Empty => \E j \in 0 .. idx' - 1 : old[j] = table[k] BY <3>1, <3>3
    <3>5. \A j \in 0 .. idx' - 1 : old[j] # Empty => \E k \in 0 .. size - 1 : table[k] = old[j] BY <1>2, <3>1, <3>2
    <3>6. Reachable(old, oldSize)' BY <2>1, <3>1 DEF Reachable
    <3> QED BY <2>1, <3>1, <3>4, <3>5, <3>6 DEF Moved
  <2> QED
    BY <2>2, <2>3 DEF TableInv
<1>3. CASE old[idx] # Empty
  <2> DEFINE p == FindEmpty(table, size, old[idx].addr)
  <2>1. old[idx] \in Entries
    BY <1>1, <1>3 DEF TableInv, TableTypeOK
  <2>2. \A k \in 0 .. size - 1 : table[k] # Empty => table[k].addr # old[idx].addr
    <3> SUFFICES ASSUME NEW k \in 0 .. size - 1, table[k] # Empty, table[k].addr = old[idx].addr
                 PROVE  FALSE
      OBVIOUS
    <3>1. PICK j \in 0 .. idx - 1 : old[j] = table[k]
      BY <1>1 DEF TableInv, Moved
    <3>2. j \in 0 .. oldSize - 1 /\ j # idx
      BY <1>1 DEF TableInv, TableTypeOK
    <3> QED
      BY <1>1, <1>3, <3>1, <3>2, Tables DEF Reachable
  <2>3. table' = [table EXCEPT ![p] = old[idx]] /\ HasRoom(table, size, old[idx].addr)
    BY <1>3 DEF Move
  <2>4. /\ IsTable(table', size) /\ Reachable(table', size)
        /\ p \in 0 .. size - 1 /\ table[p] = Empty
    BY <2>1, <2>2, <2>3, Tables, PutNew
  <2>5. UNCHANGED <<size, old, oldSize, pending, growing>>
    BY DEF Move
  <2> HIDE DEF p
  <2>6. TableTypeOK' /\ Reachable(table, size)'
    BY <1>1, <2>4, <2>5 DEF TableInv, TableTypeOK, IsTable, Reachable
  <2>7. table'[p] = old[idx] /\ \A k \in 0 .. size - 1 : k # p => table'[k] = table[k]
    BY <2>3, <2>4 DEF IsTable, TableInv, TableTypeOK
  <2>8. ASSUME NEW k \in 0 .. size - 1, table'[k] # Empty
        PROVE  \E j \in 0 .. idx : old[j] = table'[k]
    BY <1>1, <2>7, <2>8 DEF TableInv, Moved
  <2>9. ASSUME NEW j \in 0 .. idx, old[j] # Empty
        PROVE  \E k \in 0 .. size - 1 : table'[k] = old[j]
    <3>1. CASE j = idx
      BY <2>4, <2>7, <3>1
    <3>2. CASE j # idx
      <4>1. j \in 0 .. idx - 1
        BY <1>1, <3>2
      <4>2. PICK k \in 0 .. size - 1 : table[k] = old[j]
        BY <1>1, <2>9, <4>1 DEF TableInv, Moved
      <4>3. k # p
        BY <2>4, <2>9, <4>2
      <4> QED
        BY <2>7, <4>2, <4>3
    <3> QED
      BY <3>1, <3>2
  <2>10. Moved'
    <3>1. 0 .. idx' - 1 = 0 .. idx
      BY <1>1
    <3> QED
      BY <1>1, <2>5, <2>8, <2>9, <3>1 DEF TableInv, Moved, Reachable
  <2> QED
    BY <2>6, <2>10 DEF TableInv
<1> QED
  BY <1>2, <1>3

LEMMA CollideKeeps ==
  ASSUME TableInv, Collide
  PROVE  TableInv'
<1>1. IsTable(table', size') /\ Reachable(table', size')
  BY EmptyTableReachable DEF Collide, TableInv, TableTypeOK
<1>2. TableTypeOK'
  BY <1>1 DEF Collide, TableInv, TableTypeOK, IsTable
<1>3. Moved'
  BY DEF Collide, TableInv, TableTypeOK, Moved, EmptyTable, Reachable
<1> QED
  BY <1>1, <1>2, <1>3 DEF TableInv, Reachable

\* When everything has been moved the two tables have the same texts, and neither has one for the
\* address that is to be stored.
LEMMA AllMoved ==
  ASSUME TableInv, growing, idx = oldSize
  PROVE  /\ \A k \in 0 .. size - 1 : table[k] # Empty => table[k].addr # pending.addr
         /\ \A a \in Addrs : Get(table, size, a) = Get(old, oldSize, a)
<1>1. \A k \in 0 .. size - 1 : table[k] # Empty => \E j \in 0 .. oldSize - 1 : old[j] = table[k]
  BY DEF TableInv, Moved
<1>2. \A j \in 0 .. oldSize - 1 : old[j] # Empty => \E k \in 0 .. size - 1 : table[k] = old[j]
  BY DEF TableInv, Moved
<1>3. \A j \in 0 .. oldSize - 1 : old[j] # Empty => old[j].addr # pending.addr
  BY DEF TableInv, Moved
<1>4. \A a \in Addrs : Get(table, size, a) = Get(old, oldSize, a)
  BY <1>1, <1>2, Tables, SameTexts
<1> QED
  BY <1>1, <1>3, <1>4

LEMMA FinishKeeps ==
  ASSUME TableInv, FinishGrowing
  PROVE  TableInv'
<1>1. growing /\ idx = oldSize /\ pending \in Entries
  BY Tables DEF FinishGrowing
<1>2. \A k \in 0 .. size - 1 : table[k] # Empty => table[k].addr # pending.addr
  BY <1>1, AllMoved
<1>3. CASE HasRoom(table, size, pending.addr)
  <2>1. /\ table' = [table EXCEPT ![FindEmpty(table, size, pending.addr)] = pending]
        /\ growing' = FALSE /\ pending' = Empty /\ size' = size
        /\ old' = EmptyTable(0) /\ oldSize' = 0 /\ idx' = 0
    BY <1>3 DEF FinishGrowing
  <2>2. IsTable(table', size) /\ Reachable(table', size)
    BY <1>1, <1>2, <1>3, <2>1, Tables, PutNew
  <2>3. EmptyTable(0) \in [0 .. 0 - 1 -> Entries \cup {Empty}]
    BY DEF EmptyTable
  <2>4. size' \in Nat \ {0} /\ table' \in [0 .. size' - 1 -> Entries \cup {Empty}]
    BY <2>1, <2>2 DEF IsTable
  <2>5. oldSize' \in Nat /\ old' \in [0 .. oldSize' - 1 -> Entries \cup {Empty}]
    <3>1. oldSize' = 0 /\ old' = EmptyTable(0)
      BY <2>1
    <3>2. [0 .. oldSize' - 1 -> Entries \cup {Empty}] = [0 .. 0 - 1 -> Entries \cup {Empty}]
      BY <3>1, Zenon
    <3>3. old' \in [0 .. oldSize' - 1 -> Entries \cup {Empty}]
      BY <2>3, <3>1, <3>2, Zenon
    <3> QED
      BY <3>1, <3>3
  <2>6. /\ idx' \in 0 .. oldSize' /\ pending' \in Entries \cup {Empty}
        /\ growing' \in BOOLEAN /\ ~growing'
    <3>1. idx' \in 0 .. oldSize'
      BY <2>1, SMT
    <3>2. pending' \in Entries \cup {Empty}
      BY <2>1, Zenon
    <3>3. growing' \in BOOLEAN /\ ~growing'
      BY <2>1, Zenon
    <3> QED
      BY <3>1, <3>2, <3>3
  <2>7. TableTypeOK'
    BY <2>4, <2>5, <2>6 DEF TableTypeOK
  <2> QED
    BY <2>1, <2>2, <2>7 DEF TableInv, Reachable, Moved
<1>4. CASE ~HasRoom(table, size, pending.addr)
  <2>1. /\ old' = table /\ oldSize' = size /\ idx' = 0
        /\ size' = 1 + 2 * size /\ table' = EmptyTable(1 + 2 * size)
        /\ pending' = pending /\ growing' = growing
    BY <1>4 DEF FinishGrowing
  <2>2. IsTable(table', size') /\ Reachable(table', size')
    BY <2>1, EmptyTableReachable DEF TableInv, TableTypeOK
  <2>3. TableTypeOK'
    BY <1>1, <2>1, <2>2 DEF TableInv, TableTypeOK, IsTable
  <2>4. Moved'
    BY <1>2, <2>1 DEF TableInv, TableTypeOK, Moved, EmptyTable, Reachable
  <2> QED
    BY <2>2, <2>3, <2>4 DEF TableInv, Reachable
<1> QED
  BY <1>3, <1>4

LEMMA NextKeeps == TableInv /\ [TableNext]_tableVars => TableInv'
<1> SUFFICES ASSUME TableInv, [TableNext]_tableVars PROVE TableInv'
  OBVIOUS
<1>1. CASE Grow
  BY <1>1, MoveKeeps, CollideKeeps, FinishKeeps DEF Grow
<1>2. ASSUME NEW a \in Addrs, NEW t \in Texts, SetText(a, t) PROVE TableInv'
  <2> DEFINE e == [addr |-> a, text |-> t]
  <2>1. e \in Entries
    BY DEF Entries
  <2>2. Replace(e) \/ InsertEntry(e) \/ StartGrowing(e)
    BY <1>2 DEF SetText
  <2> HIDE DEF e
  <2> QED
    BY <2>1, <2>2, ReplaceKeeps, InsertKeeps, StartGrowingKeeps
<1>3. CASE UNCHANGED tableVars
  BY <1>3 DEF tableVars, TableInv, TableTypeOK, Reachable, Moved
<1> QED
  BY <1>1, <1>2, <1>3 DEF TableNext

\* assembly.c:22-85: whatever the sequence of calls and of collisions, every entry is in the one
\* slot where probing finds it, and none is lost while the table grows.
THEOREM Invariant == TableSpec => []TableInv
<1> QED
  BY InitTableInv, NextKeeps, PTL DEF TableSpec

-----------------------------------------------------------------------------
(* The table implements the map.                                           *)

\* Storing an entry changes the text of its address and of no other.
LEMMA PutTexts ==
  ASSUME NEW t, NEW n, IsTable(t, n), Reachable(t, n), NEW e \in Entries, NEW p \in 0 .. n - 1,
         t[p] = Empty \/ t[p].addr = e.addr,
         NEW u, PutAt(t, n, p, e, u), IsTable(u, n), Reachable(u, n), NEW a \in Addrs
  PROVE  Get(u, n, a) = IF a = e.addr THEN e.text ELSE Get(t, n, a)
<1>1. u[p] = e /\ \A k \in 0 .. n - 1 : k # p => u[k] = t[k]
  BY DEF PutAt
<1>2. e # Empty
  BY EmptyAssumption DEF Entries
<1>3. CASE a = e.addr
  BY <1>1, <1>2, <1>3, GetThere
<1>4. CASE a # e.addr /\ \E k \in 0 .. n - 1 : t[k] # Empty /\ t[k].addr = a
  <2>1. PICK k \in 0 .. n - 1 : t[k] # Empty /\ t[k].addr = a
    BY <1>4
  <2>2. u[k] = t[k]
    BY <1>1, <1>4, <2>1
  <2>3. Get(t, n, a) = t[k].text
    BY <2>1, GetThere
  <2>4. Get(u, n, a) = u[k].text
    BY <2>1, <2>2, GetThere
  <2> QED
    BY <1>4, <2>2, <2>3, <2>4
<1>5. CASE a # e.addr /\ \A k \in 0 .. n - 1 : t[k] # Empty => t[k].addr # a
  <2>1. \A k \in 0 .. n - 1 : u[k] # Empty => u[k].addr # a
    BY <1>1, <1>5
  <2>2. Get(t, n, a) = NoText
    BY <1>5, GetNot
  <2>3. Get(u, n, a) = NoText
    BY <2>1, GetNot
  <2> QED
    BY <1>5, <2>2, <2>3
<1> QED
  BY <1>3, <1>4, <1>5

\* The step of the map that storing an entry is.
Stores(e) == Attached' = [Attached EXCEPT ![e.addr] = e.text]

LEMMA StoreIsSet ==
  ASSUME NEW e \in Entries, NEW t, NEW n, NEW u, NEW p \in 0 .. n - 1,
         IsTable(t, n), Reachable(t, n), IsTable(u, n), Reachable(u, n),
         t[p] = Empty \/ t[p].addr = e.addr, PutAt(t, n, p, e, u),
         \A a \in Addrs : Attached[a] = Get(t, n, a),
         \A a \in Addrs : Attached'[a] = Get(u, n, a)
  PROVE  Stores(e)
<1>1. \A a \in Addrs : Get(u, n, a) = IF a = e.addr THEN e.text ELSE Get(t, n, a)
  BY PutTexts
<1>2. \A a \in Addrs : Attached'[a] = IF a = e.addr THEN e.text ELSE Attached[a]
  BY <1>1
<1>3. e.addr \in Addrs
  BY DEF Entries
<1> DEFINE f == Attached
           g == Attached'
<1>4. f = [a \in Addrs |-> f[a]] /\ g = [a \in Addrs |-> g[a]]
  BY DEF Attached
<1>5. \A a \in Addrs : g[a] = IF a = e.addr THEN e.text ELSE f[a]
  BY <1>2
<1> HIDE DEF f, g
<1>6. g = [f EXCEPT ![e.addr] = e.text]
  BY <1>3, <1>4, <1>5
<1> QED
  BY <1>6 DEF Stores, f, g

LEMMA ReplaceStores ==
  ASSUME TableInv, NEW e \in Entries, Replace(e)
  PROVE  Stores(e)
<1> DEFINE p == FindEntry(table, size, e.addr)
<1>1. table' = [table EXCEPT ![p] = e] /\ ~growing /\ ~growing' /\ size' = size
  BY DEF Replace
<1>2. /\ IsTable(table', size) /\ Reachable(table', size)
      /\ p \in 0 .. size - 1 /\ table[p].addr = e.addr /\ PutAt(table, size, p, e, table')
  BY Tables, PutOver DEF Replace
<1>3. /\ \A a \in Addrs : Attached[a] = Get(table, size, a)
      /\ \A a \in Addrs : Attached'[a] = Get(table', size, a)
  BY <1>1 DEF Attached, Get, HasEntry, FindEntry
<1> HIDE DEF p
<1> QED
  BY <1>2, <1>3, Tables, StoreIsSet

LEMMA InsertStores ==
  ASSUME TableInv, NEW e \in Entries, InsertEntry(e)
  PROVE  Stores(e)
<1> DEFINE p == FindEmpty(table, size, e.addr)
<1>1. table' = [table EXCEPT ![p] = e] /\ ~growing /\ ~growing' /\ size' = size
  BY DEF InsertEntry
<1>2. \A k \in 0 .. size - 1 : table[k] # Empty => table[k].addr # e.addr
  BY Tables, NotFound DEF InsertEntry
<1>3. /\ IsTable(table', size) /\ Reachable(table', size)
      /\ p \in 0 .. size - 1 /\ table[p] = Empty /\ PutAt(table, size, p, e, table')
  BY <1>2, Tables, PutNew DEF InsertEntry
<1>4. /\ \A a \in Addrs : Attached[a] = Get(table, size, a)
      /\ \A a \in Addrs : Attached'[a] = Get(table', size, a)
  BY <1>1 DEF Attached, Get, HasEntry, FindEntry
<1> HIDE DEF p
<1> QED
  BY <1>3, <1>4, Tables, StoreIsSet

\* The last step of a growth stores the pending entry, or attaches nothing yet.
LEMMA FinishStores ==
  ASSUME TableInv, FinishGrowing
  PROVE  (\E e \in Entries : Stores(e)) \/ Attached' = Attached
<1>1. growing /\ idx = oldSize /\ pending \in Entries
  BY Tables DEF FinishGrowing
<1>2. /\ \A k \in 0 .. size - 1 : table[k] # Empty => table[k].addr # pending.addr
      /\ \A a \in Addrs : Get(table, size, a) = Get(old, oldSize, a)
  BY <1>1, AllMoved
<1>3. CASE HasRoom(table, size, pending.addr)
  <2>0. PICK e \in Entries : e = pending
    BY <1>1
  <2> DEFINE p == FindEmpty(table, size, e.addr)
  <2>1. table' = [table EXCEPT ![p] = e] /\ growing' = FALSE /\ size' = size
    BY <1>3, <2>0 DEF FinishGrowing
  <2>2. /\ IsTable(table', size) /\ Reachable(table', size)
        /\ p \in 0 .. size - 1 /\ table[p] = Empty /\ PutAt(table, size, p, e, table')
    BY <1>1, <1>2, <1>3, <2>0, <2>1, Tables, PutNew
  <2> HIDE DEF p
  <2>3. \A a \in Addrs : Attached[a] = Get(table, size, a)
    BY <1>1, <1>2 DEF Attached
  <2>4. \A a \in Addrs : Attached'[a] = Get(table', size, a)
    BY <2>1 DEF Attached, Get, HasEntry, FindEntry
  <2>5. Stores(e)
    BY <2>2, <2>3, <2>4, Tables, StoreIsSet
  <2> QED
    BY <2>5
<1>4. CASE ~HasRoom(table, size, pending.addr)
  <2>1. old' = table /\ oldSize' = size /\ growing' = growing
    BY <1>4 DEF FinishGrowing
  <2> QED
    BY <1>1, <1>2, <2>1 DEF Attached, Get, HasEntry, FindEntry
<1> QED
  BY <1>3, <1>4

\* A step of the table is one of the map, or changes no text.
LEMMA NextRefines == TableInv /\ [TableNext]_tableVars => [Abstract!Next]_Attached
<1> SUFFICES ASSUME TableInv, [TableNext]_tableVars PROVE Abstract!Next \/ Attached' = Attached
  BY DEF Abstract!Next
<1>1. ASSUME NEW e \in Entries, Stores(e) PROVE Abstract!Next
  BY <1>1 DEF Entries, Stores, Abstract!Next, Abstract!Set
<1>2. ASSUME NEW a \in Addrs, NEW t \in Texts, SetText(a, t)
      PROVE  Abstract!Next \/ Attached' = Attached
  <2> DEFINE e == [addr |-> a, text |-> t]
  <2>1. e \in Entries
    BY DEF Entries
  <2>2. Replace(e) \/ InsertEntry(e) \/ StartGrowing(e)
    BY <1>2 DEF SetText
  <2> HIDE DEF e
  <2>3. CASE StartGrowing(e)
    BY <2>3 DEF StartGrowing, Attached, Get, HasEntry, FindEntry
  <2> QED
    BY <1>1, <2>1, <2>2, <2>3, ReplaceStores, InsertStores
<1>3. CASE Move \/ Collide
  <2>1. growing /\ growing' = growing /\ old' = old /\ oldSize' = oldSize
    BY <1>3 DEF Move, Collide
  <2> QED
    BY <2>1 DEF Attached, Get, HasEntry, FindEntry
<1>4. CASE FinishGrowing
  BY <1>1, <1>4, FinishStores
<1>5. CASE UNCHANGED tableVars
  BY <1>5 DEF tableVars, Attached, Get, HasEntry, FindEntry
<1> QED
  BY <1>2, <1>3, <1>4, <1>5 DEF TableNext, Grow

LEMMA InitRefines == TableInit => Abstract!Init
<1> SUFFICES ASSUME TableInit PROVE \A a \in Addrs : Attached[a] = NoText
  BY DEF Abstract!Init, Attached
<1>1. \A k \in 0 .. size - 1 : table[k] = Empty
  BY DEF TableInit, EmptyTable
<1>2. IsTable(table, size)
  BY InitTableInv, Tables
<1> QED
  BY <1>1, <1>2, GetNot DEF TableInit, Attached

\* assembly.h: assembly_get returns the text that was last set for the address, however often the
\* table has grown in between.
THEOREM Refinement == TableSpec => ImplementsMap
<1> QED
  BY InitTableInv, NextKeeps, InitRefines, NextRefines, PTL
     DEF TableSpec, ImplementsMap, Abstract!Spec
=============================================================================
