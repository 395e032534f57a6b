---------------------------- MODULE AssemblyTable -----------------------------
(***************************************************************************)
(* The table of A5/src/assembly.c that keeps the assembler text of each    *)
(* instruction address: open addressing in which an address lives in one   *)
(* of the four slots from its hash on.  When none of them is free the      *)
(* table grows to 1 + 2 times its size and every entry is placed again,    *)
(* and if one finds no room the next size is tried.                        *)
(*                                                                         *)
(* assembly_set is one step unless the table grows; then every turn of the *)
(* loop of assembly_grow_and_rehash is a step of its own.                  *)
(***************************************************************************)
EXTENDS Integers

CONSTANTS Addrs, Texts, NoText,
          Empty \* a slot whose valid flag is 0

ASSUME AddrsAssumption == Addrs \subseteq Nat
ASSUME TextsAssumption == NoText \notin Texts
ASSUME EmptyAssumption == Empty \notin [addr : Addrs, text : Texts]

VARIABLES table,   \* lookup_table
          size,    \* table_size
          old,     \* old_table
          oldSize, \* old_size
          idx,     \* the slot of the old table that is moved next
          pending, \* the entry that assembly_set is to store
          growing  \* inside assembly_grow_and_rehash

tableVars == <<table, size, old, oldSize, idx, pending, growing>>

Entries == [addr : Addrs, text : Texts]
Window == 4   \* the slots an address can be in
InitSize == 4
EmptyTable(n) == [k \in 0 .. n - 1 |-> Empty]

TableInit == /\ size = InitSize /\ table = EmptyTable(InitSize)
             /\ oldSize = 0 /\ old = EmptyTable(0)
             /\ idx = 0 /\ pending = Empty /\ growing = FALSE

-----------------------------------------------------------------------------
(* Probing.                                                                *)

\* The slot looked at after offset steps.
Slot(a, n, offset) == (a + offset) % n
Probes(a, n) == {Slot(a, n, offset) : offset \in 0 .. Window - 1}

HasEntry(t, n, a) == \E k \in Probes(a, n) : t[k] # Empty /\ t[k].addr = a
HasRoom(t, n, a) == \E k \in Probes(a, n) : t[k] = Empty

\* The first of the slots looked at with a property: the one fewer steps from the hash.
NearestOf(a, n, S) ==
  Slot(a, n, CHOOSE offset \in 0 .. Window - 1 :
               /\ Slot(a, n, offset) \in S
               /\ \A before \in 0 .. offset - 1 : Slot(a, n, before) \notin S)

FindEntry(t, n, a) == NearestOf(a, n, {k \in Probes(a, n) : t[k] # Empty /\ t[k].addr = a})
FindEmpty(t, n, a) == NearestOf(a, n, {k \in Probes(a, n) : t[k] = Empty})

\* assembly_get.
Get(t, n, a) == IF HasEntry(t, n, a) THEN t[FindEntry(t, n, a)].text ELSE NoText

-----------------------------------------------------------------------------
(* assembly_set and assembly_grow_and_rehash.                              *)

\* The text of an address that is in the table is replaced,
Replace(e) == /\ ~growing /\ HasEntry(table, size, e.addr)
              /\ table' = [table EXCEPT ![FindEntry(table, size, e.addr)] = e]
              /\ UNCHANGED <<size, old, oldSize, idx, pending, growing>>

\* a new address takes the nearest free slot,
InsertEntry(e) == /\ ~growing /\ ~HasEntry(table, size, e.addr) /\ HasRoom(table, size, e.addr)
                  /\ table' = [table EXCEPT ![FindEmpty(table, size, e.addr)] = e]
                  /\ UNCHANGED <<size, old, oldSize, idx, pending, growing>>

\* and if there is none the table grows.
StartGrowing(e) == /\ ~growing /\ ~HasEntry(table, size, e.addr) /\ ~HasRoom(table, size, e.addr)
                   /\ growing' = TRUE /\ pending' = e
                   /\ old' = table /\ oldSize' = size /\ idx' = 0
                   /\ size' = 1 + 2 * size /\ table' = EmptyTable(1 + 2 * size)

SetText(a, t) == LET e == [addr |-> a, text |-> t] IN Replace(e) \/ InsertEntry(e) \/ StartGrowing(e)

\* Faulty: the old slot is placed where it was.
MoveInPlace == /\ growing /\ idx < oldSize
               /\ old[idx] # Empty => HasRoom(table, size, old[idx].addr)
               /\ table' = IF old[idx] = Empty THEN table ELSE [table EXCEPT ![idx] = old[idx]]
               /\ idx' = idx + 1
               /\ UNCHANGED <<size, old, oldSize, pending, growing>>

\* The next slot of the old table is empty or finds room in the new one.
Move == /\ growing /\ idx < oldSize
        /\ old[idx] # Empty => HasRoom(table, size, old[idx].addr)
        /\ table' = IF old[idx] = Empty THEN table
                    ELSE [table EXCEPT ![FindEmpty(table, size, old[idx].addr)] = old[idx]]
        /\ idx' = idx + 1
        /\ UNCHANGED <<size, old, oldSize, pending, growing>>

\* Faulty: after a collision the loop goes on where it was.
CollideGoOn == /\ growing /\ idx < oldSize
               /\ old[idx] # Empty /\ ~HasRoom(table, size, old[idx].addr)
               /\ size' = 1 + size * 2 /\ table' = EmptyTable(1 + size * 2)
               /\ UNCHANGED <<idx, old, oldSize, pending, growing>>

\* Faulty: after a collision the next attempt is made at the same size.
CollideSameSize == /\ growing /\ idx < oldSize
                   /\ old[idx] # Empty /\ ~HasRoom(table, size, old[idx].addr)
                   /\ idx' = 0 /\ table' = EmptyTable(size)
                   /\ UNCHANGED <<size, old, oldSize, pending, growing>>

\* It finds none: a larger table is tried from the start.
Collide == /\ growing /\ idx < oldSize
           /\ old[idx] # Empty /\ ~HasRoom(table, size, old[idx].addr)
           /\ size' = 1 + size * 2 /\ table' = EmptyTable(1 + size * 2) /\ idx' = 0
           /\ UNCHANGED <<old, oldSize, pending, growing>>

\* Everything is placed: the pending entry is stored, or the table grows once more.
FinishGrowing == /\ growing /\ idx = oldSize
                 /\ IF HasRoom(table, size, pending.addr)
                      THEN /\ table' = [table EXCEPT ![FindEmpty(table, size, pending.addr)] = pending]
                           /\ growing' = FALSE /\ pending' = Empty
                           /\ old' = EmptyTable(0) /\ oldSize' = 0 /\ idx' = 0
                           /\ UNCHANGED size
                      ELSE /\ old' = table /\ oldSize' = size /\ idx' = 0
                           /\ size' = 1 + 2 * size /\ table' = EmptyTable(1 + 2 * size)
                           /\ UNCHANGED <<pending, growing>>

Grow == Move \/ Collide \/ FinishGrowing

TableNext == Grow \/ \E a \in Addrs, t \in Texts : SetText(a, t)

TableSpec == TableInit /\ [][TableNext]_tableVars

-----------------------------------------------------------------------------
(* Correctness.                                                            *)

TableTypeOK == /\ size \in Nat \ {0} /\ table \in [0 .. size - 1 -> Entries \cup {Empty}]
               /\ oldSize \in Nat /\ old \in [0 .. oldSize - 1 -> Entries \cup {Empty}]
               /\ idx \in 0 .. oldSize
               /\ pending \in Entries \cup {Empty}
               /\ growing \in BOOLEAN
               /\ growing => pending \in Entries /\ oldSize > 0

\* An address is in at most one slot, and in one where probing finds it.
Reachable(t, n) ==
  /\ \A k \in 0 .. n - 1 : t[k] # Empty => k \in Probes(t[k].addr, n)
  /\ \A j, k \in 0 .. n - 1 : t[j] # Empty /\ t[k] # Empty /\ t[j].addr = t[k].addr => j = k

\* While the table grows, the new table holds the part of the old one that has been moved, and
\* neither holds the pending address.
Moved == growing =>
  /\ Reachable(old, oldSize)
  /\ \A k \in 0 .. size - 1 : table[k] # Empty => \E j \in 0 .. idx - 1 : old[j] = table[k]
  /\ \A j \in 0 .. idx - 1 : old[j] # Empty => \E k \in 0 .. size - 1 : table[k] = old[j]
  /\ \A j \in 0 .. oldSize - 1 : old[j] # Empty => old[j].addr # pending.addr

\* assembly.c:22-85: no text gets lost or hidden behind another entry, whatever the table has
\* been through.
TableInv == TableTypeOK /\ Reachable(table, size) /\ Moved

\* The texts that are attached to the addresses, as assembly_get finds them before and after, and
\* would find them in the old table during, a growth.
Attached == [a \in Addrs |-> IF growing THEN Get(old, oldSize, a) ELSE Get(table, size, a)]

Abstract == INSTANCE TextMap WITH text <- Attached

\* The table implements the map of assembly.h.
ImplementsMap == Abstract!Spec

\* assembly.c:57-84 and 94-99: growing ends, in spite of entries that collide at the new size.
GrowingEnds == growing ~> ~growing
=============================================================================
