----------------------------- MODULE RiscvMemory ------------------------------
(***************************************************************************)
(* The simulated memory of A5/src/memory.c: 2^16 pages of 2^14 words, a    *)
(* page allocated and cleared when an address in it is first used.  A      *)
(* memory is the function of the words written so far; every other word    *)
(* is what calloc left.  Bytes and halfwords are parts of words that are   *)
(* read, changed and written back.                                         *)
(***************************************************************************)
EXTENDS Words

page_number(addr) == Field(addr, 16, 16)
index(addr)       == Field(addr, 2, 14)

place(addr)       == <<page_number(addr), index(addr)>>

NoWords == <<>>

\* The memory with the page of an address, which is cleared when it is new.
get_page(mem, addr) ==
  [p \in DOMAIN mem \cup {place(addr)} |-> IF p \in DOMAIN mem THEN mem[p] ELSE Zero]
word_at(mem, addr)  == get_page(mem, addr)[place(addr)]

\* The tests before which the program exits.
WordAligned(addr) == addr[0] = 0 /\ addr[1] = 0
HalfAligned(addr) == addr[0] = 0

\* The bit of the word at which the byte or halfword of an address begins.
HalfAt(addr) == 16 * addr[1]
ByteAt(addr) == 8 * (addr[0] + 2 * addr[1])

InsertClearing(old, data, from, n) ==
  [i \in Bits |-> IF i \in from .. from + n - 1 THEN data[i - from] ELSE 0]
\* (old & ~mask) | (data << from), where mask has n bits from there on.
Insert(old, data, from, n) ==
  [i \in Bits |-> IF i \in from .. from + n - 1 THEN data[i - from] ELSE old[i]]

\* (old >> from) & mask: the rest is zeros, also when the highest bit is set.
Extract(old, from, n) == [i \in Bits |-> IF i < n THEN old[from + i] ELSE 0]

memory_wr_w(mem, addr, data) == [get_page(mem, addr) EXCEPT ![place(addr)] = data]
memory_wr_h(mem, addr, data) ==
  [get_page(mem, addr) EXCEPT ![place(addr)] = Insert(@, data, HalfAt(addr), 16)]
memory_wr_b(mem, addr, data) ==
  [get_page(mem, addr) EXCEPT ![place(addr)] = Insert(@, data, ByteAt(addr), 8)]

memory_rd_w(mem, addr) == word_at(mem, addr)
memory_rd_h(mem, addr) == Extract(word_at(mem, addr), HalfAt(addr), 16)
memory_rd_b(mem, addr) == Extract(word_at(mem, addr), ByteAt(addr), 8)
=============================================================================
