------------------------------ MODULE BlockHeap -------------------------------
(***************************************************************************)
(* The allocator of A6/lib.c, for blocks of one size, numbered as they lie *)
(* in memory.  The first word of a block holds the next free block while   *)
(* it is free, and its size while it is in use.  When no block is free a   *)
(* chunk is taken from the space behind the last one and cut into blocks.  *)
(***************************************************************************)
EXTENDS Integers

CONSTANTS ChunkCells, \* the blocks of a chunk: 240 / 24 = 10 for the nodes of the tree
          Size        \* what a block in use has in its first word, which is no address

NULL == 0

ASSUME HeapAssumption == ChunkCells \in Nat \ {0} /\ Size \notin Nat

init_heap == [word |-> <<>>, header |-> NULL, free_space |-> 1]

Blocks(h) == 1 .. h.free_space - 1
Used(h) == {c \in Blocks(h) : h.word[c] = Size}

\* A chunk is cut from its end, so that its blocks are listed from its start.
Chunk(h) == LET last == h.free_space + ChunkCells - 1
            IN [word |-> [c \in 1 .. last |-> IF c < h.free_space THEN h.word[c]
                                              ELSE IF c = last THEN h.header ELSE c + 1],
                header |-> h.free_space, free_space |-> last + 1]

\* allocate: the first free block is unlinked and marked with its size.
Allocate(h) == LET g == IF h.header = NULL THEN Chunk(h) ELSE h
               IN [heap |-> [g EXCEPT !.header = g.word[g.header], !.word[g.header] = Size],
                   cell |-> g.header]

\* release: the block becomes the first of the free ones.
Release(h, c) == [h EXCEPT !.word[c] = h.header, !.header = c]

\* The block that is reached after k steps from the header.
FreeAt(h) ==
  LET at[k \in 0 .. h.free_space] ==
        IF k = 0 THEN h.header
        ELSE IF at[k - 1] \in Blocks(h) \ Used(h) THEN h.word[at[k - 1]] ELSE NULL
  IN at

\* The list of free blocks ends, and on it are the blocks without their size.
ListOK(h) == /\ FreeAt(h)[h.free_space] = NULL
             /\ {FreeAt(h)[k] : k \in 0 .. h.free_space} \ {NULL} = Blocks(h) \ Used(h)
=============================================================================
