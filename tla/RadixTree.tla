------------------------------ MODULE RadixTree -------------------------------
(***************************************************************************)
(* A6/radix.c: a tree that branches on the bits of the numbers in it, the  *)
(* most significant first, with nodes only where two numbers differ.  A    *)
(* leaf stands for the two numbers that differ in the last bit and counts  *)
(* them.  Numbers are added one by one and taken out in batches, smallest  *)
(* first; the nodes come from the allocator of A6/lib.c.                   *)
(*                                                                         *)
(* A node has two fields zero and one: the counts of a leaf, the subtrees  *)
(* of an interior node.  add_number is a step per turn of its loop.  The   *)
(* recursive functions take_numbers_2 and release_tree walk over the tree  *)
(* in the same way, with the calls that have not returned on a stack.      *)
(***************************************************************************)
EXTENDS BlockHeap, SequencesExt

CONSTANTS MAX_BITS, \* the highest bit of a number, as a power of two: 1 << 30 in the code
          Batch,    \* the size of out_numbers: 100 in the code
          MaxReads, \* bounds the numbers in the input file
          MaxTake   \* bounds the numbers that one entry of the file takes out

\* MAX_BITS is a power of two: all that divides it is even, but for 1.
ASSUME RadixAssumption == /\ MAX_BITS \in Nat \ {0} /\ Batch \in Nat \ {0}
                          /\ MaxReads \in Nat /\ MaxTake \in Nat
                          /\ \A p \in 2 .. MAX_BITS : MAX_BITS % p = 0 => p % 2 = 0

VARIABLES memory,  \* the nodes, the root of the tree and the allocator's lists
          doing,   \* what main is at: "main", "add", "take", "write", "release" or "ended"
          entry,   \* numbers[n], the entry of the input file that is worked on
          limit,   \* the numbers that are still to be taken out for it
          batch,   \* out_numbers
          reads,   \* the numbers read from the input file
          parent,  \* add_number: the place that is looked at
          bit_pos, \* add_number: and the position it has come to
          calls,   \* the places that the calls of take_numbers_2 or release_tree are for
          back     \* the innermost of the calls is about to return

adding == <<parent, bit_pos>>
walking == <<calls, back>>
vars == <<memory, doing, entry, limit, batch, reads, adding, walking>>

Numbers == 0 .. 2 * MAX_BITS - 1
Positions == {p \in 1 .. MAX_BITS : MAX_BITS % p = 0}

-----------------------------------------------------------------------------
(* Nodes and the places that point to them.                                *)

Root == <<>>
Pointed(m, place) == IF place = Root THEN m.tree ELSE m.node[place[1]][place[2]]
Point(m, place, c) == IF place = Root THEN [m EXCEPT !.tree = c]
                      ELSE [m EXCEPT !.node[place[1]][place[2]] = c]

\* A block becomes a node; a block that was one before may be used again.
NewNode(m, place, value) ==
  LET a == Allocate(m.heap)
      made == [m EXCEPT !.heap = a.heap,
                        !.node = [c \in DOMAIN @ \cup {a.cell} |-> IF c = a.cell THEN value ELSE @[c]]]
  IN Point(made, place, a.cell)

BitAt(n, p) == (n \div p) % 2
Side(n, p) == IF BitAt(n, p) = 1 THEN "one" ELSE "zero"

\* create_leaf, and the parent that is made to point to it.
create_leaf(m, place, n) ==
  NewNode(m, place, [bit_pos |-> 1, number |-> n, zero |-> 1 - BitAt(n, 1), one |-> BitAt(n, 1)])

\* An interior node for position p above the subtree at place, and a leaf for n on its other side.
Inject(m, place, n, p) ==
  LET below == Pointed(m, place)
      inner == NewNode(m, place, [bit_pos |-> p, number |-> n, zero |-> below, one |-> below])
  IN create_leaf(inner, <<Pointed(inner, place), Side(n, p)>>, n)

\* Faulty: the highest position is not compared.
DiffersShort(n, number, high, low) == {p \in Positions : low < p /\ p < high /\ BitAt(n, p) # BitAt(number, p)}

\* The positions from high down to above low at which two numbers differ.
Differs(n, number, high, low) == {p \in Positions : low < p /\ p <= high /\ BitAt(n, p) # BitAt(number, p)}

Init == /\ memory = [heap |-> init_heap, node |-> <<>>, tree |-> NULL]
        /\ doing = "main" /\ entry = 0 /\ limit = 0 /\ batch = <<>> /\ reads = 0
        /\ parent = Root /\ bit_pos = MAX_BITS /\ calls = <<Root>> /\ back = FALSE

-----------------------------------------------------------------------------
(* add_number, a turn of the loop.                                         *)

ParentNode == memory.node[Pointed(memory, parent)]
Level == IF bit_pos > ParentNode.bit_pos THEN ParentNode.bit_pos ELSE bit_pos

AddReturns == /\ doing' = "main" /\ parent' = Root /\ bit_pos' = MAX_BITS
              /\ UNCHANGED <<entry, limit, batch, reads, walking>>

\* There is no subtree: a leaf is made.
AddLeaf == /\ doing = "add" /\ Pointed(memory, parent) = NULL
           /\ memory' = create_leaf(memory, parent, entry) /\ AddReturns

\* The number differs from those of the subtree above its node, first at position p.
AddNode == /\ doing = "add" /\ Pointed(memory, parent) # NULL
           /\ LET diff == Differs(entry, ParentNode.number, bit_pos, Level)
              IN \E p \in diff : /\ \A q \in diff : q <= p
                                 /\ memory' = Inject(memory, parent, entry, p)
           /\ AddReturns

Same == Pointed(memory, parent) # NULL /\ Differs(entry, ParentNode.number, bit_pos, Level) = {}

\* It does not, and the search goes on on its side of the node,
Descend == /\ doing = "add" /\ Same /\ Level > 1
           /\ parent' = <<Pointed(memory, parent), Side(entry, Level)>> /\ bit_pos' = Level \div 2
           /\ UNCHANGED <<memory, doing, entry, limit, batch, reads, walking>>

\* or has come to the leaf, which counts it.
Count == /\ doing = "add" /\ Same /\ Level = 1
         /\ memory' = [memory EXCEPT !.node[Pointed(memory, parent)][Side(entry, 1)] = @ + 1]
         /\ AddReturns

-----------------------------------------------------------------------------
(* take_numbers_2 and release_tree.                                        *)

Top == Last(calls)
nptr == Pointed(memory, Top)
IsLeaf(m, c) == m.node[c].bit_pos = 1
Called == doing \in {"take", "release"} /\ ~back
Returned == doing \in {"take", "release"} /\ back

\* Faulty: the subtree of the larger numbers comes first.
LargerFirst == <<"one", "zero">>

\* The order in which the subtrees of a node are visited.
Sides == <<"zero", "one">>

\* No subtree: there is nothing to do.
CallOnNull == Called /\ nptr = NULL /\ back' = TRUE
              /\ UNCHANGED <<memory, doing, entry, limit, batch, reads, adding, calls>>

\* An interior node: first the one subtree,
FirstSide == /\ Called /\ nptr # NULL /\ ~IsLeaf(memory, nptr)
             /\ calls' = Append(calls, <<nptr, Sides[1]>>)
             /\ UNCHANGED <<memory, doing, entry, limit, batch, reads, adding, back>>

\* then the other.
SecondSide == /\ Returned /\ Top # Root /\ Top[2] = Sides[1]
              /\ calls' = Append(Front(calls), <<Top[1], Sides[2]>>) /\ back' = FALSE
              /\ UNCHANGED <<memory, doing, entry, limit, batch, reads, adding>>

BothDone == Returned /\ Top # Root /\ Top[2] = Sides[2]

\* Faulty: the node is released and still pointed to.
ReleaseOnly(m, place) == [m EXCEPT !.heap = Release(@, Pointed(m, place))]

RemoveNode(m, place) == Point([m EXCEPT !.heap = Release(@, Pointed(m, place))], place, NULL)

\* The node at a place is removed when there is nothing left in it.
RemoveEmpty(place) ==
  LET node == memory.node[Pointed(memory, place)]
  IN memory' = IF node.zero = 0 /\ node.one = 0 THEN RemoveNode(memory, place) ELSE memory

take_max == IF limit < Batch THEN limit ELSE Batch

\* The numbers of a leaf are taken while there is room, the smaller one first,
TakeNumber ==
  /\ doing = "take" /\ Called /\ nptr # NULL /\ IsLeaf(memory, nptr) /\ Len(batch) < take_max
  /\ LET node == memory.node[nptr]
         even == 2 * (node.number \div 2)
     IN \/ /\ node.zero > 0 /\ batch' = Append(batch, even)
           /\ memory' = [memory EXCEPT !.node[nptr].zero = @ - 1]
        \/ /\ node.zero = 0 /\ node.one > 0 /\ batch' = Append(batch, even + 1)
           /\ memory' = [memory EXCEPT !.node[nptr].one = @ - 1]
  /\ UNCHANGED <<doing, entry, limit, reads, adding, walking>>

\* and a leaf without any is removed.
LeaveLeaf ==
  /\ doing = "take" /\ Called /\ nptr # NULL /\ IsLeaf(memory, nptr)
  /\ Len(batch) < take_max => memory.node[nptr].zero = 0 /\ memory.node[nptr].one = 0
  /\ RemoveEmpty(Top) /\ back' = TRUE
  /\ UNCHANGED <<doing, entry, limit, batch, reads, adding, calls>>

\* So is an interior node without subtrees.
LeaveNode == /\ doing = "take" /\ BothDone
             /\ calls' = Front(calls) /\ RemoveEmpty(Last(calls'))
             /\ UNCHANGED <<doing, entry, limit, batch, reads, adding, back>>

\* release_tree releases a leaf,
ReleaseLeaf == /\ doing = "release" /\ Called /\ nptr # NULL /\ IsLeaf(memory, nptr)
               /\ memory' = [memory EXCEPT !.heap = Release(@, nptr)] /\ back' = TRUE
               /\ UNCHANGED <<doing, entry, limit, batch, reads, adding, calls>>

\* and an interior node after its subtrees.
ReleaseNode == /\ doing = "release" /\ BothDone
               /\ calls' = Front(calls) /\ memory' = [memory EXCEPT !.heap = Release(@, Top[1])]
               /\ UNCHANGED <<doing, entry, limit, batch, reads, adding, back>>

-----------------------------------------------------------------------------
(* main.                                                                   *)

\* A number that is not negative is added,
ReadNumber == /\ doing = "main" /\ reads < MaxReads /\ reads' = reads + 1
              /\ entry' \in Numbers /\ doing' = "add"
              /\ UNCHANGED <<memory, limit, batch, adding, walking>>

\* a negative one says how many are to be taken out,
ReadTake == /\ doing = "main" /\ reads < MaxReads /\ reads' = reads + 1
            /\ entry' \in -MaxTake .. -1 /\ limit' = -entry' /\ doing' = "take"
            /\ UNCHANGED <<memory, batch, adding, walking>>

TakeReturns == /\ doing = "take" /\ Returned /\ Top = Root /\ doing' = "write" /\ back' = FALSE
               /\ UNCHANGED <<memory, entry, limit, batch, reads, adding, calls>>

\* which is done in batches, each written to the output file, until there are none left.
\* The loop that writes a batch (radix.c:256-258) is one step: what a short or a failing write does
\* to the file, or to the end of that loop, is left out.
WriteBatch == /\ doing = "write" /\ batch' = <<>>
              /\ limit' = IF batch = <<>> THEN 0 ELSE limit - Len(batch)
              /\ doing' = IF limit' > 0 THEN "take" ELSE "main"
              /\ UNCHANGED <<memory, entry, reads, adding, walking>>

\* At the end of the input the nodes of the tree are released.
End == /\ doing = "main" /\ doing' = "release"
       /\ UNCHANGED <<memory, entry, limit, batch, reads, adding, walking>>

ReleaseReturns == /\ doing = "release" /\ Returned /\ Top = Root /\ doing' = "ended"
                  /\ UNCHANGED <<memory, entry, limit, batch, reads, adding, walking>>

Next == \/ ReadNumber \/ ReadTake \/ WriteBatch \/ End
        \/ AddLeaf \/ AddNode \/ Descend \/ Count
        \/ CallOnNull \/ FirstSide \/ SecondSide
        \/ TakeNumber \/ LeaveLeaf \/ LeaveNode \/ TakeReturns
        \/ ReleaseLeaf \/ ReleaseNode \/ ReleaseReturns

Spec == Init /\ [][Next]_vars

-----------------------------------------------------------------------------
(* Correctness.                                                            *)

Nodes == Used(memory.heap)
Interior(m) == {c \in Used(m.heap) : ~IsLeaf(m, c)}
Places(m) == {Root} \cup Interior(m) \X {"zero", "one"}

\* The numbers of a node are among those that another, a, stands for: they agree above its position.
Covers(a, node) == /\ node.bit_pos <= a.bit_pos
                   /\ node.number \div (2 * a.bit_pos) = a.number \div (2 * a.bit_pos)

\* The search for a node goes through a place: it is below the place's node and on that side of it.
Through(m, place, node) ==
  place # Root => LET a == m.node[place[1]]
                  IN Covers(a, node) /\ node.bit_pos < a.bit_pos /\ Side(node.number, a.bit_pos) = place[2]

NodeRecord == [bit_pos : Positions, number : Numbers, zero : Nat, one : Nat]

TypeOK == /\ memory.heap.free_space \in Nat \ {0} /\ memory.heap.header \in Blocks(memory.heap) \cup {NULL}
          /\ memory.heap.word \in [Blocks(memory.heap) -> Blocks(memory.heap) \cup {NULL, Size}]
          /\ memory.node \in [DOMAIN memory.node -> NodeRecord]
          /\ memory.tree \in DOMAIN memory.node \cup {NULL}
          /\ doing \in {"main", "add", "take", "write", "release", "ended"}
          /\ entry \in Numbers \cup (-MaxTake .. -1) /\ limit \in 0 .. MaxTake
          /\ batch \in Seq(Numbers) /\ Len(batch) <= Batch
          /\ reads \in 0 .. MaxReads /\ bit_pos \in Positions /\ back \in BOOLEAN
          /\ parent \in Places(memory) /\ calls \in Seq(Places(memory))

\* radix.c:56-113 and 172-202: a place on the way to a node has a subtree that covers it, and any
\* subtree is where the search for it goes; no two nodes stand for the same numbers; and between the
\* calls of take_numbers no node is without any number.
WellFormed ==
  /\ \A place \in Places(memory) :
       LET c == Pointed(memory, place)
       IN /\ \A d \in Nodes : Through(memory, place, memory.node[d]) =>
               c # NULL /\ Covers(memory.node[c], memory.node[d])
          /\ c # NULL => Through(memory, place, memory.node[c])
  /\ \A c, d \in Nodes : Covers(memory.node[c], memory.node[d]) /\ Covers(memory.node[d], memory.node[c]) => c = d
  /\ doing \in {"main", "add", "write"} =>
       \A c \in Nodes : memory.node[c].zero > 0 \/ memory.node[c].one > 0

\* lib.c:146-201 and radix.c:172-220: every block is free, or a node of the tree that one place
\* points to, and no place points to a free block; in the end all are free.
NoLeak ==
  /\ ListOK(memory.heap)
  /\ doing \notin {"release", "ended"} =>
       /\ \A c \in Nodes : \E p \in Places(memory) : \A q \in Places(memory) : (Pointed(memory, q) = c) = (q = p)
       /\ \A q \in Places(memory) : Pointed(memory, q) \in Nodes \cup {NULL}
  /\ doing = "ended" => Nodes = {}

\* How often each number is in the tree, which is given up when it is released.
Counts ==
  [n \in Numbers |->
     LET leaf == {c \in Nodes : IsLeaf(memory, c) /\ memory.node[c].number \div 2 = n \div 2}
     IN IF leaf = {} \/ doing \in {"release", "ended"} THEN 0
        ELSE memory.node[CHOOSE c \in leaf : TRUE][Side(n, 1)]]

List == INSTANCE SortedNumbers WITH count <- Counts, doing <- IF doing = "release" THEN "ended" ELSE doing

\* radix.c:205-209 and 245-269: what is taken out are the smallest of the numbers that were added
\* and not taken before, in ascending order.
TakesSmallest == List!Spec
=============================================================================
