----------------------------- MODULE CoordQuery ------------------------------
(***************************************************************************)
(* The programs of A1 that look up the record nearest to a coordinate:     *)
(* by a scan (coord_query_naive.c) and with a k-d tree                     *)
(* (coord_query_kdtree.c).                                                 *)
(*                                                                         *)
(* A record is its point <<lon, lat>>; coordinates are counted in parts of *)
(* a degree, Unit of them to one, and distances are compared as squares.   *)
(* The root of the tree of a part of the array is the middle of the part,  *)
(* so that a node is given by its part and by its depth.                   *)
(***************************************************************************)
EXTENDS Integers, Sequences

CONSTANTS Points,   \* the points in files, in memory and typed by users
          Unit,     \* parts of a degree
          MaxPoints \* bound on the records of a file

ASSUME PointsAssumption == Points \subseteq Int \X Int
ASSUME UnitAssumption == Unit \in Nat \ {0} /\ MaxPoints \in Nat

VARIABLES at,      \* "load"; "flat", "naive" for the scan; "build", "tree", "kdtree" for the tree
          ps,      \* the records
          parts,   \* the parts of the array that generate_tree has still to order
          nodes,   \* the nodes of the tree, each the part whose root it is
          part,    \* the part whose root the walk is at, or the records scanned
          coord,   \* the coordinate typed
          closest, \* the best record so far
          seen     \* the records compared with the coord so far (history)

kvars == <<at, ps, parts, nodes, part, coord, closest, seen>>

Part(first, len, depth) == [first |-> first, len |-> len, depth |-> depth]
Middle(p) == p.first + p.len \div 2
Left(p) == Part(p.first, p.len \div 2, p.depth + 1)
Right(p) == Part(Middle(p) + 1, p.len - p.len \div 2 - 1, p.depth + 1)
Axis(p) == (p.depth % 2) + 1
In(p) == p.first .. p.first + p.len - 1

KInit == /\ at = "load" /\ ps = <<>> /\ parts = <<>> /\ nodes = {} /\ part = Part(1, 0, 0)
         /\ coord = <<0, 0>> /\ closest = <<0, 0>> /\ seen = {}

\* The records are read (read_records).
Load == /\ at = "load"
        /\ \E len \in 0 .. MaxPoints : ps' \in [1 .. len -> Points]
        /\ \/ at' = "build" /\ parts' = <<Part(1, Len(ps'), 0)>>
           \/ at' = "flat" /\ UNCHANGED parts
        /\ UNCHANGED <<nodes, part, coord, closest, seen>>

\* A difference of coordinates as an int: the part of a degree is cut off.
Whole(d) == IF d < 0 THEN -((-d) \div Unit) ELSE d \div Unit
CompX(axis, a, b) == Whole(a[1] - b[1])   \* faulty: by the longitude at every depth
CompXY(axis, a, b) == Whole(a[axis] - b[axis])

\* compX and compY are an order on the points of part p, and qsort can sort by it.
IsOrderOn(p) == \A i, j, k \in In(p) :
  CompXY(Axis(p), ps[i], ps[j]) <= 0 /\ CompXY(Axis(p), ps[j], ps[k]) <= 0
    => CompXY(Axis(p), ps[i], ps[k]) <= 0

\* generate_tree: a part is sorted, and then the two parts beside its middle.
Build == /\ at = "build" /\ parts # <<>>
         /\ LET p == Head(parts)
            IN /\ \E f \in [In(p) -> In(p)] :
                    /\ \A k \in In(p) : \E j \in In(p) : f[j] = k
                    /\ IsOrderOn(p) => \A i, j \in In(p) : i < j => CompXY(Axis(p), ps[f[i]], ps[f[j]]) <= 0
                    /\ ps' = [k \in DOMAIN ps |-> IF k \in In(p) THEN ps[f[k]] ELSE ps[k]]
               /\ parts' = IF p.len > 0 THEN <<Left(p), Right(p)>> \o Tail(parts) ELSE Tail(parts)
               /\ nodes' = IF p.len > 0 THEN nodes \cup {p} ELSE nodes
         /\ UNCHANGED <<at, part, coord, closest, seen>>

Built == at = "build" /\ parts = <<>> /\ at' = "tree" /\ UNCHANGED <<ps, parts, nodes, part, coord, closest, seen>>

\* coord_query_loop: a coordinate is typed.  The scan begins with the element at 0, which without
\* records is what memory holds; the walk with the root and whatever memory lookup_kdtree was
\* given for its result.
Query == \E q \in Points :
  /\ coord' = q
  /\ \/ /\ at = "flat" /\ at' = "naive"
        /\ closest' \in IF ps = <<>> THEN Points ELSE {ps[1]}
        /\ seen' = {closest'}
        /\ part' = Part(2, IF ps = <<>> THEN 0 ELSE Len(ps) - 1, 0)
     \/ /\ at = "tree" /\ at' = "kdtree"
        /\ closest' \in Points /\ seen' = {closest'} /\ part' = Part(1, Len(ps), 0)
  /\ UNCHANGED <<ps, parts, nodes>>

Square(d) == d * d
Distance(a, b) == Square(a[1] - b[1]) + Square(a[2] - b[2])

\* Faulty: the last record is left out.
ScanNextButLast ==
  /\ at = "naive"
  /\ IF part.len <= 1
       THEN at' = "flat" /\ UNCHANGED <<part, closest, seen>>
       ELSE /\ seen' = seen \cup {ps[part.first]}
            /\ closest' = IF Distance(ps[part.first], coord) < Distance(closest, coord)
                            THEN ps[part.first] ELSE closest
            /\ part' = Part(part.first + 1, part.len - 1, 0)
            /\ UNCHANGED at
  /\ UNCHANGED <<ps, parts, nodes, coord>>

\* lookup_naive: one record more is compared.
ScanNext == /\ at = "naive"
            /\ IF part.len = 0
                 THEN at' = "flat" /\ UNCHANGED <<part, closest, seen>>
                 ELSE /\ seen' = seen \cup {ps[part.first]}
                      /\ closest' = IF Distance(ps[part.first], coord) < Distance(closest, coord)
                                      THEN ps[part.first] ELSE closest
                      /\ part' = Part(part.first + 1, part.len - 1, 0)
                      /\ UNCHANGED at
            /\ UNCHANGED <<ps, parts, nodes, coord>>

\* kdtree_walk: the root of the part is compared, and the walk goes on on one side: left if the
\* coord is there or the other coordinate differs, else right.
Walk == /\ at = "kdtree" /\ part.len > 0
        /\ LET point == ps[Middle(part)]
               diff == point[Axis(part)] - coord[Axis(part)]
               radius == Distance(point, coord)
           IN /\ seen' = seen \cup {point}
              /\ closest' = IF radius < Distance(closest, coord) \/ point = coord THEN point ELSE closest
              /\ part' = CASE point = coord -> Part(1, 0, 0)
                           [] point # coord /\ (diff >= 0 \/ radius > Square(diff)) -> Left(part)
                           [] OTHER -> Right(part)
        /\ UNCHANGED <<at, ps, parts, nodes, coord>>

WalkEnds == /\ at = "kdtree" /\ part.len = 0
            /\ at' = "tree"
            /\ UNCHANGED <<ps, parts, nodes, part, coord, closest, seen>>

KNext == Load \/ Build \/ Built \/ Query \/ ScanNext \/ Walk \/ WalkEnds
KSpec == KInit /\ [][KNext]_kvars

-----------------------------------------------------------------------------
(* Correctness.                                                            *)
\* coord_query_kdtree.c:33-53: when the tree is made, every root still separates its two sides up
\* to less than a degree, although each side was sorted again along the other axis after that, every
\* side that is not empty has a root, and every record is the root of one part.  Where the
\* comparison, which cuts off less than a degree, is no order, nothing is sorted.
Separates(p) == /\ \A i \in In(Left(p)) : ps[i][Axis(p)] - ps[Middle(p)][Axis(p)] < Unit
                /\ \A i \in In(Right(p)) : ps[Middle(p)][Axis(p)] - ps[i][Axis(p)] < Unit
TreeOrdered ==
  at = "tree" =>
    /\ \A p \in nodes : IsOrderOn(p) => Separates(p)
    /\ \A p \in nodes : \A q \in {Left(p), Right(p)} : q.len > 0 => q \in nodes
    /\ \A i \in DOMAIN ps : \E p \in nodes : Middle(p) = i /\ \A q \in nodes : Middle(q) = i => q = p

\* coord_query_naive.c:30-42, coord_query_kdtree.c:76-107: the record returned is the nearest: of
\* all for the scan, and of those the walk has met and of what memory held for the tree (the walk
\* looks at one side only and can miss a nearer one).
AnswerNearest ==
  /\ at = "flat" => \A i \in DOMAIN ps : seen # {} => Distance(closest, coord) <= Distance(ps[i], coord)
  /\ at = "tree" => \A s \in seen : Distance(closest, coord) <= Distance(s, coord)
=============================================================================
