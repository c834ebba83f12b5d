----------------------------- MODULE BtreeShapes -----------------------------
(***************************************************************************)
(* Small btrees for the model checker.  The positions 0..MaxPos are cut    *)
(* into the ranges of three leaves; a set of keys is spread over them by   *)
(* their positions, which for an extent is its end.                        *)
(***************************************************************************)
EXTENDS Btree, SequencesExt, FiniteSetsExt

CONSTANTS MaxPos, MaxSize

\* Keys of a point btree (inodes, dirents) and of the extents btree, whose
\* extents stay within their inode and do not overlap.
PointSets == SUBSET [pos: 0..MaxPos, size: {0}]

ExtentSets ==
  {S \in SUBSET {k \in [pos: 1..MaxPos, size: 1..MaxSize] : k.size <= k.pos % Span} :
     \A a, b \in S : a = b \/ a.pos <= b.pos - b.size \/ b.pos <= a.pos - a.size}

\* The last positions of the leaves; the last leaf ends the whole range.
Cuts == {<<a, b, MaxPos>> : a \in 0..(MaxPos - 2), b \in 1..(MaxPos - 1)}

LeafKeys(S, first, last) ==
  LET ks == SetToSortSeq({k \in S : first <= k.pos /\ k.pos <= last},
                         LAMBDA a, b : a.pos < b.pos)
  IN  [i \in 1..Len(ks) |->
        [pos |-> ks[i].pos, size |-> ks[i].size, child |-> NoNode, min |-> 0]]

Pointer(node, first, last) == [pos |-> last, size |-> 0, child |-> node, min |-> first]

StartSet(entries) == {Start(entries[i]) : i \in 1..Len(entries)}

\* Nodes 1, 2, 3 are the leaves, 4 the root; a deeper tree has the leaves 1 and
\* 2 below a node 5.
MkTree(S, cut, deep) ==
  LET leaf == [n \in 1..3 |->
                 LeafKeys(S, IF n = 1 THEN 0 ELSE cut[n - 1] + 1, cut[n])]
      first(n) == IF n = 1 THEN 0 ELSE cut[n - 1] + 1
      ptr(n) == Pointer(n, first(n), cut[n])
      starts(n) == StartSet(leaf[n])
      all == starts(1) \cup starts(2) \cup starts(3)
  IN  IF deep
        THEN [root |-> 4,
              entries |-> leaf @@ (4 :> <<Pointer(5, 0, cut[2]), ptr(3)>>)
                               @@ (5 :> <<ptr(1), ptr(2)>>),
              height |-> [n \in 1..3 |-> 0] @@ (4 :> 2) @@ (5 :> 1),
              starts |-> [n \in 1..3 |-> starts(n)] @@ (4 :> all)
                               @@ (5 :> starts(1) \cup starts(2))]
        ELSE [root |-> 4,
              entries |-> leaf @@ (4 :> <<ptr(1), ptr(2), ptr(3)>>),
              height |-> [n \in 1..3 |-> 0] @@ (4 :> 1),
              starts |-> [n \in 1..3 |-> starts(n)] @@ (4 :> all)]

Shapes(keySets) ==
  {MkTree(S, cut, deep) : S \in keySets, deep \in BOOLEAN,
                          cut \in {c \in Cuts : c[1] < c[2]}}
=============================================================================
