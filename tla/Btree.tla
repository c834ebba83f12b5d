------------------------------- MODULE Btree -------------------------------
(***************************************************************************)
(* The btrees of an image as the readers see them, after each node's bsets *)
(* have been merged: a node is an ascending sequence of entries, a leaf    *)
(* entry holding a key and an interior entry a pointer to a child node.    *)
(*   pos    position of the key: bpos of a leaf key, max_key of a child    *)
(*   size   number of sectors of an extent, which ENDS at pos; else 0      *)
(*   child  the child node, or NoNode for a leaf entry                     *)
(*   min    min_key of the child                                           *)
(* (inode, offset) is flattened to inode * Span + offset.  starts[n] is    *)
(* the set of start positions of all the keys below n.  A leaf without     *)
(* entries is one whose keys are all deleted.                              *)
(***************************************************************************)
EXTENDS Integers, Sequences, FiniteSets

CONSTANTS
  Span,      \* number of offsets of an inode
  NoNode     \* child of a leaf entry

ASSUME SpanAssumption == Span \in Nat \ {0}
ASSUME NoNodeAssumption == NoNode \notin Nat   \* nodes are numbers

Entry == [pos: Nat, size: Nat, child: Nat \cup {NoNode}, min: Nat]
IsLeaf(e) == e.child = NoNode

\* What _Bcachefs_find_bkey compares with: offset -= size.
Start(e) == e.pos - e.size

\* min_key, one less when its offset is not zero.
Lower(e) == IF e.min % Span = 0 THEN e.min ELSE e.min - 1

\* The start positions below an entry.
StartsOf(tree, e) == IF IsLeaf(e) THEN {Start(e)} ELSE tree.starts[e.child]

\* A tree as mkfs and the copied files leave it on disk.
IsTree(tree) ==
  LET nodes == DOMAIN tree.entries
      at(n) == tree.entries[n]
  IN
  /\ nodes \subseteq Nat /\ IsFiniteSet(nodes)
  /\ tree.root \in nodes
  /\ tree.entries \in [nodes -> Seq(Entry)]
  /\ tree.height \in [nodes -> Nat]
  /\ tree.starts \in [nodes -> SUBSET Nat]
  /\ \A n \in nodes :
       /\ tree.starts[n] = UNION {StartsOf(tree, at(n)[i]) : i \in 1..Len(at(n))}
       /\ \A i \in 1..Len(at(n)) :
            /\ at(n)[i].size <= at(n)[i].pos
            /\ IsLeaf(at(n)[i]) <=> tree.height[n] = 0
            /\ ~IsLeaf(at(n)[i]) => /\ at(n)[i].child \in nodes
                                    /\ tree.height[at(n)[i].child] < tree.height[n]
                                    /\ at(n)[i].size = 0
                                    /\ \A s \in tree.starts[at(n)[i].child] : s <= at(n)[i].pos
       \* Entries are in order, and extents do not overlap.
       /\ \A i, j \in 1..Len(at(n)) : i < j =>
            /\ at(n)[i].pos < at(n)[j].pos
            /\ ~IsLeaf(at(n)[j]) => /\ Lower(at(n)[i]) <= at(n)[i].pos
                                    /\ at(n)[i].pos <= Lower(at(n)[j])
            /\ \A s \in StartsOf(tree, at(n)[i]), t \in StartsOf(tree, at(n)[j]) : s < t

\* No key starts before the node that holds its end position.  Extents that
\* lie across the border of two nodes (extents_across_btree_nodes) break this.
NoStraddling(tree) ==
  \A n \in DOMAIN tree.entries : \A i \in 1..Len(tree.entries[n]) :
    LET e == tree.entries[n][i]
    IN  ~IsLeaf(e) => \A s \in tree.starts[e.child] : Lower(e) <= s
=============================================================================
