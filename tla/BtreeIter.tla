------------------------------ MODULE BtreeIter ------------------------------
(***************************************************************************)
(* Bcachefs_iter_next: the depth-first traversal of a btree that extents(),*)
(* inodes() and dirents() are made of.  An iterator holds a copy of its    *)
(* node's keys, the index of the next one, and the iterator of the child   *)
(* it is in (next_it); stack is that chain, the root's iterator first.  A  *)
(* definition Slip... is a slip in the one that follows it, for mutation   *)
(* testing of the properties; no specification uses it.                    *)
(***************************************************************************)
EXTENDS Btree

CONSTANTS
  Trees,         \* the btrees iterated over
  Placeholder    \* the zeroed struct returned for a child that cannot be read

ASSUME TreesAssumption == \A tree \in Trees : IsTree(tree)
ASSUME PlaceholderAssumption == Placeholder \notin Nat

VARIABLES
  tree,      \* the btree
  bare,      \* start positions of its keys that have no value
  stack,     \* the iterators, each with the index of its next entry
  yields,    \* start positions of the keys returned, in order
  lost,      \* nodes that could not be read
  ended      \* Bcachefs_iter_next returned NULL

vars == <<tree, bare, stack, yields, lost, ended>>

\* Bcachefs_iter: a copy of the root's iterator, which reads nothing.
Init == /\ tree \in Trees
        /\ bare \in SUBSET tree.starts[tree.root]
        /\ stack = <<[node |-> tree.root, pos |-> 1]>>
        /\ yields = <<>>
        /\ lost = {}
        /\ ended = FALSE

Depth == Len(stack)
Top == stack[Depth]
Entries(n) == tree.entries[n]
SlipHasNext == ~ended /\ Top.pos < Len(Entries(Top.node))
HasNext == ~ended /\ Top.pos <= Len(Entries(Top.node))
At == Entries(Top.node)[Top.pos]

\* iter->bkey = iter->keys[iter->pos++]
Taken == Append(SubSeq(stack, 1, Depth - 1), [node |-> Top.node, pos |-> Top.pos + 1])

\* The value of a leaf's key is what is returned.
YieldLeaf ==
  /\ HasNext /\ IsLeaf(At)
  /\ Start(At) \notin bare
  /\ stack' = Taken
  /\ yields' = Append(yields, Start(At))
  /\ UNCHANGED <<tree, bare, lost, ended>>

\* A key without one (bch_val is NULL) is passed over.
PassLeaf ==
  /\ HasNext /\ IsLeaf(At)
  /\ Start(At) \in bare
  /\ stack' = Taken
  /\ UNCHANGED <<tree, bare, yields, lost, ended>>

\* A pointer is followed: Bcachefs_next_iter reads the child.
SlipDescend ==
  /\ HasNext /\ ~IsLeaf(At)
  /\ stack' = Append(stack, [node |-> At.child, pos |-> 1])
  /\ UNCHANGED <<tree, bare, yields, lost, ended>>

Descend ==
  /\ HasNext /\ ~IsLeaf(At)
  /\ stack' = Append(Taken, [node |-> At.child, pos |-> 1])
  /\ UNCHANGED <<tree, bare, yields, lost, ended>>

\* When the child cannot be read its pointer is returned as the value, out of
\* which iter_make_* makes a zeroed struct.
SlipDescendFails ==
  /\ HasNext /\ ~IsLeaf(At)
  /\ stack' = Taken
  /\ lost' = lost \cup {At.child}
  /\ UNCHANGED <<tree, bare, yields, ended>>

DescendFails ==
  /\ HasNext /\ ~IsLeaf(At)
  /\ stack' = Taken
  /\ yields' = Append(yields, Placeholder)
  /\ lost' = lost \cup {At.child}
  /\ UNCHANGED <<tree, bare, ended>>

\* The child is done: its iterator is freed and the parent's goes on.
SlipPop ==
  /\ ~ended /\ ~HasNext /\ Depth > 1
  /\ stack' = [SubSeq(stack, 1, Depth - 1) EXCEPT ![Depth - 1].pos = @ + 1]
  /\ UNCHANGED <<tree, bare, yields, lost, ended>>

Pop ==
  /\ ~ended /\ ~HasNext /\ Depth > 1
  /\ stack' = SubSeq(stack, 1, Depth - 1)
  /\ UNCHANGED <<tree, bare, yields, lost, ended>>

End ==
  /\ ~ended /\ ~HasNext /\ Depth = 1
  /\ ended' = TRUE
  /\ UNCHANGED <<tree, bare, stack, yields, lost>>

Next == YieldLeaf \/ PassLeaf \/ Descend \/ DescendFails \/ Pop \/ End

\* The consumer asks for items until there are none left.
Spec == Init /\ [][Next]_vars
FairSpec == Spec /\ WF_vars(Next)

-----------------------------------------------------------------------------
(* Properties *)

\* The keys with values that the iteration has still to come to, by the frames of
\* the stack.
ToComeAt(d) ==
  UNION {StartsOf(tree, Entries(stack[d].node)[i]) :
           i \in stack[d].pos..Len(Entries(stack[d].node))}
ToCome == (UNION {ToComeAt(d) : d \in 1..Depth}) \ bare

Returned == {yields[i] : i \in 1..Len(yields)} \ {Placeholder}
LostKeys == UNION {tree.starts[n] : n \in lost}

\* The iterators hold entries of their nodes.
TypeOK ==
  /\ IsTree(tree) /\ bare \subseteq tree.starts[tree.root]
  /\ stack \in Seq([node: DOMAIN tree.entries, pos: Nat]) /\ stack # <<>>
  /\ \A d \in 1..Depth : stack[d].pos \in 1..(Len(Entries(stack[d].node)) + 1)
  /\ yields \in Seq(Nat \cup {Placeholder})
  /\ lost \subseteq DOMAIN tree.entries
  /\ ended \in BOOLEAN

\* At every moment each key of the tree that has a value has been returned, is to
\* come, or was below a node that could not be read, and no other has: going up and
\* down the tree and over keys without values skips none.
NothingSkipped ==
  Returned \cup ToCome \cup (LostKeys \ bare) = tree.starts[tree.root] \ bare

\* Every iteration ends.
Terminates == <>ended

Scan == INSTANCE OrderedScan WITH todo <- ToCome
ImplementsScan == Scan!Spec
=============================================================================
