------------------------------ MODULE BtreeFind ------------------------------
(***************************************************************************)
(* _Bcachefs_find_bkey: the search of a btree for the key that starts at a *)
(* reference position, behind find_extent, find_inode and find_dirent.     *)
(* stack is the chain of iterators from the root node down (iter, next_it, *)
(* ...), each with the index its linear scan is at.  A definition Slip...  *)
(* is a slip in the one that follows it, for mutation testing of the       *)
(* properties; no specification uses it.                                   *)
(***************************************************************************)
EXTENDS Btree

CONSTANTS
  Trees,        \* the btrees searched
  References    \* the positions searched for

ASSUME TreesAssumption == \A tree \in Trees : IsTree(tree)
ASSUME ReferencesAssumption == References \subseteq Nat

VARIABLES
  tree,      \* the btree
  ref,       \* the reference position
  stack,     \* the iterators, the root's first, with their scan positions
  lost,      \* the read of some child node failed
  result     \* "searching", "found", "none"

vars == <<tree, ref, stack, lost, result>>

Init == /\ tree \in Trees
        /\ ref \in References
        /\ stack = <<[node |-> tree.root, pos |-> 1]>>
        /\ lost = FALSE
        /\ result = "searching"

Depth == Len(stack)
Top == stack[Depth]
Entries(n) == tree.entries[n]
Scanning == result = "searching" /\ Top.pos <= Len(Entries(Top.node))
At == Entries(Top.node)[Top.pos]

\* ++pos in the scan of the iterator at depth d.
Bump(iters, d) == [iters EXCEPT ![d].pos = @ + 1]

\* The call on the deepest iterator returns NULL: its caller goes on with the
\* entry after the child ("continue to search from the current btree").
SlipReturnNullFinal == result' = "none" /\ stack' = stack
SlipReturnNullAgain ==
  IF Depth = 1
    THEN result' = "none" /\ stack' = stack
    ELSE stack' = SubSeq(stack, 1, Depth - 1) /\ result' = result
ReturnNull ==
  IF Depth = 1
    THEN result' = "none" /\ stack' = stack
    ELSE /\ stack' = Bump(SubSeq(stack, 1, Depth - 1), Depth - 1)
         /\ result' = result

\* The scan passes a key that is lesser than the reference.
Advance ==
  /\ Scanning
  /\ Start(At) < ref
  /\ stack' = Bump(stack, Depth)
  /\ UNCHANGED <<tree, ref, lost, result>>

\* pos == iter->num_keys
ScanEnds ==
  /\ result = "searching" /\ ~Scanning
  /\ ReturnNull
  /\ UNCHANGED <<tree, ref, lost>>

\* Bcachefs_next_iter: a new iterator at the start of the child's node.
SlipChild(e) == [node |-> e.child, pos |-> Top.pos]
Child(e) == [node |-> e.child, pos |-> 1]

\* A child whose min_key is not beyond the reference is read and searched.
SlipDescend ==
  /\ Scanning /\ ~IsLeaf(At)
  /\ Start(At) >= ref
  /\ stack' = Append(stack, Child(At))
  /\ UNCHANGED <<tree, ref, lost, result>>

Descend ==
  /\ Scanning /\ ~IsLeaf(At)
  /\ Start(At) >= ref /\ Lower(At) <= ref
  /\ stack' = Append(stack, Child(At))
  /\ UNCHANGED <<tree, ref, lost, result>>

\* ... unless Bcachefs_next_iter cannot read it.
DescendFails ==
  /\ Scanning /\ ~IsLeaf(At)
  /\ Start(At) >= ref /\ Lower(At) <= ref
  /\ lost' = TRUE
  /\ ReturnNull
  /\ UNCHANGED <<tree, ref>>

\* The first key that is not lesser starts a child beyond the reference, or is
\* a leaf key with another start.
Miss ==
  /\ Scanning
  /\ Start(At) >= ref
  /\ IF IsLeaf(At) THEN Start(At) # ref ELSE Lower(At) > ref
  /\ ReturnNull
  /\ UNCHANGED <<tree, ref, lost>>

Hit ==
  /\ Scanning /\ IsLeaf(At)
  /\ Start(At) = ref
  /\ result' = "found"
  /\ UNCHANGED <<tree, ref, stack, lost>>

Next == Advance \/ ScanEnds \/ Descend \/ DescendFails \/ Miss \/ Hit

\* A search runs to its end in the calling thread.
Spec == Init /\ [][Next]_vars
FairSpec == Spec /\ WF_vars(Next)

-----------------------------------------------------------------------------
(* Properties *)

\* The iterators form a path of the tree, each at an entry of its node or one
\* past the last, and each but the deepest at the child below it.
TypeOK ==
  /\ IsTree(tree) /\ ref \in Nat /\ lost \in BOOLEAN
  /\ result \in {"searching", "found", "none"}
  /\ stack \in Seq([node: DOMAIN tree.entries, pos: Nat]) /\ stack # <<>>
  /\ stack[1].node = tree.root
  /\ \A d \in 1..Depth :
       /\ stack[d].pos \in 1..(Len(Entries(stack[d].node)) + 1)
       /\ d < Depth => /\ stack[d].pos <= Len(Entries(stack[d].node))
                       /\ Entries(stack[d].node)[stack[d].pos].child = stack[d + 1].node

\* The search never answers with another key, and it answers "none" of a key
\* the tree holds only when a node could not be read or the key lies across
\* two nodes.
FindsExactly ==
  /\ result = "found" => ref \in tree.starts[tree.root]
  /\ result = "none" /\ ~lost /\ NoStraddling(tree) => ref \notin tree.starts[tree.root]

\* No search descends into more than two nodes of a level: the child that ends
\* at or after the reference and, when that ends right at it, the next.
BoundedDetour ==
  \A d \in 2..Depth :
    LET above == Entries(stack[d - 1].node)
        i == stack[d - 1].pos
    IN  i > 2 => above[i - 2].pos < ref

\* The search comes to an answer.
Terminates == <>(result # "searching")
=============================================================================
