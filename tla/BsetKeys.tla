------------------------------ MODULE BsetKeys ------------------------------
(***************************************************************************)
(* The keys of one btree node as they lie on disk: a sequence of bsets,    *)
(* oldest first, each a sequence of bkeys in ascending packed order.       *)
(* A key is abstracted to                                                  *)
(*   pos   the three position fields (inode, offset, snapshot) as a number *)
(*   size  the fields compared after them (size, version) as a number      *)
(*   live  FALSE for KEY_TYPE_deleted and KEY_TYPE_hash_whiteout           *)
(*   fmt   KEY_FORMAT_LOCAL_BTREE ("local") or KEY_FORMAT_CURRENT          *)
(*         ("current"): how the key is packed                              *)
(***************************************************************************)
EXTENDS Integers, Sequences

Key == [pos: Nat, size: Nat, live: BOOLEAN, fmt: {"local", "current"}]

\* _bkey_packed_less: lexicographic over every field, the position first.
Less(a, b) == \/ a.pos < b.pos
              \/ a.pos = b.pos /\ a.size < b.size

\* ... which abort()s before it compares keys packed in different formats.
Comparable(a, b) == a.fmt = b.fmt

\* The same key, for the merge: neither is less than the other.
SameKey(a, b) == a.pos = b.pos /\ a.size = b.size

\* The walk over a node skips bsets without keys; a bset is written sorted.
Bset == {s \in Seq(Key) : /\ s # <<>>
                          /\ \A i, j \in 1..Len(s) : i < j => Less(s[i], s[j])}

\* The places of a node's keys: pointers into its bsets.
Ptr(node) == UNION {[bset: {b}, idx: 1..Len(node[b])] : b \in 1..Len(node)}

KeyAt(node, p) == node[p.bset][p.idx]

\* No later bset of the node holds the key again: p is its current version.
Newest(node, p) == \A q \in Ptr(node) :
                     q.bset > p.bset => ~SameKey(KeyAt(node, q), KeyAt(node, p))

\* What a reader of the node should see: current versions that are not deletions.
Visible(node) == {p \in Ptr(node) : KeyAt(node, p).live /\ Newest(node, p)}

\* Keys of both packings in one node.
Mixed(node) == \E p, q \in Ptr(node) :
                 ~Comparable(KeyAt(node, p), KeyAt(node, q))
=============================================================================
