------------------------------ MODULE BsetMerge ------------------------------
(***************************************************************************)
(* _Bcachefs_iter_build_bsets_cache: the N-way merge that turns the bsets  *)
(* of a btree node into one ascending array of key pointers (iter->keys).  *)
(* Every step of its two nested loops is an action.  Pointers to bkeys are *)
(* [bset, idx] pairs; a kcursors entry past the end of its bset is the     *)
(* code's NULL.  A definition Slip... is a slip in the one that follows    *)
(* it, for mutation testing of the properties; no specification uses it.   *)
(***************************************************************************)
EXTENDS BsetKeys

CONSTANT Nodes   \* the nodes the merge is run on: sequences of bsets, oldest first

ASSUME NodesAssumption == \A node \in Nodes : node \in Seq(Bset)

VARIABLES
  bsets,      \* the bsets found by the walk over the node
  kcursors,   \* per bset, the index of the next key to consider
  kptr,       \* the bset the inner loop is at; 0 when a round is over
  best,       \* candidate for the next slot (best and bpos of the code)
  last,       \* the key accepted last
  keys,       \* iter->keys
  status      \* "merging", "done", "aborted" (abort()), "crashed" (num = 0)

vars == <<bsets, kcursors, kptr, best, last, keys, status>>

NULL == [bset |-> 0, idx |-> 0]

KeyOf(p) == KeyAt(bsets, p)
Num == Len(bsets)
SlipAtEnd(b) == kcursors[b] >= Len(bsets[b])
AtEnd(b) == kcursors[b] > Len(bsets[b])
Cursor(b) == [bset |-> b, idx |-> kcursors[b]]
Current(b) == bsets[b][kcursors[b]]

\* A round of the inner loop starts at the most recent bset: kcursors + (num - 1).
SlipNewestBset == Num + 1
NewestBset == Num

Init == /\ bsets \in Nodes
        /\ kcursors = [b \in 1..Len(bsets) |-> 1]
        /\ kptr = NewestBset
        /\ best = NULL
        /\ last = NULL
        /\ keys = <<>>
        /\ status = "merging"

\* The inner loop looks at bset kptr, which has keys left.
Looking == status = "merging" /\ kptr > 0 /\ ~AtEnd(kptr)

\* The comparisons a visit makes, in their order; abort() on mixed formats.
ComparesWithLast == last # NULL
SlipPassesLastUnordered == ComparesWithLast => Comparable(KeyOf(last), Current(kptr))
SlipPassesLastUnchecked == ComparesWithLast => Less(KeyOf(last), Current(kptr))
PassesLast == ComparesWithLast => /\ Comparable(KeyOf(last), Current(kptr))
                                  /\ Less(KeyOf(last), Current(kptr))

\* while (!_bkey_packed_less(last, *kptr)): drop a key that is not beyond last.
Skip ==
  /\ Looking
  /\ ComparesWithLast
  /\ Comparable(KeyOf(last), Current(kptr))
  /\ ~Less(KeyOf(last), Current(kptr))
  /\ kcursors' = [kcursors EXCEPT ![kptr] = @ + 1]
  /\ UNCHANGED <<bsets, kptr, best, last, keys, status>>

\* if (*kptr == NULL) continue: nothing is left of this bset.
SlipExhausted ==
  /\ status = "merging" /\ kptr > 0 /\ AtEnd(kptr)
  /\ kptr' = NewestBset
  /\ UNCHANGED <<bsets, kcursors, best, last, keys, status>>

Exhausted ==
  /\ status = "merging" /\ kptr > 0 /\ AtEnd(kptr)
  /\ kptr' = kptr - 1
  /\ UNCHANGED <<bsets, kcursors, best, last, keys, status>>

\* Strictly less than the candidate: a newer bset keeps a duplicate.
SlipImproves(k) == best = NULL \/ ~Less(KeyOf(best), k)
Improves(k) == best = NULL \/ Less(k, KeyOf(best))

\* The rest of a visit: the key becomes the candidate or it does not.
Visit ==
  /\ Looking
  /\ PassesLast
  /\ best # NULL => Comparable(KeyOf(best), Current(kptr))
  /\ best' = IF Improves(Current(kptr)) THEN Cursor(kptr) ELSE best
  /\ kptr' = kptr - 1
  /\ UNCHANGED <<bsets, kcursors, last, keys, status>>

\* _bkey_packed_less(a, b) with a->format != b->format.
FormatsDiffer ==
  \/ ComparesWithLast /\ ~Comparable(KeyOf(last), Current(kptr))
  \/ PassesLast /\ best # NULL /\ ~Comparable(KeyOf(best), Current(kptr))

Abort ==
  /\ Looking
  /\ FormatsDiffer
  /\ status' = "aborted"
  /\ UNCHANGED <<bsets, kcursors, kptr, best, last, keys>>

\* KEY_TYPE_deleted and KEY_TYPE_hash_whiteout advance last, but are not kept.
SlipRecorded(p) == p # NULL
Recorded(p) == KeyOf(p).live

\* End of a round: accept the candidate and start the next round.
Take ==
  /\ status = "merging" /\ kptr = 0 /\ Num > 0 /\ best # NULL
  /\ last' = best
  /\ kcursors' = [kcursors EXCEPT ![best.bset] = @ + 1]
  /\ keys' = IF Recorded(best) THEN Append(keys, best) ELSE keys
  /\ best' = NULL
  /\ kptr' = NewestBset
  /\ UNCHANGED <<bsets, status>>

\* if (best == NULL) break.
Finish ==
  /\ status = "merging" /\ kptr = 0 /\ Num > 0 /\ best = NULL
  /\ status' = "done"
  /\ UNCHANGED <<bsets, kcursors, kptr, best, last, keys>>

\* A node without a key has no bset: kcursors + (num - 1) is computed with an
\* unsigned num = 0 and the first visit reads far outside the array.
Underflow ==
  /\ status = "merging" /\ Num = 0
  /\ status' = "crashed"
  /\ UNCHANGED <<bsets, kcursors, kptr, best, last, keys>>

Next == Skip \/ Exhausted \/ Visit \/ Abort \/ Take \/ Finish \/ Underflow

\* One thread runs the merge to its end.
Spec == Init /\ [][Next]_vars
FairSpec == Spec /\ WF_vars(Next)

-----------------------------------------------------------------------------
(* Properties *)

\* Every variable has its type: cursors stay within one past the end of their
\* bset, and pointers point at keys.
TypeOK ==
  /\ bsets \in Seq(Bset)
  /\ kcursors \in [1..Num -> Nat]
  /\ \A b \in 1..Num : kcursors[b] \in 1..(Len(bsets[b]) + 1)
  /\ kptr \in 0..Num
  /\ best \in Ptr(bsets) \cup {NULL}
  /\ last \in Ptr(bsets) \cup {NULL}
  /\ keys \in Seq(Ptr(bsets))
  /\ status \in {"merging", "done", "aborted", "crashed"}

\* iter->keys is strictly ascending, which the scan of _Bcachefs_find_bkey and
\* the order of an iteration rely on.
KeysAscending == \A i, j \in 1..Len(keys) :
                   i < j => Less(KeyOf(keys[i]), KeyOf(keys[j]))

\* "Since we look from the most recent bset, a duplicate will use the most
\* recent key": a key in the cache is the version of the newest bset that has
\* it, and a key whose newest version is a deletion never gets in.
OnlyNewest == \A i \in 1..Len(keys) : keys[i] \in Visible(bsets)

\* Nothing is lost: the finished cache holds every key whose newest version is
\* live.
NothingLost == status = "done" =>
                 \A p \in Visible(bsets) : \E i \in 1..Len(keys) : keys[i] = p

\* The merge of a node that packs keys both ways never completes: it reaches a
\* comparison of two formats and aborts, whatever the order of its keys.
MixedNeverDone == status = "done" => ~Mixed(bsets)

\* The merge of a node with keys of one packing ends with the cache built.
Completes == (Num > 0 /\ ~Mixed(bsets)) ~> (status = "done")

\* The cache implements the view a reader of the node is promised.
View == INSTANCE NodeView WITH complete <- (status = "done")
ImplementsView == View!Spec

\* The comment in the merge promises the most recent key for a duplicate.  Two
\* keys of one position that differ in size are duplicates for the reader (the
\* newer one replaces the older), but not for _bkey_packed_less.
NewestPerPosition == \A i \in 1..Len(keys) : \A q \in Ptr(bsets) :
   q.bset > keys[i].bset => KeyOf(q).pos # KeyOf(keys[i]).pos
=============================================================================
