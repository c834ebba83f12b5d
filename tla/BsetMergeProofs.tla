--------------------------- MODULE BsetMergeProofs ---------------------------
(***************************************************************************)
(* Proofs about the bset merge, for every node: its keys come out in       *)
(* ascending order, each is the newest version, none is lost, and the      *)
(* merge implements the view of NodeView.                                  *)
(*                                                                         *)
(* The inductive invariant says what the two loops keep true in between:   *)
(* everything behind a cursor is not beyond the last accepted key, the     *)
(* cursors the inner loop has visited are beyond it, and the candidate is  *)
(* the least of those, from the newest bset that has it.                   *)
(***************************************************************************)
EXTENDS BsetMerge, FiniteSetTheorems, SequenceTheorems, TLAPS

\* A key before its bset's cursor is not beyond the last accepted key.
BehindLast ==
  \A b \in 1..Num : \A j \in 1..Len(bsets[b]) :
    j < kcursors[b] => /\ last # NULL
                       /\ ~Less(KeyOf(last), bsets[b][j])

\* The bsets the inner loop has visited in this round.
Visited == {b \in 1..Num : b > kptr}

\* Their cursors have moved beyond the last accepted key.
VisitedAhead ==
  \A b \in Visited : ~AtEnd(b) /\ last # NULL => Less(KeyOf(last), Current(b))

\* The candidate is a visited cursor, the least one, from the newest bset.
BestIsLeast ==
  /\ best = NULL => \A b \in Visited : AtEnd(b)
  /\ best # NULL => /\ best.bset \in Visited
                    /\ best.idx = kcursors[best.bset]
                    /\ \A b \in Visited : ~AtEnd(b) =>
                         /\ ~Less(Current(b), KeyOf(best))
                         /\ b > best.bset => Less(KeyOf(best), Current(b))

\* What has been recorded is visible and not beyond the last accepted key ...
RecordedVisible ==
  \A i \in 1..Len(keys) : /\ keys[i] \in Visible(bsets)
                          /\ last # NULL
                          /\ ~Less(KeyOf(last), KeyOf(keys[i]))

\* ... and every visible key that is not beyond it has been recorded.
VisibleRecorded ==
  \A p \in Visible(bsets) :
    last # NULL /\ ~Less(KeyOf(last), KeyOf(p)) => \E i \in 1..Len(keys) : keys[i] = p

\* A finished merge has used up every bset.
DoneAtEnd == status = "done" => \A b \in 1..Num : AtEnd(b)

MergeInv == /\ TypeOK
            /\ BehindLast
            /\ VisitedAhead
            /\ BestIsLeast
            /\ RecordedVisible
            /\ VisibleRecorded
            /\ KeysAscending
            /\ DoneAtEnd

-----------------------------------------------------------------------------
(* Facts about keys and the places of a node *)

\* The packed order is a strict weak order whose ties are the same key.
LEMMA LessOrder ==
  ASSUME NEW a \in Key, NEW b \in Key, NEW c \in Key
  PROVE  /\ ~Less(a, a)
         /\ Less(a, b) => ~Less(b, a)
         /\ Less(a, b) /\ Less(b, c) => Less(a, c)
         /\ ~Less(b, a) /\ Less(b, c) => Less(a, c)
         /\ Less(a, b) /\ ~Less(c, b) => Less(a, c)
         /\ ~Less(b, a) /\ ~Less(c, b) => ~Less(c, a)
         /\ ~Less(a, b) /\ ~Less(b, a) <=> SameKey(a, b)
BY DEF Less, SameKey, Key

\* A bset is a sequence of keys in strictly ascending order.
LEMMA BsetFacts ==
  ASSUME NEW node \in Seq(Bset), NEW b \in 1..Len(node)
  PROVE  /\ Len(node) \in Nat
         /\ Len(node[b]) \in Nat
         /\ \A j \in 1..Len(node[b]) : node[b][j] \in Key
         /\ \A i, j \in 1..Len(node[b]) : i < j => Less(node[b][i], node[b][j])
<1>1. node[b] \in Bset
  BY ElementOfSeq
<1>2. node[b] \in Seq(Key)
  BY <1>1 DEF Bset
<1>3. Len(node[b]) \in Nat /\ \A j \in 1..Len(node[b]) : node[b][j] \in Key
  BY <1>2, ElementOfSeq, LenProperties
<1> QED
  BY <1>1, <1>3, LenProperties DEF Bset

\* A place is a bset of the node and an index into it.
LEMMA PtrFacts ==
  ASSUME NEW node \in Seq(Bset), NEW p \in Ptr(node)
  PROVE  /\ p.bset \in 1..Len(node)
         /\ p.idx \in 1..Len(node[p.bset])
         /\ p = [bset |-> p.bset, idx |-> p.idx]
         /\ KeyAt(node, p) \in Key
<1>1. PICK b \in 1..Len(node) : p \in [bset: {b}, idx: 1..Len(node[b])]
  BY DEF Ptr
<1>2. /\ p.bset \in 1..Len(node)
      /\ p.idx \in 1..Len(node[p.bset])
      /\ p = [bset |-> p.bset, idx |-> p.idx]
  BY <1>1
<1> QED
  BY <1>2, BsetFacts DEF KeyAt

\* ... and every such pair is a place.
LEMMA PtrIntro ==
  ASSUME NEW node \in Seq(Bset), NEW b \in 1..Len(node), NEW j \in 1..Len(node[b])
  PROVE  [bset |-> b, idx |-> j] \in Ptr(node)
<1>1. [bset |-> b, idx |-> j] \in [bset: {b}, idx: 1..Len(node[b])]
  OBVIOUS
<1> QED
  BY <1>1 DEF Ptr

\* NULL is no place.
LEMMA NullIsNoPtr ==
  ASSUME NEW node \in Seq(Bset)
  PROVE  NULL \notin Ptr(node)
<1> SUFFICES ASSUME NULL \in Ptr(node)
             PROVE  FALSE
  OBVIOUS
<1>1. NULL.bset \in 1..Len(node)
  BY PtrFacts
<1> QED
  BY <1>1 DEF NULL

-----------------------------------------------------------------------------
(* The inductive invariant *)

\* The state of a merge is made of keys of the node.
LEMMA StateFacts ==
  ASSUME TypeOK
  PROVE  /\ bsets \in Seq(Bset)
         /\ Num \in Nat
         /\ \A b \in 1..Num :
              /\ Len(bsets[b]) \in Nat
              /\ kcursors[b] \in 1..(Len(bsets[b]) + 1)
              /\ \A j \in 1..Len(bsets[b]) : bsets[b][j] \in Key
              /\ ~AtEnd(b) => /\ kcursors[b] \in 1..Len(bsets[b])
                              /\ Current(b) \in Key
                              /\ Cursor(b) \in Ptr(bsets)
                              /\ KeyOf(Cursor(b)) = Current(b)
                              /\ Cursor(b) # NULL
         /\ best # NULL => /\ KeyOf(best) \in Key
                           /\ best.bset \in 1..Num
                           /\ best.idx \in 1..Len(bsets[best.bset])
         /\ last # NULL => KeyOf(last) \in Key
         /\ \A i \in 1..Len(keys) : keys[i] \in Ptr(bsets) /\ KeyOf(keys[i]) \in Key
         /\ \A p \in Ptr(bsets) : KeyOf(p) \in Key
<1>1. bsets \in Seq(Bset) /\ Num \in Nat
  BY LenProperties DEF TypeOK, Num
<1>2. ASSUME NEW b \in 1..Num
      PROVE  /\ Len(bsets[b]) \in Nat
             /\ kcursors[b] \in 1..(Len(bsets[b]) + 1)
             /\ \A j \in 1..Len(bsets[b]) : bsets[b][j] \in Key
             /\ ~AtEnd(b) => /\ kcursors[b] \in 1..Len(bsets[b])
                             /\ Current(b) \in Key
                             /\ Cursor(b) \in Ptr(bsets)
                             /\ KeyOf(Cursor(b)) = Current(b)
                             /\ Cursor(b) # NULL
  <2>1. /\ Len(bsets[b]) \in Nat
        /\ kcursors[b] \in 1..(Len(bsets[b]) + 1)
        /\ \A j \in 1..Len(bsets[b]) : bsets[b][j] \in Key
    BY <1>1, BsetFacts DEF TypeOK, Num
  <2>2. ASSUME ~AtEnd(b)
        PROVE  /\ kcursors[b] \in 1..Len(bsets[b])
               /\ Current(b) \in Key
               /\ Cursor(b) \in Ptr(bsets)
    <3>1. kcursors[b] \in 1..Len(bsets[b])
      BY <2>1, <2>2 DEF AtEnd
    <3>2. Cursor(b) \in Ptr(bsets)
      BY <1>1, <3>1, PtrIntro DEF Cursor, Num
    <3> QED
      BY <2>1, <3>1, <3>2 DEF Current
  <2>3. KeyOf(Cursor(b)) = Current(b)
    BY DEF KeyOf, KeyAt, Cursor, Current
  <2>4. ~AtEnd(b) => Cursor(b) # NULL
    BY <1>1, <2>2, NullIsNoPtr
  <2> QED
    BY <2>1, <2>2, <2>3, <2>4
<1>3. \A p \in Ptr(bsets) : KeyOf(p) \in Key
  BY <1>1, PtrFacts DEF KeyOf
<1>4. best # NULL => /\ KeyOf(best) \in Key
                     /\ best.bset \in 1..Num
                     /\ best.idx \in 1..Len(bsets[best.bset])
  BY <1>1, <1>3, PtrFacts DEF TypeOK, Num
<1>5. last # NULL => KeyOf(last) \in Key
  BY <1>3 DEF TypeOK
<1>6. \A i \in 1..Len(keys) : keys[i] \in Ptr(bsets) /\ KeyOf(keys[i]) \in Key
  BY <1>3, ElementOfSeq DEF TypeOK
<1> QED
  BY <1>1, <1>2, <1>3, <1>4, <1>5, <1>6

\* The merge starts in the invariant: nothing is behind a cursor or visited.
LEMMA InitMergeInv == Init => MergeInv
<1> SUFFICES ASSUME Init PROVE MergeInv
  OBVIOUS
<1>1. bsets \in Seq(Bset) /\ Num \in Nat
  BY NodesAssumption, LenProperties DEF Init, Num, NewestBset
<1>2. \A b \in 1..Num : Len(bsets[b]) \in Nat /\ kcursors[b] = 1
  BY <1>1, BsetFacts DEF Init, Num, NewestBset
<1>3. TypeOK
  <2>1. keys \in Seq(Ptr(bsets)) /\ kptr \in 0..Num
    BY <1>1, EmptySeq DEF Init, Num, NewestBset
  <2>2. \A b \in 1..Num : kcursors[b] \in 1..(Len(bsets[b]) + 1)
    BY <1>1, <1>2
  <2>3. kcursors \in [1..Num -> Nat]
    BY <1>1 DEF Init, Num, NewestBset
  <2> QED
    BY <1>1, <2>1, <2>2, <2>3 DEF Init, TypeOK
<1>4. BehindLast
  BY <1>1, <1>2 DEF BehindLast
<1>5. Visited = {}
  BY <1>1 DEF Visited, Init, Num, NewestBset
<1>6. VisitedAhead /\ BestIsLeast
  BY <1>5 DEF VisitedAhead, BestIsLeast, Init
<1>7. Len(keys) = 0 /\ last = NULL /\ status = "merging"
  BY EmptySeq DEF Init
<1>8. RecordedVisible /\ VisibleRecorded /\ KeysAscending /\ DoneAtEnd
  BY <1>7 DEF RecordedVisible, VisibleRecorded, KeysAscending, DoneAtEnd
<1> QED
  BY <1>3, <1>4, <1>6, <1>8 DEF MergeInv

\* Dropping a key that is not beyond the last accepted one moves the cursor of
\* the bset the inner loop is at, which it has not visited yet.
LEMMA SkipMergeInv == MergeInv /\ Skip => MergeInv'
<1> SUFFICES ASSUME MergeInv, Skip PROVE MergeInv'
  OBVIOUS
<1> USE DEF MergeInv
<1>0. /\ UNCHANGED <<bsets, kptr, best, last, keys, status>>
      /\ kptr \in 1..Num /\ kcursors[kptr] \in 1..Len(bsets[kptr])
      /\ kcursors' = [kcursors EXCEPT ![kptr] = @ + 1]
      /\ last # NULL /\ ~Less(KeyOf(last), bsets[kptr][kcursors[kptr]])
  BY StateFacts DEF Skip, Looking, TypeOK, ComparesWithLast, Current
<1>1. \A b \in 1..Num :
        kcursors'[b] = IF b = kptr THEN kcursors[b] + 1 ELSE kcursors[b]
  BY <1>0 DEF TypeOK
<1>2. TypeOK'
  <2>1. \A b \in 1..Num : kcursors'[b] \in 1..(Len(bsets[b]) + 1)
    BY <1>0, <1>1, StateFacts
  <2>2. kcursors' \in [1..Num -> Nat]
    BY <1>0, StateFacts DEF TypeOK
  <2> QED
    BY <1>0, <2>1, <2>2 DEF TypeOK, Num
<1>3. BehindLast'
  BY <1>0, <1>1, StateFacts DEF BehindLast, KeyOf, Num
<1>4. Visited' = Visited /\ \A b \in Visited : b \in 1..Num /\ kcursors'[b] = kcursors[b]
  BY <1>0, <1>1, StateFacts DEF Visited, Num
<1>5. VisitedAhead' /\ BestIsLeast'
  BY <1>0, <1>4 DEF VisitedAhead, BestIsLeast, AtEnd, Current, KeyOf
<1>6. RecordedVisible' /\ VisibleRecorded' /\ KeysAscending'
  BY <1>0 DEF RecordedVisible, VisibleRecorded, KeysAscending, KeyOf
<1>7. DoneAtEnd'
  BY <1>0 DEF DoneAtEnd, Skip, Looking
<1> QED
  BY <1>2, <1>3, <1>5, <1>6, <1>7

\* An exhausted bset joins the visited ones and constrains nothing.
LEMMA ExhaustedMergeInv == MergeInv /\ Exhausted => MergeInv'
<1> SUFFICES ASSUME MergeInv, Exhausted PROVE MergeInv'
  OBVIOUS
<1> USE DEF MergeInv
<1>0. /\ UNCHANGED <<bsets, kcursors, best, last, keys, status>>
      /\ kptr \in 1..Num /\ AtEnd(kptr) /\ kptr' = kptr - 1
      /\ status # "done"
  BY StateFacts DEF Exhausted, TypeOK
<1>1. TypeOK'
  BY <1>0, StateFacts DEF TypeOK, Num
<1>2. Visited' = Visited \cup {kptr}
  BY <1>0, StateFacts DEF Visited, Num
<1>3. VisitedAhead' /\ BestIsLeast'
  BY <1>0, <1>2 DEF VisitedAhead, BestIsLeast, AtEnd, Current, KeyOf
<1>4. BehindLast' /\ RecordedVisible' /\ VisibleRecorded' /\ KeysAscending' /\ DoneAtEnd'
  BY <1>0 DEF BehindLast, RecordedVisible, VisibleRecorded, KeysAscending,
              DoneAtEnd, KeyOf, Num
<1> QED
  BY <1>1, <1>3, <1>4

\* A visited key is beyond the last accepted one; the candidate stays the least
\* because it is replaced exactly by a lesser key of an older bset.
LEMMA VisitMergeInv == MergeInv /\ Visit => MergeInv'
<1> SUFFICES ASSUME MergeInv, Visit PROVE MergeInv'
  OBVIOUS
<1> USE DEF MergeInv
<1>0. /\ UNCHANGED <<bsets, kcursors, last, keys, status>>
      /\ kptr \in 1..Num /\ ~AtEnd(kptr) /\ kptr' = kptr - 1
      /\ status # "done"
      /\ last # NULL => Less(KeyOf(last), Current(kptr))
      /\ best' = IF Improves(Current(kptr)) THEN Cursor(kptr) ELSE best
  BY StateFacts DEF Visit, Looking, PassesLast, ComparesWithLast, TypeOK
<1>1. TypeOK'
  <2>1. best' \in Ptr(bsets) \cup {NULL}
    BY <1>0, StateFacts DEF TypeOK
  <2> QED
    BY <1>0, <2>1, StateFacts DEF TypeOK, Num
<1>2. Visited' = Visited \cup {kptr}
  BY <1>0, StateFacts DEF Visited, Num
<1>3. VisitedAhead'
  BY <1>0, <1>2 DEF VisitedAhead, AtEnd, Current, KeyOf
<1>4. BestIsLeast'
  <2>1. /\ \A b \in Visited' : b \in 1..Num
        /\ \A b \in 1..Num : Current(b)' = Current(b) /\ (AtEnd(b)' <=> AtEnd(b))
        /\ \A b \in Visited : b > kptr
    BY <1>0, <1>2, StateFacts DEF Visited, Current, AtEnd, Num
  <2>2. CASE Improves(Current(kptr))
    <3>1. best' = Cursor(kptr) /\ best' # NULL
      BY <1>0, <2>2, StateFacts
    <3>2. best'.bset = kptr /\ best'.idx = kcursors'[kptr] /\ KeyOf(best)' = Current(kptr)
      BY <1>0, <3>1 DEF Cursor, KeyOf, KeyAt, Current
    <3>3. \A b \in Visited : ~AtEnd(b) => Less(Current(kptr), Current(b))
      <4>1. SUFFICES ASSUME NEW b \in Visited, ~AtEnd(b)
                     PROVE  Less(Current(kptr), Current(b))
        OBVIOUS
      <4>2. best # NULL /\ ~Less(Current(b), KeyOf(best)) /\ b \in 1..Num
        BY <4>1, <2>1, <1>2 DEF BestIsLeast
      <4>3. Less(Current(kptr), KeyOf(best))
        BY <2>2, <4>2 DEF Improves
      <4> QED
        BY <1>0, <4>1, <4>2, <4>3, StateFacts, LessOrder
    <3>4. \A b \in Visited' : ~AtEnd(b)' => /\ ~Less(Current(b)', KeyOf(best)')
                                            /\ b > best'.bset => Less(KeyOf(best)', Current(b)')
      <4>1. SUFFICES ASSUME NEW b \in Visited', ~AtEnd(b)
                     PROVE  /\ ~Less(Current(b), Current(kptr))
                            /\ b > kptr => Less(Current(kptr), Current(b))
        BY <2>1, <3>2
      <4>2. Current(b) \in Key /\ Current(kptr) \in Key
        BY <1>0, <2>1, <4>1, StateFacts
      <4>3. CASE b = kptr
        BY <1>0, <4>2, <4>3, StateFacts, LessOrder
      <4>4. CASE b \in Visited
        BY <3>3, <4>1, <4>2, <4>4, LessOrder
      <4> QED
        BY <1>2, <4>3, <4>4
    <3> QED
      BY <1>2, <3>1, <3>2, <3>4 DEF BestIsLeast
  <2>3. CASE ~Improves(Current(kptr))
    <3>1. best' = best /\ best # NULL /\ ~Less(Current(kptr), KeyOf(best)) /\ KeyOf(best)' = KeyOf(best)
      BY <1>0, <2>3 DEF Improves, KeyOf
    <3>2. best.bset \in Visited /\ best.idx = kcursors[best.bset]
      BY <3>1 DEF BestIsLeast
    <3>3. ~(kptr > best.bset)
      <4>1. best.bset \in 1..Num /\ best.bset > kptr /\ Num \in Nat
        BY <3>2, StateFacts DEF Visited
      <4> QED
        BY <1>0, <4>1
    <3>4. \A b \in Visited' : ~AtEnd(b)' => /\ ~Less(Current(b)', KeyOf(best)')
                                            /\ b > best'.bset => Less(KeyOf(best)', Current(b)')
      BY <1>2, <2>1, <3>1, <3>3 DEF BestIsLeast
    <3> QED
      BY <1>0, <1>2, <3>1, <3>2, <3>4 DEF BestIsLeast
  <2> QED
    BY <2>2, <2>3
<1>5. BehindLast' /\ RecordedVisible' /\ VisibleRecorded' /\ KeysAscending' /\ DoneAtEnd'
  BY <1>0 DEF BehindLast, RecordedVisible, VisibleRecorded, KeysAscending,
              DoneAtEnd, KeyOf, Num
<1> QED
  BY <1>1, <1>3, <1>4, <1>5

\* When every bset has been visited, the candidate is the least key beyond the
\* last accepted one, and no newer bset holds it.
LEMMA BestIsNext ==
  ASSUME MergeInv, kptr = 0, best # NULL
  PROVE  /\ last # NULL => Less(KeyOf(last), KeyOf(best))
         /\ Newest(bsets, best)
         /\ \A p \in Ptr(bsets) :
              /\ Newest(bsets, p)
              /\ ~Less(KeyOf(best), KeyOf(p))
              /\ last # NULL => Less(KeyOf(last), KeyOf(p))
              => p = best
<1> USE DEF MergeInv
<1>1. Visited = 1..Num
  BY StateFacts DEF Visited
<1>2. /\ best \in Ptr(bsets) /\ best.bset \in 1..Num
      /\ best.idx = kcursors[best.bset] /\ best.idx \in 1..Len(bsets[best.bset])
      /\ KeyOf(best) = Current(best.bset) /\ ~AtEnd(best.bset)
      /\ best = [bset |-> best.bset, idx |-> best.idx]
  BY StateFacts, PtrFacts DEF BestIsLeast, TypeOK, KeyOf, KeyAt, Current, AtEnd
<1>3. last # NULL => Less(KeyOf(last), KeyOf(best))
  BY <1>1, <1>2 DEF VisitedAhead
\* A key at or after its bset's cursor is not less than the key at the cursor.
<1>4. ASSUME NEW p \in Ptr(bsets), last # NULL => Less(KeyOf(last), KeyOf(p))
      PROVE  /\ p.bset \in 1..Num /\ ~AtEnd(p.bset) /\ p.idx >= kcursors[p.bset]
             /\ p.idx \in 1..Len(bsets[p.bset])
             /\ p.idx # kcursors[p.bset] => Less(Current(p.bset), KeyOf(p))
             /\ p.idx = kcursors[p.bset] => Current(p.bset) = KeyOf(p)
  <2>1. p.bset \in 1..Num /\ p.idx \in 1..Len(bsets[p.bset]) /\ KeyOf(p) = bsets[p.bset][p.idx]
    BY StateFacts, PtrFacts DEF Num, KeyOf, KeyAt
  <2>2. p.idx >= kcursors[p.bset]
    <3>1. ~(p.idx < kcursors[p.bset])
      BY <1>4, <2>1 DEF BehindLast
    <3>2. p.idx \in Int /\ kcursors[p.bset] \in Int
      BY <2>1, StateFacts
    <3> QED
      BY <3>1, <3>2
  <2>3. ~AtEnd(p.bset) /\ kcursors[p.bset] \in 1..Len(bsets[p.bset])
    <3>1. Len(bsets[p.bset]) \in Nat /\ kcursors[p.bset] \in 1..(Len(bsets[p.bset]) + 1)
      BY <2>1, StateFacts
    <3> HIDE DEF MergeInv
    <3> QED
      BY <2>1, <2>2, <3>1 DEF AtEnd
  <2>4. p.idx # kcursors[p.bset] => Less(Current(p.bset), KeyOf(p))
    <3>1. \A i, j \in 1..Len(bsets[p.bset]) :
            i < j => Less(bsets[p.bset][i], bsets[p.bset][j])
      BY <2>1, StateFacts, BsetFacts DEF Num
    <3>2. p.idx # kcursors[p.bset] => kcursors[p.bset] < p.idx
      <4>1. p.idx \in Int /\ kcursors[p.bset] \in Int
        BY <2>1, <2>3
      <4> QED
        BY <2>2, <4>1
    <3> QED
      BY <2>1, <2>3, <3>1, <3>2 DEF Current
  <2> QED
    BY <2>1, <2>2, <2>3, <2>4 DEF Current
<1>5. Newest(bsets, best)
  <2>1. SUFFICES ASSUME NEW q \in Ptr(bsets), q.bset > best.bset
                 PROVE  ~SameKey(KeyOf(q), KeyOf(best))
    BY DEF Newest, KeyOf
  <2>2. KeyOf(q) \in Key /\ KeyOf(best) \in Key
    BY <1>2, StateFacts
  <2>3. CASE last # NULL /\ ~Less(KeyOf(last), KeyOf(q))
    <3>1. KeyOf(last) \in Key /\ Less(KeyOf(last), KeyOf(best))
      BY <1>3, <2>3, StateFacts
    <3> QED
      BY <2>2, <2>3, <3>1, LessOrder
  <2>4. CASE last # NULL => Less(KeyOf(last), KeyOf(q))
    <3>1. Current(q.bset) \in Key /\ Less(KeyOf(best), Current(q.bset))
      BY <1>1, <1>4, <2>1, <2>4, StateFacts DEF BestIsLeast
    <3>2. Less(KeyOf(best), KeyOf(q))
      BY <1>4, <2>2, <2>4, <3>1, LessOrder
    <3> QED
      BY <2>2, <3>2, LessOrder
  <2> QED
    BY <2>3, <2>4
<1>6. ASSUME NEW p \in Ptr(bsets), Newest(bsets, p), ~Less(KeyOf(best), KeyOf(p)),
             last # NULL => Less(KeyOf(last), KeyOf(p))
      PROVE  p = best
  <2>1. /\ p.bset \in 1..Num /\ ~AtEnd(p.bset)
        /\ Current(p.bset) \in Key /\ KeyOf(p) \in Key /\ KeyOf(best) \in Key
    BY <1>2, <1>4, <1>6, StateFacts
  <2>2. ~Less(Current(p.bset), KeyOf(best))
    BY <1>1, <2>1 DEF BestIsLeast
  <2>3. p.idx = kcursors[p.bset] /\ KeyOf(p) = Current(p.bset)
    BY <1>4, <1>6, <2>1, <2>2, LessOrder
  <2>4. SameKey(KeyOf(best), KeyOf(p))
    BY <1>6, <2>1, <2>2, <2>3, LessOrder
  <2>5. ~(p.bset > best.bset)
    BY <1>1, <1>6, <2>1, <2>3 DEF BestIsLeast
  <2>6. ~(best.bset > p.bset)
    BY <1>2, <1>6, <2>4 DEF Newest, KeyOf
  <2>7. p.bset = best.bset
    BY <1>2, <2>1, <2>5, <2>6, StateFacts
  <2>8. p = [bset |-> p.bset, idx |-> p.idx]
    BY StateFacts, PtrFacts
  <2> QED
    BY <1>2, <2>3, <2>7, <2>8
<1> QED
  BY <1>3, <1>5, <1>6

\* Accepting the candidate extends the recorded keys by the next visible key,
\* or passes over a deleted one.
LEMMA TakeMergeInv == MergeInv /\ Take => MergeInv'
<1> SUFFICES ASSUME MergeInv, Take PROVE MergeInv'
  OBVIOUS
<1> USE DEF MergeInv
<1>0. /\ UNCHANGED <<bsets, status>> /\ status # "done"
      /\ kptr = 0 /\ best # NULL /\ last' = best /\ best' = NULL /\ kptr' = Num
      /\ kcursors' = [kcursors EXCEPT ![best.bset] = @ + 1]
      /\ keys' = IF Recorded(best) THEN Append(keys, best) ELSE keys
      /\ best \in Ptr(bsets) /\ keys \in Seq(Ptr(bsets))
  BY DEF Take, NewestBset, TypeOK
<1>1. /\ Num' = Num /\ Num \in Nat /\ last' # NULL /\ KeyOf(last)' = KeyOf(best)
      /\ KeyOf(best) \in Key
      /\ best.bset \in 1..Num /\ best.idx = kcursors[best.bset]
      /\ best.idx \in 1..Len(bsets[best.bset])
      /\ \A p : KeyOf(p)' = KeyOf(p)
  BY <1>0, StateFacts DEF Num, KeyOf, BestIsLeast
<1>2. \A b \in 1..Num :
        kcursors'[b] = IF b = best.bset THEN kcursors[b] + 1 ELSE kcursors[b]
  BY <1>0, <1>1 DEF TypeOK
<1>3. /\ keys' \in Seq(Ptr(bsets))
      /\ Len(keys) \in Nat
      /\ Recorded(best) => /\ Len(keys') = Len(keys) + 1 /\ keys'[Len(keys) + 1] = best
                           /\ \A i \in 1..Len(keys) : keys'[i] = keys[i]
  BY <1>0, AppendProperties, LenProperties
<1>4. TypeOK'
  <2>1. ASSUME NEW b \in 1..Num PROVE kcursors'[b] \in 1..(Len(bsets[b]) + 1)
    <3>1. Len(bsets[b]) \in Nat /\ kcursors[b] \in 1..(Len(bsets[b]) + 1)
      BY StateFacts
    <3>2. CASE b = best.bset
      BY <1>1, <1>2, <3>1, <3>2
    <3>3. CASE b # best.bset
      BY <1>2, <3>1, <3>3
    <3> QED
      BY <3>2, <3>3
  <2>2. kcursors' \in [1..Num -> Nat]
    BY <1>0, <1>1, StateFacts DEF TypeOK
  <2> QED
    BY <1>0, <1>1, <1>3, <2>1, <2>2 DEF TypeOK
<1>5. BehindLast'
  <2>1. SUFFICES ASSUME NEW b \in 1..Num, NEW j \in 1..Len(bsets[b]), j < kcursors'[b]
                 PROVE  ~Less(KeyOf(best), bsets[b][j])
    BY <1>0, <1>1 DEF BehindLast
  <2>2. bsets[b][j] \in Key /\ j \in Nat /\ kcursors[b] \in Nat
    BY StateFacts
  <2>3. CASE j < kcursors[b]
    <3>1. last # NULL /\ ~Less(KeyOf(last), bsets[b][j]) /\ KeyOf(last) \in Key
      BY <2>3, StateFacts DEF BehindLast
    <3>2. Less(KeyOf(last), KeyOf(best))
      BY <1>0, <3>1, BestIsNext
    <3> QED
      BY <1>1, <2>2, <3>1, <3>2, LessOrder
  <2>4. CASE ~(j < kcursors[b])
    <3>1. b = best.bset /\ j = best.idx
      BY <1>1, <1>2, <2>1, <2>2, <2>4
    <3> QED
      BY <1>1, <3>1, <2>2, LessOrder DEF KeyOf, KeyAt
  <2> QED
    BY <2>3, <2>4
<1>6. Visited' = {}
  BY <1>0, <1>1 DEF Visited
<1>7. VisitedAhead' /\ BestIsLeast' /\ DoneAtEnd'
  BY <1>0, <1>6 DEF VisitedAhead, BestIsLeast, DoneAtEnd
<1>8. \A i \in 1..Len(keys) : Less(KeyOf(keys[i]), KeyOf(best))
  <2>1. SUFFICES ASSUME NEW i \in 1..Len(keys)
                 PROVE  Less(KeyOf(keys[i]), KeyOf(best))
    OBVIOUS
  <2>2. last # NULL /\ ~Less(KeyOf(last), KeyOf(keys[i])) /\ KeyOf(last) \in Key
        /\ KeyOf(keys[i]) \in Key
    BY StateFacts DEF RecordedVisible
  <2>3. Less(KeyOf(last), KeyOf(best))
    BY <1>0, <2>2, BestIsNext
  <2> QED
    BY <1>1, <2>2, <2>3, LessOrder
<1>9. Recorded(best) => best \in Visible(bsets)
  BY <1>0, BestIsNext DEF Recorded, Visible, KeyOf
<1>10. RecordedVisible'
  <2>1. \A i \in 1..Len(keys) : keys[i] \in Visible(bsets) /\ ~Less(KeyOf(best), KeyOf(keys[i]))
    BY <1>1, <1>8, StateFacts, LessOrder DEF RecordedVisible
  <2>2. ~Less(KeyOf(best), KeyOf(best))
    BY <1>1, LessOrder
  <2> QED
    BY <1>0, <1>1, <1>3, <1>9, <2>1, <2>2 DEF RecordedVisible
<1>11. VisibleRecorded'
  <2>1. SUFFICES ASSUME NEW p \in Visible(bsets), ~Less(KeyOf(best), KeyOf(p))
                 PROVE  \E i \in 1..Len(keys') : keys'[i] = p
    BY <1>0, <1>1 DEF VisibleRecorded
  <2>2. p \in Ptr(bsets) /\ Newest(bsets, p) /\ KeyOf(p).live
    BY DEF Visible, KeyOf
  <2>3. CASE last # NULL /\ ~Less(KeyOf(last), KeyOf(p))
    <3>1. PICK i \in 1..Len(keys) : keys[i] = p
      BY <2>3 DEF VisibleRecorded
    <3> QED
      BY <1>0, <1>3, <3>1
  <2>4. CASE last # NULL => Less(KeyOf(last), KeyOf(p))
    <3>1. p = best
      BY <1>0, <2>1, <2>2, <2>4, BestIsNext
    <3> QED
      BY <1>3, <2>2, <3>1 DEF Recorded
  <2> QED
    BY <2>3, <2>4
<1>12. KeysAscending'
  BY <1>0, <1>1, <1>3, <1>8 DEF KeysAscending
<1> QED
  BY <1>4, <1>5, <1>7, <1>10, <1>11, <1>12

\* The other steps end the merge; it is done only with no candidate left.
LEMMA FinishMergeInv == MergeInv /\ Finish => MergeInv'
<1> SUFFICES ASSUME MergeInv, Finish PROVE MergeInv'
  OBVIOUS
<1> USE DEF MergeInv
<1>0. UNCHANGED <<bsets, kcursors, kptr, best, last, keys>> /\ kptr = 0 /\ best = NULL /\ status' = "done"
  BY DEF Finish
<1>1. Visited = 1..Num
  BY <1>0, StateFacts DEF Visited
<1>2. DoneAtEnd'
  BY <1>0, <1>1 DEF DoneAtEnd, BestIsLeast, AtEnd, Num
<1>3. TypeOK' /\ BehindLast' /\ VisitedAhead' /\ BestIsLeast'
  BY <1>0 DEF TypeOK, BehindLast, VisitedAhead, BestIsLeast, Visited, AtEnd, Current, KeyOf, Num
<1> QED
  BY <1>0, <1>2, <1>3 DEF RecordedVisible, VisibleRecorded, KeysAscending, KeyOf

\* Stopping on a mixed node or on none at all, and stuttering, change nothing the
\* invariant is about.
LEMMA StopMergeInv == MergeInv /\ (Abort \/ Underflow \/ UNCHANGED vars) => MergeInv'
<1> SUFFICES ASSUME MergeInv, Abort \/ Underflow \/ UNCHANGED vars PROVE MergeInv'
  OBVIOUS
<1> USE DEF MergeInv
<1>0. /\ UNCHANGED <<bsets, kcursors, kptr, best, last, keys>>
      /\ status' \in {"aborted", "crashed", status}
  BY DEF Abort, Underflow, vars
<1>1. TypeOK' /\ DoneAtEnd'
  BY <1>0 DEF TypeOK, DoneAtEnd, AtEnd, Num
<1>2. BehindLast' /\ VisitedAhead' /\ BestIsLeast'
  BY <1>0 DEF BehindLast, VisitedAhead, BestIsLeast, Visited, AtEnd, Current, KeyOf, Num
<1> QED
  BY <1>0, <1>1, <1>2 DEF RecordedVisible, VisibleRecorded, KeysAscending, KeyOf

\* The invariant holds of every state of a merge.
THEOREM MergeInvariant == Spec => []MergeInv
<1>1. MergeInv /\ [Next]_vars => MergeInv'
  BY SkipMergeInv, ExhaustedMergeInv, VisitMergeInv, TakeMergeInv, FinishMergeInv,
     StopMergeInv DEF Next
<1> QED
  BY <1>1, InitMergeInv, PTL DEF Spec

-----------------------------------------------------------------------------
(* What follows from it *)

\* Cursors and pointers stay within the node's bsets, for every node.
THEOREM TypeCorrect == Spec => []TypeOK
<1>1. MergeInv => TypeOK
  BY DEF MergeInv
<1> QED
  BY <1>1, MergeInvariant, PTL

\* iter->keys is strictly ascending, for every node.
THEOREM CacheAscending == Spec => []KeysAscending
<1>1. MergeInv => KeysAscending
  BY DEF MergeInv
<1> QED
  BY <1>1, MergeInvariant, PTL

\* A duplicate uses the most recent key, for every node.
THEOREM CacheOnlyNewest == Spec => []OnlyNewest
<1>1. MergeInv => OnlyNewest
  BY DEF MergeInv, RecordedVisible, OnlyNewest
<1> QED
  BY <1>1, MergeInvariant, PTL

\* A merge that has used up every bset has passed every key of the node.
LEMMA EndBehindLast ==
  ASSUME MergeInv, \A b \in 1..Num : AtEnd(b), NEW p \in Ptr(bsets)
  PROVE  /\ p.bset \in 1..Num /\ p.idx \in 1..Len(bsets[p.bset])
         /\ p.idx < kcursors[p.bset]
         /\ last # NULL /\ ~Less(KeyOf(last), KeyOf(p))
<1>1. p.bset \in 1..Num /\ p.idx \in 1..Len(bsets[p.bset]) /\ AtEnd(p.bset)
  BY StateFacts, PtrFacts DEF MergeInv, Num
<1>2. p.idx < kcursors[p.bset]
  <2>1. Len(bsets[p.bset]) \in Nat /\ kcursors[p.bset] \in Nat
    BY <1>1, StateFacts DEF MergeInv
  <2> QED
    BY <1>1, <2>1 DEF AtEnd
<1> QED
  BY <1>1, <1>2 DEF MergeInv, BehindLast, KeyOf, KeyAt

\* The finished cache holds every visible key, for every node.
THEOREM CacheComplete == Spec => []NothingLost
<1>1. ASSUME MergeInv PROVE NothingLost
  <2>1. SUFFICES ASSUME status = "done", NEW p \in Visible(bsets)
                 PROVE  \E i \in 1..Len(keys) : keys[i] = p
    BY DEF NothingLost
  <2>2. last # NULL /\ ~Less(KeyOf(last), KeyOf(p))
    BY <1>1, <2>1, EndBehindLast DEF MergeInv, DoneAtEnd, Visible
  <2> QED
    BY <1>1, <2>2 DEF MergeInv, VisibleRecorded
<1> QED
  BY <1>1, MergeInvariant, PTL

-----------------------------------------------------------------------------
(* Nodes that pack keys both ways *)

\* What has been compared is packed one way: the keys behind a cursor and the
\* visited cursors like the last accepted key, these like the candidate too.
OnePacking ==
  /\ \A b \in 1..Num : \A j \in 1..Len(bsets[b]) :
       j < kcursors[b] => Comparable(KeyOf(last), bsets[b][j])
  /\ \A b \in Visited : ~AtEnd(b) =>
       /\ last # NULL => Comparable(KeyOf(last), Current(b))
       /\ Comparable(KeyOf(best), Current(b))

\* Before the merge no pointer has been taken.
LEMMA OnePackingInit == Init => OnePacking
<1> SUFFICES ASSUME Init PROVE OnePacking
  OBVIOUS
<1>1. bsets \in Seq(Bset) /\ Num \in Nat
  BY NodesAssumption, LenProperties DEF Init, Num, NewestBset
<1>2. \A b \in 1..Num : Len(bsets[b]) \in Nat /\ kcursors[b] = 1
  BY <1>1, BsetFacts DEF Init, Num, NewestBset
<1>3. Visited = {}
  BY <1>1 DEF Visited, Init, Num, NewestBset
<1> QED
  BY <1>1, <1>2, <1>3 DEF OnePacking

\* The merge gets no further than the first comparison of keys packed differently.
LEMMA OnePackingStep == MergeInv /\ OnePacking /\ [Next]_vars => OnePacking'
<1> SUFFICES ASSUME MergeInv, OnePacking, [Next]_vars PROVE OnePacking'
  OBVIOUS
<1>1. TypeOK
  BY DEF MergeInv
<1>2. CASE Skip
  <2>0. /\ UNCHANGED <<bsets, kptr, best, last, keys, status>>
        /\ kptr \in 1..Num /\ kcursors[kptr] \in 1..Len(bsets[kptr])
        /\ kcursors' = [kcursors EXCEPT ![kptr] = @ + 1]
        /\ Comparable(KeyOf(last), bsets[kptr][kcursors[kptr]])
    BY <1>1, <1>2, StateFacts DEF Skip, Looking, TypeOK, Current
  <2>1. \A b \in 1..Num :
          kcursors'[b] = IF b = kptr THEN kcursors[b] + 1 ELSE kcursors[b]
    BY <1>1, <2>0 DEF TypeOK
  <2>2. Visited' = Visited /\ \A b \in Visited : b \in 1..Num /\ kcursors'[b] = kcursors[b]
    BY <1>1, <2>0, <2>1, StateFacts DEF Visited, Num
  <2>3. \A b \in 1..Num : \A j \in 1..Len(bsets[b]) :
          j < kcursors'[b] => Comparable(KeyOf(last), bsets[b][j])
    <3>1. SUFFICES ASSUME NEW b \in 1..Num, NEW j \in 1..Len(bsets[b]), j < kcursors'[b]
                   PROVE  Comparable(KeyOf(last), bsets[b][j])
      OBVIOUS
    <3>2. j \in Nat /\ kcursors[b] \in Nat
      BY <1>1, StateFacts
    <3>3. j < kcursors[b] \/ (b = kptr /\ j = kcursors[kptr])
      BY <2>1, <3>1, <3>2
    <3> QED
      BY <2>0, <3>1, <3>3 DEF OnePacking
  <2> QED
    BY <2>0, <2>2, <2>3 DEF OnePacking, AtEnd, Current, KeyOf, Num
<1>3. CASE Exhausted
  <2>0. /\ UNCHANGED <<bsets, kcursors, best, last>>
        /\ kptr \in 1..Num /\ AtEnd(kptr) /\ kptr' = kptr - 1
    BY <1>1, <1>3 DEF Exhausted, TypeOK
  <2>1. Visited' = Visited \cup {kptr}
    BY <1>1, <2>0, StateFacts DEF Visited, Num
  <2> QED
    BY <2>0, <2>1 DEF OnePacking, AtEnd, Current, KeyOf, Num
<1>4. CASE Visit
  <2>0. /\ UNCHANGED <<bsets, kcursors, last>>
        /\ kptr \in 1..Num /\ ~AtEnd(kptr) /\ kptr' = kptr - 1
        /\ last # NULL => Comparable(KeyOf(last), Current(kptr))
        /\ best # NULL => Comparable(KeyOf(best), Current(kptr))
        /\ best' = IF Improves(Current(kptr)) THEN Cursor(kptr) ELSE best
        /\ ~Improves(Current(kptr)) => best # NULL
    BY <1>1, <1>4, StateFacts
       DEF Visit, Looking, PassesLast, ComparesWithLast, TypeOK, Improves
  <2>1. Visited' = Visited \cup {kptr}
    BY <1>1, <2>0, StateFacts DEF Visited, Num
  <2>2. Comparable(KeyOf(best)', Current(kptr))
    BY <1>1, <2>0, StateFacts DEF Comparable, KeyOf
  <2>3. \A b \in Visited : ~AtEnd(b) => Comparable(KeyOf(best)', Current(b))
    <3>1. SUFFICES ASSUME NEW b \in Visited, ~AtEnd(b)
                   PROVE  Comparable(KeyOf(best)', Current(b))
      OBVIOUS
    <3>2. best # NULL /\ Comparable(KeyOf(best), Current(b))
      BY <3>1 DEF MergeInv, BestIsLeast, OnePacking
    <3> QED
      BY <2>0, <2>2, <3>2 DEF Comparable, KeyOf
  <2> QED
    BY <2>0, <2>1, <2>2, <2>3 DEF OnePacking, AtEnd, Current, KeyOf, Num
<1>5. CASE Take
  <2>0. /\ UNCHANGED bsets /\ kptr = 0 /\ best # NULL /\ last' = best /\ kptr' = Num
        /\ kcursors' = [kcursors EXCEPT ![best.bset] = @ + 1]
        /\ best.bset \in 1..Num /\ best.idx = kcursors[best.bset]
        /\ KeyOf(best) = Current(best.bset) /\ ~AtEnd(best.bset)
    BY <1>1, <1>5, StateFacts DEF Take, NewestBset, MergeInv, BestIsLeast, KeyOf, KeyAt, Current, AtEnd
  <2>1. \A b \in 1..Num :
          kcursors'[b] = IF b = best.bset THEN kcursors[b] + 1 ELSE kcursors[b]
    BY <1>1, <2>0 DEF TypeOK
  <2>2. Visited' = {} /\ best.bset \in Visited
    BY <1>1, <2>0, StateFacts DEF Visited, Num
  <2>3. last # NULL => Comparable(KeyOf(last), KeyOf(best))
    BY <2>0, <2>2 DEF OnePacking
  <2>4. ASSUME NEW b \in 1..Num, NEW j \in 1..Len(bsets[b]), j < kcursors'[b]
        PROVE  Comparable(KeyOf(best), bsets[b][j])
    <3>1. j \in Nat /\ kcursors[b] \in Nat
      BY <1>1, StateFacts
    <3>2. CASE j < kcursors[b]
      <4>1. last # NULL /\ Comparable(KeyOf(last), bsets[b][j])
        BY <3>2 DEF MergeInv, BehindLast, OnePacking
      <4> QED
        BY <2>3, <4>1 DEF Comparable
    <3>3. CASE ~(j < kcursors[b])
      <4>1. b = best.bset /\ j = kcursors[b]
        BY <2>1, <2>4, <3>1, <3>3
      <4> QED
        BY <2>0, <4>1 DEF Comparable, Current
    <3> QED
      BY <3>2, <3>3
  <2> QED
    BY <2>0, <2>2, <2>4 DEF OnePacking, KeyOf, Num
<1>6. CASE Abort \/ Finish \/ Underflow \/ UNCHANGED vars
  <2>1. UNCHANGED <<bsets, kcursors, kptr, best, last>>
    BY <1>6 DEF Abort, Finish, Underflow, vars
  <2> QED
    BY <2>1 DEF OnePacking, Visited, AtEnd, Current, KeyOf, Num
<1> QED
  BY <1>2, <1>3, <1>4, <1>5, <1>6 DEF Next

\* No order of its keys lets a node that packs keys both ways be merged.
THEOREM MixedAlwaysAborts == Spec => []MixedNeverDone
<1>1. ASSUME MergeInv, OnePacking PROVE MixedNeverDone
  <2>1. SUFFICES ASSUME status = "done", NEW p \in Ptr(bsets), NEW q \in Ptr(bsets)
                 PROVE  Comparable(KeyOf(p), KeyOf(q))
    BY DEF MixedNeverDone, Mixed, KeyOf
  <2>2. ASSUME NEW r \in Ptr(bsets) PROVE Comparable(KeyOf(last), KeyOf(r))
    BY <1>1, <2>1, EndBehindLast DEF MergeInv, DoneAtEnd, OnePacking, KeyOf, KeyAt
  <2> QED
    BY <2>2 DEF Comparable
<1>2. MergeInv /\ OnePacking /\ [Next]_vars => OnePacking'
  BY OnePackingStep
<1> QED
  BY <1>1, <1>2, OnePackingInit, MergeInvariant, PTL DEF Spec

-----------------------------------------------------------------------------
(* The merge implements the view of a node *)

\* Before best is accepted, the keys delivered are the visible ones below it.
LEMMA DeliveredBelowBest ==
  ASSUME MergeInv, kptr = 0, best # NULL, NEW q \in Visible(bsets)
  PROVE  Less(KeyOf(q), KeyOf(best)) <=> \E i \in 1..Len(keys) : keys[i] = q
<1>1. KeyOf(q) \in Key /\ KeyOf(best) \in Key /\ q \in Ptr(bsets)
  BY StateFacts DEF MergeInv, Visible
<1>2. ASSUME NEW i \in 1..Len(keys), keys[i] = q
      PROVE  Less(KeyOf(q), KeyOf(best))
  <2>1. last # NULL /\ ~Less(KeyOf(last), KeyOf(q)) /\ KeyOf(last) \in Key
    BY <1>2, StateFacts DEF MergeInv, RecordedVisible
  <2>2. Less(KeyOf(last), KeyOf(best))
    BY <2>1, BestIsNext
  <2> QED
    BY <1>1, <2>1, <2>2, LessOrder
<1>3. ASSUME Less(KeyOf(q), KeyOf(best))
      PROVE  \E i \in 1..Len(keys) : keys[i] = q
  <2>1. CASE last # NULL /\ ~Less(KeyOf(last), KeyOf(q))
    BY <2>1 DEF MergeInv, VisibleRecorded
  <2>2. CASE last # NULL => Less(KeyOf(last), KeyOf(q))
    <3>1. ~Less(KeyOf(best), KeyOf(q)) /\ ~Less(KeyOf(best), KeyOf(best))
      BY <1>1, <1>3, LessOrder
    <3>2. q = best
      BY <1>1, <2>2, <3>1, BestIsNext DEF Visible
    <3> QED
      BY <1>3, <3>1, <3>2
  <2> QED
    BY <2>1, <2>2
<1> QED
  BY <1>2, <1>3

\* The view's operators on keys are those of the merge.
LEMMA ViewOperators ==
  /\ View!Bset = Bset
  /\ \A a, b : View!Less(a, b) <=> Less(a, b)
  /\ \A node, p : View!KeyAt(node, p) = KeyAt(node, p)
  /\ \A node : View!Visible(node) = Visible(node)
<1>1. \A a, b : (View!Less(a, b) <=> Less(a, b)) /\ (View!SameKey(a, b) <=> SameKey(a, b))
  BY DEF View!Less, Less, View!SameKey, SameKey
<1>2. View!Bset = Bset
  BY <1>1 DEF View!Bset, Bset, View!Key, Key
<1>3. \A node, p : View!KeyAt(node, p) = KeyAt(node, p)
  BY DEF View!KeyAt, KeyAt
<1>4. \A node : View!Ptr(node) = Ptr(node)
  BY DEF View!Ptr, Ptr
<1>5. \A node, p : View!Newest(node, p) <=> Newest(node, p)
  BY <1>1, <1>3, <1>4 DEF View!Newest, Newest
<1>6. \A node : View!Visible(node) = Visible(node)
  BY <1>3, <1>4, <1>5 DEF View!Visible, Visible
<1> QED
  BY <1>1, <1>2, <1>3, <1>6

\* Accepting a live candidate delivers it, finishing completes the view, and
\* every other step leaves the view as it is.
THEOREM MergeImplementsView == Spec => ImplementsView
<1>1. Init => View!Init
  BY NodesAssumption, ViewOperators DEF Init, View!Init
<1>2. ASSUME MergeInv, [Next]_vars
      PROVE  [View!Next]_View!vars
  <2>1. CASE Take /\ Recorded(best)
    <3>1. /\ UNCHANGED <<bsets, status>> /\ status # "done" /\ keys' = Append(keys, best)
          /\ kptr = 0 /\ best # NULL /\ best \in Ptr(bsets)
      BY <1>2, <2>1 DEF Take, MergeInv, TypeOK
    <3>2. best \in Visible(bsets)
      BY <1>2, <2>1, <3>1, BestIsNext DEF Visible, Recorded, KeyOf
    <3>3. \A q \in Visible(bsets) :
            Less(KeyOf(q), KeyOf(best)) <=> q \in View!Delivered
      BY <1>2, <3>1, DeliveredBelowBest DEF View!Delivered
    <3>4. ~Less(KeyOf(best), KeyOf(best))
      BY <1>2, <3>1, StateFacts, LessOrder DEF MergeInv
    <3>5. View!Deliver(best)
      <4>1. best \notin View!Delivered
        BY <3>2, <3>3, <3>4
      <4>2. \A q \in View!Visible(bsets) :
              View!Less(View!KeyAt(bsets, q), View!KeyAt(bsets, best)) <=> q \in View!Delivered
        BY <3>3, ViewOperators DEF KeyOf
      <4> QED
        BY <3>1, <4>1, <4>2, Zenon DEF View!Deliver
    <3> QED
      BY <3>2, <3>5, ViewOperators DEF View!Next
  <2>2. CASE Finish
    <3>1. UNCHANGED <<bsets, keys>> /\ status # "done" /\ status' = "done"
      BY <2>2 DEF Finish
    <3>2. \A b \in 1..Num : AtEnd(b)
      BY <1>2, <2>2, StateFacts DEF Finish, MergeInv, BestIsLeast, Visited
    <3>3. \A p \in Visible(bsets) : \E i \in 1..Len(keys) : keys[i] = p
      BY <1>2, <3>2, EndBehindLast DEF MergeInv, VisibleRecorded, Visible
    <3>4. Visible(bsets) = View!Delivered
      BY <1>2, <3>3 DEF View!Delivered, MergeInv, RecordedVisible
    <3>5. View!Complete
      BY <3>1, <3>4, ViewOperators, Zenon DEF View!Complete
    <3> QED
      BY <3>5 DEF View!Next
  <2>3. CASE ~Finish /\ ~(Take /\ Recorded(best))
    <3>1. UNCHANGED <<bsets, keys>> /\ (status' = "done" <=> status = "done")
      BY <1>2, <2>3 DEF Next, vars, Skip, Exhausted, Visit, Abort, Take, Underflow, Looking
    <3> QED
      BY <3>1 DEF View!vars
  <2> QED
    BY <2>1, <2>2, <2>3
<1> QED
  BY <1>1, <1>2, MergeInvariant, PTL DEF Spec, View!Spec, ImplementsView

-----------------------------------------------------------------------------
(* How long a merge may take *)

\* The keys that cursors have not passed.
Ahead == {p \in Ptr(bsets) : p.idx >= kcursors[p.bset]}

\* A bound of the steps until the merge is over: a round for each key ahead and
\* one more, a turn of the inner loop for each bset and the end of the round.
ToGo == IF status = "merging" THEN (Num + 1) * Cardinality(Ahead) + kptr + 1 ELSE 0

\* A node has finitely many keys.
LEMMA PtrFinite == ASSUME NEW node \in Seq(Bset) PROVE IsFiniteSet(Ptr(node))
<1> DEFINE PlacesOf(b) == [bset: {b}, idx: 1..Len(node[b])]
           all == {PlacesOf(b) : b \in 1..Len(node)}
           f == [b \in 1..Len(node) |-> PlacesOf(b)]
<1>1. IsFiniteSet(1..Len(node))
  BY LenProperties, FS_Interval
<1>2. f \in Surjection(1..Len(node), all)
  BY DEF Surjection
<1>3. IsFiniteSet(all)
  BY <1>1, <1>2, FS_Surjection
<1>4. ASSUME NEW b \in 1..Len(node) PROVE IsFiniteSet(PlacesOf(b))
  <2> DEFINE g == [j \in 1..Len(node[b]) |-> [bset |-> b, idx |-> j]]
  <2>1. Len(node[b]) \in Nat
    BY BsetFacts
  <2>2. IsFiniteSet(1..Len(node[b]))
    BY <2>1, FS_Interval
  <2>3. g \in Surjection(1..Len(node[b]), PlacesOf(b))
    BY DEF Surjection
  <2> QED
    BY <2>2, <2>3, FS_Surjection
<1>5. \A T \in all : IsFiniteSet(T)
  BY <1>4
<1>6. IsFiniteSet(UNION all)
  BY <1>3, <1>5, FS_UNION
<1> QED
  BY <1>6 DEF Ptr

\* A round less is more than the turns of one round.
LEMMA RoundLess ==
  ASSUME NEW m \in Nat, NEW c \in Nat, NEW d \in Nat, d < c
  PROVE  m * d \in Nat /\ m * c \in Nat /\ m * d + m <= m * c
<1>1. PICK k \in Nat : c = d + 1 + k
  <2>1. c - (d + 1) \in Nat /\ c = d + 1 + (c - (d + 1))
    OBVIOUS
  <2> QED
    BY <2>1
<1>2. m * d \in Nat /\ m * k \in Nat
  OBVIOUS
<1>3. m * c = m * d + m + m * k
  BY <1>1
<1> QED
  BY <1>2, <1>3

\* A cursor that moves on leaves its key behind.
LEMMA FewerAhead ==
  ASSUME TypeOK, NEW b \in 1..Num, ~AtEnd(b), bsets' = bsets,
         kcursors' = [kcursors EXCEPT ![b] = @ + 1]
  PROVE  /\ Cardinality(Ahead) \in Nat /\ Cardinality(Ahead)' \in Nat
         /\ Cardinality(Ahead)' < Cardinality(Ahead)
<1> DEFINE behind == {p \in Ptr(bsets) : p.idx >= kcursors'[p.bset]}
<1>1. IsFiniteSet(Ahead) /\ Cardinality(Ahead) \in Nat
  <2>1. IsFiniteSet(Ptr(bsets)) /\ Ahead \in SUBSET Ptr(bsets)
    BY PtrFinite DEF Ahead, TypeOK
  <2> QED
    BY <2>1, FS_Subset, FS_CardinalityType
<1>2. behind \subseteq Ahead
  <2>1. ASSUME NEW p \in Ptr(bsets), p.idx >= kcursors'[p.bset] PROVE p.idx >= kcursors[p.bset]
    <3>1. p.bset \in 1..Num /\ p.idx \in Nat /\ kcursors[p.bset] \in Nat
      <4>1. p.bset \in 1..Len(bsets) /\ p.idx \in 1..Len(bsets[p.bset])
        BY PtrFacts DEF TypeOK
      <4> QED
        BY <4>1, StateFacts DEF Num, TypeOK
    <3> QED
      BY <2>1, <3>1 DEF TypeOK
  <2> QED
    BY <2>1 DEF Ahead
<1>3. Cursor(b) \in Ahead /\ Cursor(b) \notin behind
  <2>1. Cursor(b) \in Ptr(bsets) /\ kcursors[b] \in Nat
    BY StateFacts DEF TypeOK
  <2>2. Cursor(b).bset = b /\ Cursor(b).idx = kcursors[b]
    BY DEF Cursor
  <2>3. kcursors'[b] = kcursors[b] + 1
    BY DEF TypeOK
  <2> QED
    BY <2>1, <2>2, <2>3 DEF Ahead
<1>4. Ahead' = behind
  BY DEF Ahead
<1>5. Cardinality(behind) \in Nat /\ Cardinality(behind) < Cardinality(Ahead)
  <2>1. /\ IsFiniteSet(behind) /\ Cardinality(behind) <= Cardinality(Ahead)
        /\ Cardinality(Ahead) = Cardinality(behind) => Ahead = behind
    BY <1>1, <1>2, FS_Subset
  <2>2. Cardinality(behind) \in Nat
    BY <2>1, FS_CardinalityType
  <2>3. Ahead # behind
    BY <1>3
  <2> QED
    BY <1>1, <2>1, <2>2, <2>3
<1> QED
  BY <1>1, <1>4, <1>5

\* The merge of any node is over after finitely many steps, however many bsets it
\* has and however many keys they share: every turn of the two nested loops
\* lowers a natural number.  An abort ends it too.
THEOREM MergeComesCloser == Spec => [][ToGo' < ToGo /\ ToGo \in Nat]_vars
<1> DEFINE Closer == ToGo' < ToGo /\ ToGo \in Nat
<1>1. ASSUME MergeInv, Next PROVE Closer
  <2>1. /\ TypeOK /\ Num \in Nat /\ kptr \in Nat
        /\ bsets' = bsets /\ Num' = Num /\ status = "merging"
    BY <1>1, StateFacts
       DEF MergeInv, TypeOK, Num, Next, Skip, Exhausted, Visit, Abort, Take, Finish, Underflow, Looking
  <2>2. Cardinality(Ahead) \in Nat
    BY <2>1, PtrFinite, FS_Subset, FS_CardinalityType DEF Ahead, TypeOK
  <2>3. PICK m \in Nat, c \in Nat : m = Num + 1 /\ c = Cardinality(Ahead) /\ m * c \in Nat
    <3>1. \A m, c \in Nat : m * c \in Nat
      OBVIOUS
    <3>2. Num + 1 \in Nat
      BY <2>1
    <3> QED
      BY <2>2, <3>1, <3>2, Zenon
  <2>4. ToGo = m * c + kptr + 1 /\ ToGo \in Nat
    BY <2>1, <2>3 DEF ToGo
  <2>5. CASE Skip
    <3>1. /\ kptr \in 1..Num /\ ~AtEnd(kptr) /\ kcursors' = [kcursors EXCEPT ![kptr] = @ + 1]
          /\ kptr' = kptr /\ status' = "merging"
      BY <2>1, <2>5 DEF Skip, Looking, TypeOK
    <3>2. PICK d \in Nat : d = Cardinality(Ahead)' /\ d < c
      BY <2>1, <2>3, <3>1, FewerAhead
    <3>3. ToGo' = m * d + kptr + 1
      BY <2>1, <2>3, <3>1, <3>2 DEF ToGo
    <3>4. m * d \in Nat /\ m * d + m <= m * c /\ m > 0
      BY <2>1, <2>3, <3>2, RoundLess
    <3> QED
      BY <2>1, <2>3, <2>4, <3>3, <3>4
  <2>6. CASE Exhausted \/ Visit
    <3>1. /\ kptr > 0 /\ kptr' = kptr - 1 /\ kcursors' = kcursors /\ status' = "merging"
      BY <2>1, <2>6 DEF Exhausted, Visit, Looking
    <3>2. Ahead' = Ahead
      BY <2>1, <3>1 DEF Ahead
    <3>3. ToGo' = m * c + kptr' + 1
      BY <2>1, <2>3, <3>1, <3>2 DEF ToGo
    <3> QED
      BY <2>1, <2>3, <2>4, <3>1, <3>3
  <2>7. CASE Take
    <3>1. /\ kptr = 0 /\ kptr' = Num /\ best # NULL /\ status' = "merging"
          /\ kcursors' = [kcursors EXCEPT ![best.bset] = @ + 1]
      BY <2>1, <2>7 DEF Take, NewestBset
    <3>2. best.bset \in 1..Num /\ ~AtEnd(best.bset)
      BY <1>1, <2>1, <3>1, StateFacts DEF MergeInv, BestIsLeast, AtEnd
    <3>3. PICK d \in Nat : d = Cardinality(Ahead)' /\ d < c
      BY <2>1, <2>3, <3>1, <3>2, FewerAhead
    <3>4. ToGo' = m * d + m
      BY <2>1, <2>3, <3>1, <3>3 DEF ToGo
    <3>5. m * d \in Nat /\ m * d + m <= m * c
      BY <2>3, <3>3, RoundLess
    <3> QED
      BY <2>3, <2>4, <3>1, <3>4, <3>5
  <2>8. CASE Abort \/ Finish \/ Underflow
    <3>1. status' # "merging"
      BY <2>8 DEF Abort, Finish, Underflow
    <3> QED
      BY <2>1, <2>3, <2>4, <3>1 DEF ToGo
  <2> QED
    BY <1>1, <2>5, <2>6, <2>7, <2>8 DEF Next
<1>2. MergeInv /\ [Next]_vars => [Closer]_vars
  BY <1>1
<1> QED
  BY <1>2, MergeInvariant, PTL DEF Spec

\* A merge in progress or done, of a node with keys that are all packed one way.
EndsWell == Num > 0 /\ ~Mixed(bsets) => status \in {"merging", "done"}

\* What a merge comes to is the cache: where a node has keys and all are packed one
\* way, neither the assertion on the formats fails nor is the array empty.
THEOREM UnmixedNeverAborts == Spec => []EndsWell
<1>1. Init => EndsWell
  BY DEF Init, EndsWell
<1>2. ASSUME MergeInv, EndsWell, [Next]_vars PROVE EndsWell'
  <2>1. CASE Abort
    <3>1. kptr \in 1..Num /\ ~AtEnd(kptr) /\ bsets' = bsets
      BY <1>2, <2>1 DEF Abort, Looking, MergeInv, TypeOK
    <3>2. Cursor(kptr) \in Ptr(bsets) /\ KeyOf(Cursor(kptr)) = Current(kptr)
      BY <1>2, <3>1, StateFacts DEF MergeInv
    <3>3. \E p \in Ptr(bsets) : ~Comparable(KeyOf(p), KeyOf(Cursor(kptr)))
      BY <1>2, <2>1, <3>2
         DEF Abort, FormatsDiffer, ComparesWithLast, MergeInv, TypeOK
    <3>4. Mixed(bsets)
      BY <3>2, <3>3 DEF Mixed, KeyOf
    <3> QED
      BY <3>1, <3>4 DEF EndsWell
  <2>2. CASE Underflow
    BY <1>2, <2>2, StateFacts DEF Underflow, EndsWell, Num, MergeInv
  <2>3. CASE Finish
    BY <2>3 DEF Finish, EndsWell
  <2>4. CASE ~Abort /\ ~Underflow /\ ~Finish
    <3>1. UNCHANGED <<bsets, status>>
      BY <1>2, <2>4 DEF Next, vars, Skip, Exhausted, Visit, Take
    <3> QED
      BY <1>2, <3>1 DEF EndsWell, Num
  <2> QED
    BY <2>1, <2>2, <2>3, <2>4
<1> QED
  BY <1>1, <1>2, MergeInvariant, PTL DEF Spec
=============================================================================
