--------------------------- MODULE BtreeIterProofs ---------------------------
(***************************************************************************)
(* Proof that an iteration delivers every key it can read once and in      *)
(* order, for every tree and every set of nodes that cannot be read.  The  *)
(* inductive invariant: what is to come at a level of the chain lies in    *)
(* front of what is to come at the levels above it.                        *)
(***************************************************************************)
EXTENDS BtreeIter, FiniteSetTheorems, SequenceTheorems, TLAPS

\* The keys below the entries of a node from index p on, and those that a chain
\* of iterators has still to come to.
Rest(t, n, p) == UNION {StartsOf(t, t.entries[n][i]) : i \in p..Len(t.entries[n])}
RestOf(t, frame) == Rest(t, frame.node, frame.pos)
Coming(t, frames) == UNION {RestOf(t, frames[d]) : d \in 1..Len(frames)}

\* What is to come deeper comes before what is to come above.
DeeperFirst(t, frames) ==
  \A d, e \in 1..Len(frames) : d < e =>
    \A s \in RestOf(t, frames[e]), r \in RestOf(t, frames[d]) : s < r

IterInv == /\ TypeOK
           /\ DeeperFirst(tree, stack)
           /\ NothingSkipped
           /\ ended => ToCome = {}

\* The iterators over nodes of a tree, done or not.
Frame(t) == {f \in [node: DOMAIN t.entries, pos: Nat] :
               f.pos \in 1..(Len(t.entries[f.node]) + 1)}

\* What the chain of iterators has yet to return.
LEMMA ComingIsToCome == ToCome = Coming(tree, stack) \ bare
<1> DEFINE all == UNION {ToComeAt(d) : d \in 1..Depth}
<1>1. all = Coming(tree, stack)
  BY DEF ToComeAt, Coming, RestOf, Rest, Depth, Entries
<1>2. ToCome = all \ bare
  BY DEF ToCome
<1> HIDE DEF all
<1> QED
  BY <1>1, <1>2

\* What IsTree says of a node.
LEMMA NodeFacts ==
  ASSUME NEW t, IsTree(t), NEW n \in DOMAIN t.entries
  PROVE  /\ Len(t.entries[n]) \in Nat
         /\ t.root \in DOMAIN t.entries
         /\ t.starts[n] \subseteq Nat
         /\ t.starts[n] = UNION {StartsOf(t, t.entries[n][i]) : i \in 1..Len(t.entries[n])}
         /\ \A i \in 1..Len(t.entries[n]) :
              /\ ~IsLeaf(t.entries[n][i]) => t.entries[n][i].child \in DOMAIN t.entries
              /\ IsLeaf(t.entries[n][i]) => Start(t.entries[n][i]) \in Nat
         /\ \A i, j \in 1..Len(t.entries[n]) : i < j =>
              \A s \in StartsOf(t, t.entries[n][i]), r \in StartsOf(t, t.entries[n][j]) : s < r
<1> DEFINE es == t.entries[n]
<1>1. es \in Seq(Entry) /\ t.root \in DOMAIN t.entries /\ t.starts[n] \subseteq Nat
  BY DEF IsTree
<1>2. Len(es) \in Nat
  BY <1>1, LenProperties
<1>3. t.starts[n] = UNION {StartsOf(t, es[i]) : i \in 1..Len(es)}
  BY DEF IsTree
<1>4. \A i \in 1..Len(es) : ~IsLeaf(es[i]) => es[i].child \in DOMAIN t.entries
  BY DEF IsTree
<1>5. \A i, j \in 1..Len(es) : i < j =>
        \A s \in StartsOf(t, es[i]), r \in StartsOf(t, es[j]) : s < r
  BY DEF IsTree
<1>6. ASSUME NEW i \in 1..Len(es), IsLeaf(es[i]) PROVE Start(es[i]) \in Nat
  BY <1>1, <1>3, <1>6 DEF StartsOf
<1> QED
  BY <1>1, <1>2, <1>3, <1>4, <1>5, <1>6

\* The rest of a node: all of it at first, nothing at the end, and one entry less
\* with each step, whose keys come before the others.
LEMMA RestFacts ==
  ASSUME NEW t, IsTree(t), NEW n \in DOMAIN t.entries, NEW p \in Nat \ {0}
  PROVE  /\ Rest(t, n, 1) = t.starts[n]
         /\ Rest(t, n, p) \subseteq Nat
         /\ p > Len(t.entries[n]) => Rest(t, n, p) = {}
         /\ p <= Len(t.entries[n]) =>
              LET first == StartsOf(t, t.entries[n][p]) IN
              /\ Rest(t, n, p) = first \cup Rest(t, n, p + 1)
              /\ \A s \in first, r \in Rest(t, n, p + 1) : s < r
<1> DEFINE es == t.entries[n]
           From(q) == UNION {StartsOf(t, es[i]) : i \in q..Len(es)}
<1>1. \A q : Rest(t, n, q) = From(q)
  BY DEF Rest
<1>2. Len(es) \in Nat /\ t.starts[n] \subseteq Nat /\ t.starts[n] = From(1)
      /\ \A i, j \in 1..Len(es) : i < j =>
           \A s \in StartsOf(t, es[i]), r \in StartsOf(t, es[j]) : s < r
  BY NodeFacts
<1>3. From(p) \subseteq From(1)
  <2>1. p..Len(es) \subseteq 1..Len(es)
    BY <1>2
  <2>2. QED
    BY <2>1
<1>4. p > Len(es) => From(p) = {}
  <2>1. p > Len(es) => p..Len(es) = {}
    BY <1>2
  <2>2. QED
    BY <2>1
<1>5. ASSUME p <= Len(es)
      PROVE  /\ From(p) = StartsOf(t, es[p]) \cup From(p + 1)
             /\ \A s \in StartsOf(t, es[p]), r \in From(p + 1) : s < r
  <2>1. p..Len(es) = {p} \cup (p + 1)..Len(es)
    BY <1>2, <1>5
  <2>2. \A j \in (p + 1)..Len(es) : p \in 1..Len(es) /\ j \in 1..Len(es) /\ p < j
    BY <1>2, <1>5
  <2>3. QED
    BY <1>2, <2>1, <2>2
<1>6. QED
  BY <1>1, <1>2, <1>3, <1>4, <1>5

\* The chain as a base and its deepest iterator.
LEMMA ChainParts ==
  ASSUME NEW t, NEW frames \in Seq(Frame(t)), NEW f \in Frame(t)
  PROVE  /\ Append(frames, f) \in Seq(Frame(t))
         /\ Len(Append(frames, f)) = Len(frames) + 1
         /\ Coming(t, Append(frames, f)) = Coming(t, frames) \cup RestOf(t, f)
         /\ DeeperFirst(t, Append(frames, f)) <=>
              /\ DeeperFirst(t, frames)
              /\ \A s \in RestOf(t, f), r \in Coming(t, frames) : s < r
<1> DEFINE all == Append(frames, f)
           n == Len(frames)
<1>1. n \in Nat /\ all \in Seq(Frame(t)) /\ Len(all) = n + 1
      /\ all[n + 1] = f /\ \A i \in 1..n : all[i] = frames[i]
  BY AppendProperties, LenProperties
<1> HIDE DEF all, n
<1>2. 1..(n + 1) = 1..n \cup {n + 1}
  BY <1>1
<1>3. Coming(t, all) = Coming(t, frames) \cup RestOf(t, f)
  BY <1>1, <1>2 DEF Coming, n
<1>4. ASSUME DeeperFirst(t, all)
      PROVE  /\ DeeperFirst(t, frames)
             /\ \A s \in RestOf(t, f), r \in Coming(t, frames) : s < r
  <2>1. \A d, e \in 1..n : d \in 1..(n + 1) /\ e \in 1..(n + 1)
    BY <1>1
  <2>2. \A d \in 1..n : d \in 1..(n + 1) /\ n + 1 \in 1..(n + 1) /\ d < n + 1
    BY <1>1
  <2>3. DeeperFirst(t, frames)
    BY <1>1, <1>4, <2>1 DEF DeeperFirst, n
  <2>4. \A d \in 1..n : \A s \in RestOf(t, f), r \in RestOf(t, frames[d]) : s < r
    BY <1>1, <1>4, <2>2 DEF DeeperFirst
  <2>5. QED
    BY <2>3, <2>4 DEF Coming, n
<1>5. ASSUME DeeperFirst(t, frames),
             \A s \in RestOf(t, f), r \in Coming(t, frames) : s < r
      PROVE  DeeperFirst(t, all)
  <2>1. SUFFICES ASSUME NEW d \in 1..(n + 1), NEW e \in 1..(n + 1), d < e,
                        NEW s \in RestOf(t, all[e]), NEW r \in RestOf(t, all[d])
                 PROVE  s < r
    BY <1>1 DEF DeeperFirst
  <2>2. d \in 1..n
    BY <1>1, <2>1
  <2>3. CASE e = n + 1
    BY <1>1, <1>5, <2>2, <2>3 DEF Coming, n
  <2>4. CASE e # n + 1
    BY <1>1, <1>2, <1>5, <2>1, <2>2, <2>4 DEF DeeperFirst, n
  <2>5. QED
    BY <2>3, <2>4
<1>6. QED
  BY <1>1, <1>3, <1>4, <1>5 DEF all, n

\* TypeOK says of the chain that it is one of such iterators.
WellFormed ==
  /\ IsTree(tree) /\ bare \subseteq tree.starts[tree.root]
  /\ stack \in Seq(Frame(tree)) /\ stack # <<>>
  /\ yields \in Seq(Nat \cup {Placeholder})
  /\ lost \subseteq DOMAIN tree.entries
  /\ ended \in BOOLEAN

\* The type invariant is that the chain is well formed.
LEMMA StackType == TypeOK <=> WellFormed
<1> DEFINE Any == [node: DOMAIN tree.entries, pos: Nat]
<1>1. ASSUME stack \in Seq(Any),
             \A d \in 1..Depth : stack[d].pos \in 1..(Len(Entries(stack[d].node)) + 1)
      PROVE  stack \in Seq(Frame(tree))
  <2>1. \A d \in 1..Len(stack) : stack[d] \in Frame(tree)
    BY <1>1, ElementOfSeq DEF Frame, Depth, Entries
  <2>2. Len(stack) \in Nat /\ SubSeq(stack, 1, Len(stack)) = stack
    BY <1>1, LenProperties, SubSeqFull
  <2>3. SubSeq(stack, 1, Len(stack)) \in Seq(Frame(tree))
    BY <2>1, <2>2, SubSeqProperties
  <2> QED
    BY <2>2, <2>3
<1>2. ASSUME stack \in Seq(Frame(tree))
      PROVE  /\ stack \in Seq(Any)
             /\ \A d \in 1..Depth : stack[d].pos \in 1..(Len(Entries(stack[d].node)) + 1)
  <2>1. Frame(tree) \subseteq Any
    BY DEF Frame
  <2>2. stack \in Seq(Any)
    BY <1>2, <2>1, SeqMonotonic
  <2>3. \A d \in 1..Len(stack) : stack[d] \in Frame(tree)
    BY <1>2, ElementOfSeq
  <2> QED
    BY <2>2, <2>3 DEF Frame, Depth, Entries
<1> QED
  BY <1>1, <1>2 DEF TypeOK, WellFormed

Base == SubSeq(stack, 1, Depth - 1)
Moved == [node |-> Top.node, pos |-> Top.pos + 1]

\* The chain is its deepest iterator on top of the others.
LEMMA StackParts ==
  ASSUME TypeOK
  PROVE  /\ Depth \in Nat \ {0}
         /\ Base \in Seq(Frame(tree)) /\ Len(Base) = Depth - 1
         /\ Top \in Frame(tree)
         /\ stack = Append(Base, Top)
         /\ Taken = Append(Base, Moved)
<1>1. stack \in Seq(Frame(tree)) /\ stack # <<>>
  BY StackType DEF WellFormed
<1>2. Depth \in Nat \ {0}
  BY <1>1, EmptySeq DEF Depth
<1>3. \A d \in 1..Depth : stack[d] \in Frame(tree)
  BY <1>1, ElementOfSeq DEF Depth
<1>4. Top \in Frame(tree)
  BY <1>2, <1>3 DEF Top
<1>5. /\ Base \in Seq(Frame(tree)) /\ Len(Base) = Depth - 1
      /\ \A i \in 1..(Depth - 1) : Base[i] = stack[i]
  <2>1. \A i \in 1..(Depth - 1) : stack[i] \in Frame(tree)
    BY <1>2, <1>3
  <2>2. /\ SubSeq(stack, 1, Depth - 1) \in Seq(Frame(tree))
        /\ Len(SubSeq(stack, 1, Depth - 1)) = IF 1 <= Depth - 1 THEN Depth - 1 - 1 + 1 ELSE 0
        /\ \A i \in 1..(Depth - 1 - 1 + 1) : SubSeq(stack, 1, Depth - 1)[i] = stack[1 + i - 1]
    BY <1>2, <2>1, SubSeqProperties
  <2> QED
    BY <1>2, <2>2 DEF Base
<1>6. stack = Append(Base, Top)
  <2>1. /\ Append(Base, Top) \in Seq(Frame(tree)) /\ Len(Append(Base, Top)) = Depth
        /\ \A i \in 1..Depth : Append(Base, Top)[i] = stack[i]
    BY <1>2, <1>4, <1>5, AppendProperties DEF Top
  <2> QED
    BY <1>1, <2>1, SeqEqual DEF Depth
<1> QED
  BY <1>2, <1>4, <1>5, <1>6 DEF Taken, Moved, Base

\* Taking the next entry: its keys come before all that is then still to come.
LEMMA TakeFacts ==
  ASSUME IterInv, HasNext
  PROVE  /\ tree.entries[Top.node][Top.pos] = At
         /\ Taken \in Seq(Frame(tree)) /\ Taken # <<>>
         /\ ToCome = (StartsOf(tree, At) \cup Coming(tree, Taken)) \ bare
         /\ \A s \in StartsOf(tree, At), r \in Coming(tree, Taken) : s < r
         /\ DeeperFirst(tree, Taken)
         /\ IsLeaf(At) => StartsOf(tree, At) = {Start(At)} /\ Start(At) \in Nat
         /\ ~IsLeaf(At) => /\ At.child \in DOMAIN tree.entries
                           /\ StartsOf(tree, At) = tree.starts[At.child]
<1> DEFINE first == StartsOf(tree, At)
           rest == RestOf(tree, Moved)
           above == Coming(tree, Base)
<1>1. IsTree(tree) /\ TypeOK
  BY StackType DEF IterInv, WellFormed
<1>2. /\ Base \in Seq(Frame(tree)) /\ Top \in Frame(tree)
      /\ stack = Append(Base, Top) /\ Taken = Append(Base, Moved)
  BY <1>1, StackParts
<1>3. /\ Top.node \in DOMAIN tree.entries /\ Top.pos \in Nat \ {0}
      /\ Top.pos <= Len(tree.entries[Top.node])
      /\ tree.entries[Top.node][Top.pos] = At
  BY <1>2 DEF Frame, HasNext, At, Entries
<1>4. Len(tree.entries[Top.node]) \in Nat
  BY <1>1, <1>3, NodeFacts
<1>5. Moved \in Frame(tree)
  BY <1>3, <1>4 DEF Moved, Frame
<1>6. RestOf(tree, Top) = first \cup rest /\ \A s \in first, r \in rest : s < r
  BY <1>1, <1>3, RestFacts DEF RestOf, Moved
<1>7. /\ ToCome = (above \cup RestOf(tree, Top)) \ bare
      /\ DeeperFirst(tree, Base)
      /\ \A s \in RestOf(tree, Top), r \in above : s < r
  <2>1. ToCome = Coming(tree, stack) \ bare /\ DeeperFirst(tree, stack)
    BY ComingIsToCome DEF IterInv
  <2> QED
    BY <1>2, <2>1, ChainParts
<1>8. /\ Taken \in Seq(Frame(tree)) /\ Len(Taken) = Len(Base) + 1
      /\ Coming(tree, Taken) = above \cup rest
      /\ DeeperFirst(tree, Taken) <=> /\ DeeperFirst(tree, Base)
                                      /\ \A s \in rest, r \in above : s < r
  BY <1>2, <1>5, ChainParts
<1>9. Taken # <<>>
  BY <1>2, <1>5, AppendProperties
<1>10. IsLeaf(At) => first = {Start(At)} /\ Start(At) \in Nat
  <2>1. Top.pos \in 1..Len(tree.entries[Top.node])
    BY <1>3, <1>4
  <2>2. IsLeaf(At) => Start(At) \in Nat
    BY <1>1, <1>3, <2>1, NodeFacts
  <2> QED
    BY <2>2 DEF StartsOf
<1>11. ~IsLeaf(At) => At.child \in DOMAIN tree.entries /\ first = tree.starts[At.child]
  <2>1. Top.pos \in 1..Len(tree.entries[Top.node])
    BY <1>3, <1>4
  <2>2. ~IsLeaf(At) => At.child \in DOMAIN tree.entries
    BY <1>1, <1>3, <2>1, NodeFacts
  <2> QED
    BY <2>2 DEF StartsOf
<1> QED
  BY <1>3, <1>6, <1>7, <1>8, <1>9, <1>10, <1>11

\* What is returned after one more item.
LEMMA ReturnedMore ==
  ASSUME yields \in Seq(Nat \cup {Placeholder}), NEW v \in Nat \cup {Placeholder},
         yields' = Append(yields, v)
  PROVE  /\ yields' \in Seq(Nat \cup {Placeholder})
         /\ Returned' = Returned \cup ({v} \ {Placeholder})
<1> DEFINE n == Len(yields)
<1>1. /\ n \in Nat /\ Len(yields') = n + 1 /\ yields'[n + 1] = v
      /\ \A i \in 1..n : yields'[i] = yields[i]
      /\ yields' \in Seq(Nat \cup {Placeholder})
  BY AppendProperties, LenProperties
<1>2. 1..(n + 1) = 1..n \cup {n + 1}
  BY <1>1
<1>3. Returned' = {yields'[i] : i \in 1..(n + 1)} \ {Placeholder}
  BY <1>1 DEF Returned
<1>4. Returned = {yields[i] : i \in 1..n} \ {Placeholder}
  BY DEF Returned
<1> HIDE DEF n
<1> QED
  BY <1>1, <1>2, <1>3, <1>4

\* The same in terms of the next chain.
LEMMA NextToCome == ToCome' = Coming(tree', stack') \ bare'
<1>1. (ToCome = Coming(tree, stack) \ bare)'
  BY ComingIsToCome, PTL
<1>2. Coming(tree, stack)' = Coming(tree', stack')
  BY DEF Coming, RestOf, Rest, StartsOf
<1> QED
  BY <1>1, <1>2

-----------------------------------------------------------------------------
(* The steps.  Each keeps the invariant and is a step of the scan or none. *)

\* What is to come at first is the whole tree.
LEMMA InitStarts == Init => IterInv /\ Scan!Init
<1> SUFFICES ASSUME Init PROVE IterInv /\ Scan!Init
  OBVIOUS
<1> DEFINE f == [node |-> tree.root, pos |-> 1]
<1>1. /\ IsTree(tree) /\ bare \subseteq tree.starts[tree.root]
      /\ stack = <<f>> /\ yields = <<>> /\ lost = {} /\ ended = FALSE
  BY TreesAssumption DEF Init
<1>2. tree.root \in DOMAIN tree.entries
  BY <1>1 DEF IsTree
<1>3. f \in Frame(tree)
  BY <1>1, <1>2, NodeFacts DEF Frame
<1>4. stack \in Seq(Frame(tree)) /\ stack # <<>> /\ Len(stack) = 1 /\ stack[1] = f
  BY <1>1, <1>3
<1>5. TypeOK
  <2>1. yields \in Seq(Nat \cup {Placeholder}) /\ lost \subseteq DOMAIN tree.entries
    BY <1>1, EmptySeq
  <2>2. WellFormed
    BY ZenonT(30), <1>1, <1>4, <2>1 DEF WellFormed
  <2> QED
    BY <2>2, StackType
<1>6. DeeperFirst(tree, stack)
  <2>1. \A d, e \in 1..1 : ~(d < e)
    OBVIOUS
  <2> QED
    BY <1>4, <2>1 DEF DeeperFirst
<1>7. ToCome = tree.starts[tree.root] \ bare
  <2>1. Coming(tree, stack) = RestOf(tree, f)
    BY <1>4 DEF Coming
  <2>2. RestOf(tree, f) = Rest(tree, tree.root, 1)
    BY DEF RestOf
  <2> QED
    BY <1>1, <1>2, <2>1, <2>2, RestFacts, ComingIsToCome
<1>8. NothingSkipped
  BY <1>1, <1>7 DEF NothingSkipped, Returned, LostKeys
<1>9. ToCome \subseteq Nat
  BY <1>1, <1>2, <1>7, NodeFacts
<1> QED
  BY <1>1, <1>5, <1>6, <1>8, <1>9 DEF IterInv, Scan!Init

\* Returning a key of a leaf keeps the invariant.
LEMMA YieldLeafKeeps ==
  ASSUME IterInv, YieldLeaf
  PROVE  IterInv' /\ Scan!Yield(Start(At)) /\ Start(At) \in ToCome
<1> DEFINE k == Start(At)
<1>1. HasNext /\ IsLeaf(At) /\ k \notin bare /\ ~ended
  BY DEF YieldLeaf, HasNext
<1>2. stack' = Taken /\ yields' = Append(yields, k) /\ UNCHANGED <<tree, bare, lost, ended>>
  BY DEF YieldLeaf
<1>3. /\ Taken \in Seq(Frame(tree)) /\ Taken # <<>>
      /\ ToCome = {k} \cup (Coming(tree, Taken) \ bare) /\ k \in Nat
      /\ \A r \in Coming(tree, Taken) : k < r
      /\ DeeperFirst(tree, Taken)
  BY <1>1, TakeFacts
<1>4. ToCome' = Coming(tree, Taken) \ bare
  BY <1>2, NextToCome
<1>5. /\ yields' \in Seq(Nat \cup {Placeholder})
      /\ Returned' = Returned \cup {k}
  BY <1>2, <1>3, ReturnedMore, PlaceholderAssumption, StackType DEF IterInv, WellFormed
<1>6. TypeOK'
  <2>1. /\ IsTree(tree) /\ bare \subseteq tree.starts[tree.root]
        /\ lost \subseteq DOMAIN tree.entries /\ ended \in BOOLEAN
    BY StackType DEF IterInv, WellFormed
  <2>2. stack' \in Seq(Frame(tree)') /\ stack' # <<>>
    BY <1>2, <1>3 DEF Frame
  <2>3. WellFormed'
    BY <1>2, <1>5, <2>1, <2>2 DEF WellFormed
  <2> QED
    BY <2>3, StackType, PTL
<1>7. NothingSkipped'
  <2>1. LostKeys' = LostKeys
    BY <1>2 DEF LostKeys
  <2> QED
    BY <1>2, <1>3, <1>4, <1>5, <2>1 DEF NothingSkipped, IterInv
<1>8. IterInv'
  BY <1>1, <1>2, <1>3, <1>6, <1>7 DEF IterInv
<1>9. k \notin Coming(tree, Taken) /\ \A other \in ToCome : k <= other
  <2>1. ToCome \subseteq Nat
    <3>1. ToCome \subseteq tree.starts[tree.root]
      BY DEF IterInv, NothingSkipped
    <3>2. IsTree(tree) /\ tree.root \in DOMAIN tree.entries
      BY StackType DEF IterInv, WellFormed, IsTree
    <3> QED
      BY <3>1, <3>2, NodeFacts
  <2> QED
    BY <1>3, <2>1
<1> QED
  BY <1>1, <1>2, <1>3, <1>4, <1>8, <1>9 DEF Scan!Yield

\* So does passing over one without a value.
LEMMA PassLeafKeeps ==
  ASSUME IterInv, PassLeaf
  PROVE  IterInv' /\ UNCHANGED Scan!vars
<1> DEFINE k == Start(At)
<1>1. /\ HasNext /\ IsLeaf(At) /\ k \in bare /\ ~ended
      /\ stack' = Taken /\ UNCHANGED <<tree, bare, yields, lost, ended>>
  BY DEF PassLeaf, HasNext
<1>2. /\ Taken \in Seq(Frame(tree)) /\ Taken # <<>>
      /\ ToCome = Coming(tree, Taken) \ bare
      /\ DeeperFirst(tree, Taken)
  BY <1>1, TakeFacts
<1>3. ToCome' = ToCome
  BY <1>1, <1>2, NextToCome
<1>4. TypeOK'
  <2>1. WellFormed
    BY StackType DEF IterInv
  <2>2. WellFormed'
    BY <1>1, <1>2, <2>1 DEF WellFormed, Frame
  <2> QED
    BY <2>2, StackType, PTL
<1>5. NothingSkipped'
  BY <1>1, <1>3 DEF NothingSkipped, IterInv, Returned, LostKeys
<1> QED
  BY <1>1, <1>2, <1>3, <1>4, <1>5 DEF IterInv, Scan!vars

\* Going down, what is to come is the same: the child's keys are now those of
\* an iterator of their own.
LEMMA DescendKeeps ==
  ASSUME IterInv, Descend
  PROVE  IterInv' /\ UNCHANGED Scan!vars
<1> DEFINE child == [node |-> At.child, pos |-> 1]
<1>1. HasNext /\ ~IsLeaf(At) /\ stack' = Append(Taken, child)
      /\ UNCHANGED <<tree, bare, yields, lost, ended>>
  BY DEF Descend
<1>2. /\ Taken \in Seq(Frame(tree))
      /\ ToCome = (StartsOf(tree, At) \cup Coming(tree, Taken)) \ bare
      /\ \A s \in StartsOf(tree, At), r \in Coming(tree, Taken) : s < r
      /\ DeeperFirst(tree, Taken)
      /\ At.child \in DOMAIN tree.entries /\ StartsOf(tree, At) = tree.starts[At.child]
  BY <1>1, TakeFacts
<1>3. WellFormed
  BY StackType DEF IterInv
<1>4. child \in Frame(tree) /\ RestOf(tree, child) = tree.starts[At.child]
  <2>1. IsTree(tree)
    BY <1>3 DEF WellFormed
  <2>2. Len(tree.entries[At.child]) \in Nat
    BY <1>2, <2>1, NodeFacts
  <2>3. RestOf(tree, child) = Rest(tree, At.child, 1)
    BY DEF RestOf
  <2> QED
    BY <1>2, <2>1, <2>2, <2>3, RestFacts DEF Frame
<1>5. /\ stack' \in Seq(Frame(tree)) /\ stack' # <<>>
      /\ Coming(tree, stack') \ bare = ToCome
      /\ DeeperFirst(tree, stack')
  BY <1>1, <1>2, <1>4, ChainParts, AppendProperties
<1>6. ToCome' = ToCome
  BY <1>1, <1>5, NextToCome
<1>7. TypeOK'
  <2>1. WellFormed'
    BY <1>1, <1>3, <1>5 DEF WellFormed, Frame
  <2> QED
    BY <2>1, StackType, PTL
<1>8. NothingSkipped'
  BY <1>1, <1>6 DEF NothingSkipped, IterInv, Returned, LostKeys
<1> QED
  BY <1>1, <1>5, <1>6, <1>7, <1>8 DEF IterInv, Scan!vars

\* A child that cannot be read gives up its keys, which lie before the others.
LEMMA DescendFailsKeeps ==
  ASSUME IterInv, DescendFails
  PROVE  IterInv' /\ Scan!Lose(ToCome') /\ ToCome' \subseteq ToCome
<1>1. HasNext /\ ~IsLeaf(At) /\ ~ended /\ stack' = Taken
      /\ yields' = Append(yields, Placeholder) /\ lost' = lost \cup {At.child}
      /\ UNCHANGED <<tree, bare, ended>>
  BY DEF DescendFails, HasNext
<1>2. /\ Taken \in Seq(Frame(tree)) /\ Taken # <<>>
      /\ ToCome = (tree.starts[At.child] \cup Coming(tree, Taken)) \ bare
      /\ \A s \in tree.starts[At.child], r \in Coming(tree, Taken) : s < r
      /\ DeeperFirst(tree, Taken)
      /\ At.child \in DOMAIN tree.entries
  BY <1>1, TakeFacts
<1>3. ToCome' = Coming(tree, Taken) \ bare
  BY <1>1, NextToCome
<1>4. WellFormed
  BY StackType DEF IterInv
<1>5. yields' \in Seq(Nat \cup {Placeholder}) /\ Returned' = Returned
  BY <1>1, <1>4, ReturnedMore DEF WellFormed
<1>6. TypeOK'
  <2>1. WellFormed'
    BY <1>1, <1>2, <1>4, <1>5 DEF WellFormed, Frame
  <2> QED
    BY <2>1, StackType, PTL
<1>7. NothingSkipped'
  <2>1. LostKeys' = LostKeys \cup tree.starts[At.child]
    BY <1>1 DEF LostKeys
  <2> QED
    BY <1>1, <1>2, <1>3, <1>5, <2>1 DEF NothingSkipped, IterInv
<1> QED
  BY <1>1, <1>2, <1>3, <1>6, <1>7 DEF IterInv, Scan!Lose

\* An iterator that is done has nothing to come.
LEMMA DoneFacts ==
  ASSUME IterInv, ~ended, ~HasNext
  PROVE  /\ Base \in Seq(Frame(tree)) /\ Len(Base) = Depth - 1
         /\ ToCome = Coming(tree, Base) \ bare
         /\ DeeperFirst(tree, Base)
<1>1. /\ IsTree(tree) /\ TypeOK
  BY StackType DEF IterInv, WellFormed
<1>2. /\ Base \in Seq(Frame(tree)) /\ Len(Base) = Depth - 1
      /\ Top \in Frame(tree) /\ stack = Append(Base, Top)
  BY <1>1, StackParts
<1>3. RestOf(tree, Top) = {}
  <2>1. Top.node \in DOMAIN tree.entries /\ Top.pos \in Nat \ {0}
    BY <1>2 DEF Frame
  <2>2. Len(tree.entries[Top.node]) \in Nat
    BY <1>1, <2>1, NodeFacts
  <2>3. Top.pos > Len(tree.entries[Top.node])
    BY <2>1, <2>2 DEF HasNext, Entries
  <2> QED
    BY <1>1, <2>1, <2>3, RestFacts DEF RestOf
<1>4. ToCome = Coming(tree, stack) \ bare /\ DeeperFirst(tree, stack)
  BY ComingIsToCome DEF IterInv
<1>5. ToCome = (Coming(tree, Base) \cup RestOf(tree, Top)) \ bare /\ DeeperFirst(tree, Base)
  BY <1>2, <1>4, ChainParts
<1> QED
  BY <1>2, <1>3, <1>5

\* So does going back to the parent at the end of a node.
LEMMA PopKeeps ==
  ASSUME IterInv, Pop
  PROVE  IterInv' /\ UNCHANGED Scan!vars
<1>1. ~ended /\ ~HasNext /\ Depth > 1 /\ stack' = Base
      /\ UNCHANGED <<tree, bare, yields, lost, ended>>
  BY DEF Pop, Base
<1>2. /\ Base \in Seq(Frame(tree)) /\ Len(Base) = Depth - 1
      /\ ToCome = Coming(tree, Base) \ bare
      /\ DeeperFirst(tree, Base)
  BY <1>1, DoneFacts
<1>3. WellFormed
  BY StackType DEF IterInv
<1>4. Base # <<>>
  <2>1. Depth \in Nat
    BY StackParts DEF IterInv
  <2> QED
    BY <1>1, <1>2, <2>1, EmptySeq
<1>5. ToCome' = ToCome
  BY <1>1, <1>2, NextToCome
<1>6. TypeOK'
  <2>1. WellFormed'
    BY <1>1, <1>2, <1>3, <1>4 DEF WellFormed, Frame
  <2> QED
    BY <2>1, StackType, PTL
<1>7. NothingSkipped'
  BY <1>1, <1>5 DEF NothingSkipped, IterInv, Returned, LostKeys
<1> QED
  BY <1>1, <1>2, <1>5, <1>6, <1>7 DEF IterInv, Scan!vars

\* So does the end of the iteration.
LEMMA EndKeeps ==
  ASSUME IterInv, End
  PROVE  IterInv' /\ Scan!End
<1>1. ~ended /\ ~HasNext /\ Depth = 1 /\ ended' = TRUE
      /\ UNCHANGED <<tree, bare, stack, yields, lost>>
  BY DEF End
<1>2. ToCome = {}
  <2>1. Len(Base) = 0 /\ ToCome = Coming(tree, Base) \ bare
    BY <1>1, DoneFacts
  <2>2. 1..0 = {}
    OBVIOUS
  <2> QED
    BY <2>1, <2>2 DEF Coming
<1>3. ToCome' = ToCome
  BY <1>1, NextToCome, ComingIsToCome
<1>4. TypeOK' /\ NothingSkipped'
  <2>1. WellFormed
    BY StackType DEF IterInv
  <2>2. WellFormed'
    BY <1>1, <2>1 DEF WellFormed, Frame
  <2>3. NothingSkipped'
    BY <1>1, <1>3 DEF NothingSkipped, IterInv, Returned, LostKeys
  <2> QED
    BY <2>2, <2>3, StackType, PTL
<1> QED
  BY <1>1, <1>2, <1>3, <1>4 DEF IterInv, Scan!End

\* Every step keeps the invariant.
LEMMA StepKeeps ==
  ASSUME IterInv, [Next]_vars
  PROVE  IterInv' /\ [Scan!Next]_Scan!vars
<1>1. CASE YieldLeaf
  BY <1>1, YieldLeafKeeps DEF Scan!Next
<1>7. CASE PassLeaf
  BY <1>7, PassLeafKeeps
<1>2. CASE Descend
  BY <1>2, DescendKeeps
<1>3. CASE DescendFails
  BY <1>3, DescendFailsKeeps DEF Scan!Next
<1>4. CASE Pop
  BY <1>4, PopKeeps
<1>5. CASE End
  BY <1>5, EndKeeps DEF Scan!Next
<1>6. CASE UNCHANGED vars
  <2>1. UNCHANGED <<tree, bare, stack, yields, lost, ended>>
    BY <1>6 DEF vars
  <2>2. ToCome' = ToCome
    BY <2>1, NextToCome, ComingIsToCome
  <2>3. TypeOK'
    BY <2>1 DEF IterInv, TypeOK, Depth, Entries
  <2>4. NothingSkipped'
    BY <2>1, <2>2 DEF IterInv, NothingSkipped, Returned, LostKeys
  <2> QED
    BY <2>1, <2>2, <2>3, <2>4 DEF IterInv, Scan!vars
<1> QED
  BY <1>1, <1>2, <1>3, <1>4, <1>5, <1>6, <1>7 DEF Next

-----------------------------------------------------------------------------
(* The theorems *)

\* The invariant of Bcachefs_iter_next: what is to come deeper in the chain of
\* next_it iterators comes before what is to come above.
THEOREM IterInvariant == Spec => []IterInv
<1>1. Init => IterInv
  BY InitStarts
<1>2. IterInv /\ [Next]_vars => IterInv'
  BY StepKeeps
<1> QED
  BY <1>1, <1>2, PTL DEF Spec

\* Iterators stay within the keys of their nodes, one past the last at most.
THEOREM IterTypeCorrect == Spec => []TypeOK
<1>1. IterInv => TypeOK
  BY DEF IterInv
<1> QED
  BY <1>1, IterInvariant, PTL

\* Every key with a value has been returned, is to come or is below a node that
\* could not be read: in every tree, going up and down with Bcachefs_next_iter skips none.
THEOREM NothingEverSkipped == Spec => []NothingSkipped
<1>1. IterInv => NothingSkipped
  BY DEF IterInv
<1> QED
  BY <1>1, IterInvariant, PTL

\* The iteration of every tree is an ordered scan of its keys with values: each
\* returned once, in ascending order, and none after the end.
THEOREM IterImplementsScan == Spec => ImplementsScan
<1>1. Init => Scan!Init
  BY InitStarts
<1>2. IterInv /\ [Next]_vars => [Scan!Next]_Scan!vars
  BY StepKeeps
<1> QED
  BY <1>1, <1>2, IterInvariant, PTL DEF Spec, ImplementsScan, Scan!Spec

-----------------------------------------------------------------------------
(* How long an iteration may take *)

\* A chain has no more levels than the tree.
Levels(t) == t.height[t.root] + 1
Shallow == \A d \in 1..Depth : d + tree.height[stack[d].node] <= Levels(tree)

\* What the iterators have left, level by level and one more than the entries, 0
\* where there is none; and all such vectors.
Remainders(t) == UNION {0..(Len(t.entries[n]) + 1) : n \in DOMAIN t.entries}
Marks(t) == [1..Levels(t) -> Remainders(t)]
Mark == [d \in 1..Levels(tree) |->
           IF d <= Depth THEN Len(Entries(stack[d].node)) + 2 - stack[d].pos ELSE 0]

\* Those that have less left, where the first difference decides.
Before(u, v, n) == \E d \in 1..n : u[d] < v[d] /\ \A e \in 1..(d - 1) : u[e] = v[e]
Under(t, v) == {u \in Marks(t) : Before(u, v, Levels(t))}

\* A bound of the steps until the end of the iteration.
ToGo == IF ended THEN 0 ELSE Cardinality(Under(tree, Mark)) + 1

\* A tree has finitely many vectors of remainders.
LEMMA MarksFinite ==
  ASSUME NEW t, IsTree(t)
  PROVE  Levels(t) \in Nat /\ Remainders(t) \subseteq Nat /\ IsFiniteSet(Marks(t))
<1> DEFINE nodes == DOMAIN t.entries
           Of(n) == 0..(Len(t.entries[n]) + 1)
           all == {Of(n) : n \in nodes}
           f == [n \in nodes |-> Of(n)]
<1>1. IsFiniteSet(nodes) /\ \A n \in nodes : Len(t.entries[n]) \in Nat
  BY NodeFacts DEF IsTree
<1>2. Levels(t) \in Nat
  BY DEF IsTree, Levels
<1>3. Remainders(t) \subseteq Nat
  BY <1>1 DEF Remainders
<1>4. IsFiniteSet(all)
  <2>1. f \in Surjection(nodes, all)
    BY DEF Surjection
  <2> HIDE DEF nodes, all, f
  <2> QED
    BY <1>1, <2>1, FS_Surjection
<1>5. \A T \in all : IsFiniteSet(T)
  <2>1. ASSUME NEW n \in nodes PROVE IsFiniteSet(Of(n))
    BY <1>1, FS_Interval
  <2> QED
    BY <2>1
<1>6. IsFiniteSet(Remainders(t))
  <2>1. IsFiniteSet(UNION all)
    BY <1>4, <1>5, FS_UNION
  <2> QED
    BY <2>1 DEF Remainders
<1>7. IsFiniteSet(SUBSET ((1..Levels(t)) \X Remainders(t)))
  <2>1. IsFiniteSet(1..Levels(t))
    BY <1>2, FS_Interval
  <2>2. IsFiniteSet((1..Levels(t)) \X Remainders(t))
    BY <1>6, <2>1, FS_Product
  <2> QED
    BY <2>2, FS_SUBSET
<1>8. IsFiniteSet(Marks(t))
  <2> DEFINE D == 1..Levels(t)
             graph == [v \in Marks(t) |-> {<<d, v[d]>> : d \in D}]
  <2>1. graph \in [Marks(t) -> SUBSET (D \X Remainders(t))]
    <3>1. ASSUME NEW v \in Marks(t) PROVE {<<d, v[d]>> : d \in D} \in SUBSET (D \X Remainders(t))
      <4>1. \A d \in D : v[d] \in Remainders(t)
        BY DEF Marks
      <4> QED
        BY <4>1
    <3> QED
      BY <3>1
  <2>2. ASSUME NEW u \in Marks(t), NEW v \in Marks(t), graph[u] = graph[v] PROVE u = v
    <3>1. ASSUME NEW d \in D PROVE u[d] = v[d]
      <4>1. <<d, u[d]>> \in {<<e, v[e]>> : e \in D}
        BY <2>2
      <4> QED
        BY <4>1
    <3>2. u \in [D -> Remainders(t)] /\ v \in [D -> Remainders(t)]
      BY DEF Marks
    <3> HIDE DEF D
    <3> QED
      BY <3>1, <3>2
  <2>3. graph \in Injection(Marks(t), SUBSET (D \X Remainders(t)))
    BY <2>1, <2>2 DEF Injection, IsInjective
  <2> QED
    BY <1>7, <2>3, FS_Injection
<1> QED
  BY <1>2, <1>3, <1>8

\* A vector with less left has fewer ones under it.
LEMMA UnderFewer ==
  ASSUME NEW t, IsTree(t), NEW u \in Marks(t), NEW v \in Marks(t), Before(v, u, Levels(t))
  PROVE  /\ Cardinality(Under(t, u)) \in Nat /\ Cardinality(Under(t, v)) \in Nat
         /\ Cardinality(Under(t, v)) < Cardinality(Under(t, u))
<1> DEFINE n == Levels(t)
<1>1. n \in Nat /\ IsFiniteSet(Marks(t)) /\ Remainders(t) \subseteq Nat
  BY MarksFinite
<1>2. \A w \in Marks(t) : \A d \in 1..n : w[d] \in Nat
  BY <1>1 DEF Marks
<1> HIDE DEF n
<1>3. ASSUME NEW w \in Marks(t), Before(w, v, n) PROVE Before(w, u, n)
  <2>1. PICK d \in 1..n : v[d] < u[d] /\ \A e \in 1..(d - 1) : v[e] = u[e]
    BY DEF Before, n
  <2>2. PICK c \in 1..n : w[c] < v[c] /\ \A e \in 1..(c - 1) : w[e] = v[e]
    BY <1>3 DEF Before
  <2>3. c \in Nat /\ d \in Nat
    BY <1>1
  <2>4. CASE c < d
    <3>1. c \in 1..(d - 1) /\ \A e \in 1..(c - 1) : e \in 1..(d - 1)
      BY <2>3, <2>4
    <3>2. w[c] < u[c] /\ \A e \in 1..(c - 1) : w[e] = u[e]
      BY <2>1, <2>2, <3>1
    <3> QED
      BY <3>2 DEF Before
  <2>5. CASE d < c
    <3>1. d \in 1..(c - 1) /\ \A e \in 1..(d - 1) : e \in 1..(c - 1)
      BY <2>3, <2>5
    <3>2. w[d] < u[d] /\ \A e \in 1..(d - 1) : w[e] = u[e]
      BY <2>1, <2>2, <3>1
    <3> QED
      BY <3>2 DEF Before
  <2>6. CASE c = d
    <3>1. w[d] < u[d]
      BY <1>2, <2>1, <2>2, <2>6
    <3>2. \A e \in 1..(d - 1) : w[e] = u[e]
      BY <2>1, <2>2, <2>6
    <3> QED
      BY <3>1, <3>2 DEF Before
  <2> QED
    BY <2>3, <2>4, <2>5, <2>6
<1>4. Under(t, v) \subseteq Under(t, u)
  BY <1>3 DEF Under, n
<1>5. v \in Under(t, u) /\ v \notin Under(t, v)
  BY <1>2 DEF Under, Before, n
<1>6. IsFiniteSet(Under(t, u))
  BY <1>1, FS_Subset DEF Under
<1>7. /\ IsFiniteSet(Under(t, v)) /\ Cardinality(Under(t, v)) <= Cardinality(Under(t, u))
      /\ Cardinality(Under(t, u)) = Cardinality(Under(t, v)) => Under(t, u) = Under(t, v)
  BY <1>4, <1>6, FS_Subset
<1>8. Cardinality(Under(t, u)) \in Nat /\ Cardinality(Under(t, v)) \in Nat
  BY <1>6, <1>7, FS_CardinalityType
<1>9. Under(t, u) # Under(t, v)
  BY <1>5
<1> QED
  BY <1>7, <1>8, <1>9

\* The chain of an iteration is a vector of remainders.
LEMMA MarkType ==
  TypeOK /\ Shallow =>
    /\ Mark \in Marks(tree) /\ Levels(tree) \in Nat /\ Depth \in 1..Levels(tree)
    /\ \A d \in 1..Depth : Mark[d] = Len(Entries(stack[d].node)) + 2 - stack[d].pos /\ Mark[d] > 0
<1> SUFFICES ASSUME TypeOK, Shallow
             PROVE  /\ Mark \in Marks(tree) /\ Levels(tree) \in Nat /\ Depth \in 1..Levels(tree)
                    /\ \A d \in 1..Depth : /\ Mark[d] = Len(Entries(stack[d].node)) + 2 - stack[d].pos
                                           /\ Mark[d] > 0
  OBVIOUS
<1>1. /\ IsTree(tree) /\ Levels(tree) \in Nat /\ Depth \in Nat \ {0}
      /\ \A d \in 1..Depth : stack[d] \in Frame(tree)
  <2>1. IsTree(tree) /\ stack \in Seq(Frame(tree)) /\ stack # <<>>
    BY StackType DEF WellFormed
  <2> QED
    BY <2>1, MarksFinite, EmptySeq, ElementOfSeq DEF Depth
<1>2. ASSUME NEW d \in 1..Depth
      PROVE  /\ stack[d].node \in DOMAIN tree.entries
             /\ Len(tree.entries[stack[d].node]) \in Nat
             /\ stack[d].pos \in 1..(Len(tree.entries[stack[d].node]) + 1)
  BY <1>1, NodeFacts DEF Frame
<1>3. Depth \in 1..Levels(tree)
  <2>1. Depth \in 1..Depth
    BY <1>1
  <2>2. tree.height[stack[Depth].node] \in Nat
    BY <1>1, <1>2, <2>1 DEF IsTree
  <2>3. Depth + tree.height[stack[Depth].node] <= Levels(tree)
    BY <2>1 DEF Shallow
  <2> QED
    BY <1>1, <2>2, <2>3
<1>4. ASSUME NEW d \in 1..Depth
      PROVE  /\ Len(Entries(stack[d].node)) + 2 - stack[d].pos \in Remainders(tree)
             /\ Len(Entries(stack[d].node)) + 2 - stack[d].pos > 0
  <2>1. /\ Len(tree.entries[stack[d].node]) + 2 - stack[d].pos \in 0..(Len(tree.entries[stack[d].node]) + 1)
        /\ Len(tree.entries[stack[d].node]) + 2 - stack[d].pos > 0
    <3>1. \A x \in Nat : \A p \in 1..(x + 1) : x + 2 - p \in 0..(x + 1) /\ x + 2 - p > 0
      OBVIOUS
    <3> QED
      BY <1>2, <3>1, Zenon
  <2> QED
    BY <1>2, <2>1 DEF Remainders, Entries
<1>5. 0 \in Remainders(tree)
  <2>1. tree.root \in DOMAIN tree.entries /\ Len(tree.entries[tree.root]) \in Nat
    BY <1>1, NodeFacts DEF IsTree
  <2>2. 0 \in 0..(Len(tree.entries[tree.root]) + 1)
    BY <2>1
  <2> QED
    BY <2>1, <2>2 DEF Remainders
<1>6. \A d \in 1..Levels(tree) : d <= Depth <=> d \in 1..Depth
  BY <1>1, <1>3
<1>7. \A d \in 1..Depth : d \in 1..Levels(tree)
  BY <1>1, <1>3
<1>8. Mark \in Marks(tree)
  BY <1>4, <1>5, <1>6 DEF Mark, Marks
<1> QED
  BY <1>1, <1>3, <1>4, <1>6, <1>7, <1>8 DEF Mark

\* An iteration that goes on leaves less, where the deepest iterator was, and stays
\* within the levels.
LEMMA GoesOn ==
  ASSUME IterInv, Shallow, Next, ~ended'
  PROVE  Shallow' /\ Before(Mark', Mark, Levels(tree)) /\ UNCHANGED tree
<1> DEFINE n == Levels(tree)
           left == Len(Entries(Top.node)) + 2 - Top.pos
<1>1. /\ TypeOK /\ IsTree(tree) /\ n \in Nat /\ Depth \in 1..n /\ Depth \in Nat \ {0}
      /\ \A d \in 1..Depth : Mark[d] = Len(Entries(stack[d].node)) + 2 - stack[d].pos
      /\ Mark[Depth] = left /\ left > 0
  <2>1. TypeOK /\ IsTree(tree)
    BY StackType DEF IterInv, WellFormed
  <2>2. Depth \in 1..Depth /\ Depth \in Nat \ {0}
    BY <2>1, StackParts
  <2> QED
    BY <2>1, <2>2, MarkType DEF Top
<1>2. /\ Base \in Seq(Frame(tree)) /\ Len(Base) = Depth - 1 /\ Top \in Frame(tree)
      /\ Taken = Append(Base, Moved) /\ tree' = tree
      /\ \A d \in 1..(Depth - 1) : Base[d] = stack[d]
  <2>1. /\ Base \in Seq(Frame(tree)) /\ Len(Base) = Depth - 1 /\ Top \in Frame(tree)
        /\ Taken = Append(Base, Moved) /\ stack = Append(Base, Top)
    BY <1>1, StackParts
  <2> QED
    BY <2>1, AppendProperties DEF Next, YieldLeaf, PassLeaf, Descend, DescendFails, Pop, End
<1>3. /\ Top.node \in DOMAIN tree.entries /\ Len(Entries(Top.node)) \in Nat
      /\ Top.pos \in Nat
      /\ Top.node = stack[Depth].node
  BY <1>1, <1>2, NodeFacts DEF Frame, Entries, Top
<1> HIDE DEF n, left
\* It is enough that the base stays and less is left above it.
<1>4. ASSUME \A d \in 1..(Depth - 1) : d <= Depth' /\ stack'[d] = stack[d],
             Depth <= Depth' => Len(Entries(stack'[Depth].node)) + 2 - stack'[Depth].pos < left
      PROVE  Before(Mark', Mark, n)
  <2>1. \A d \in 1..n : Mark'[d] = IF d <= Depth' THEN Len(Entries(stack'[d].node)) + 2 - stack'[d].pos
                                   ELSE 0
    BY <1>2 DEF Mark, n, Entries
  <2>2. \A d \in 1..(Depth - 1) : d \in 1..n /\ d \in 1..Depth
    BY <1>1
  <2>3. \A d \in 1..(Depth - 1) : Mark'[d] = Mark[d]
    BY <1>1, <1>4, <2>1, <2>2
  <2>4. Mark'[Depth] < Mark[Depth]
    BY <1>1, <1>4, <2>1
  <2> QED
    BY <1>1, <2>3, <2>4 DEF Before
<1>5. CASE YieldLeaf \/ PassLeaf \/ DescendFails
  <2>1. stack' = Taken
    BY <1>5 DEF YieldLeaf, PassLeaf, DescendFails
  <2>2. /\ Depth' = Depth /\ stack'[Depth] = Moved
        /\ \A d \in 1..(Depth - 1) : stack'[d] = stack[d]
    BY <1>1, <1>2, <2>1, AppendProperties DEF Depth
  <2>3. Moved.node = Top.node /\ Moved.pos = Top.pos + 1
    BY DEF Moved
  <2>4. Shallow'
    <3>1. \A d \in 1..Depth : stack'[d].node = stack[d].node
      BY <1>1, <1>3, <2>2, <2>3
    <3> QED
      BY <1>2, <2>2, <3>1 DEF Shallow
  <2>5. Before(Mark', Mark, n)
    <3>1. Len(Entries(stack'[Depth].node)) + 2 - stack'[Depth].pos < left
      BY <1>3, <2>2, <2>3 DEF left
    <3>2. \A d \in 1..(Depth - 1) : d <= Depth'
      BY <1>1, <2>2
    <3> QED
      BY <1>4, <2>2, <3>1, <3>2
  <2> QED
    BY <1>2, <2>4, <2>5 DEF n
<1>6. CASE Descend
  <2> DEFINE child == [node |-> At.child, pos |-> 1]
  <2>1. HasNext /\ ~IsLeaf(At) /\ stack' = Append(Taken, child)
    BY <1>6 DEF Descend
  <2>2. /\ Taken \in Seq(Frame(tree)) /\ At.child \in DOMAIN tree.entries
        /\ tree.entries[Top.node][Top.pos] = At
    BY <2>1, TakeFacts
  <2>3. Len(Taken) = Depth /\ Taken[Depth] = Moved /\ \A d \in 1..(Depth - 1) : Taken[d] = stack[d]
    BY <1>1, <1>2, AppendProperties
  <2>4. /\ Depth' = Depth + 1 /\ stack'[Depth + 1] = child
        /\ \A d \in 1..Depth : stack'[d] = Taken[d]
    <3> HIDE DEF child
    <3> QED
      BY <1>1, <2>1, <2>2, <2>3, AppendProperties DEF Depth
  <2>5. Moved.node = Top.node /\ Moved.pos = Top.pos + 1
    BY DEF Moved
  <2>6. /\ tree.height[At.child] \in Nat /\ tree.height[Top.node] \in Nat
        /\ tree.height[At.child] < tree.height[Top.node]
    <3>1. Top.pos \in 1..Len(tree.entries[Top.node])
      BY <1>2, <1>3, <2>1 DEF HasNext, Entries, Frame
    <3> QED
      BY <1>1, <1>3, <2>1, <2>2, <3>1 DEF IsTree
  <2>7. Shallow'
    <3>1. Depth + tree.height[Top.node] <= n
      <4>1. Depth \in 1..Depth
        BY <1>1
      <4> QED
        BY <1>3, <4>1 DEF Shallow, n
    <3>2. ASSUME NEW d \in 1..(Depth + 1) PROVE d + tree.height[stack'[d].node] <= n
      <4>1. CASE d = Depth + 1
        BY <1>1, <2>4, <2>6, <3>1, <4>1
      <4>2. CASE d = Depth
        <5>1. stack'[d].node = Top.node
          BY <1>1, <2>3, <2>4, <2>5, <4>2
        <5> QED
          BY <3>1, <4>2, <5>1
      <4>3. CASE d \in 1..(Depth - 1)
        <5>1. d \in 1..Depth
          BY <1>1, <4>3
        <5>2. stack'[d] = stack[d]
          BY <2>3, <2>4, <4>3, <5>1
        <5> QED
          BY <5>1, <5>2 DEF Shallow, n
      <4>4. d = Depth + 1 \/ d = Depth \/ d \in 1..(Depth - 1)
        BY <1>1
      <4> QED
        BY <4>1, <4>2, <4>3, <4>4
    <3> QED
      BY <1>2, <2>4, <3>2 DEF Shallow, n
  <2>8. Before(Mark', Mark, n)
    <3>1. Depth \in 1..Depth /\ \A d \in 1..(Depth - 1) : d \in 1..Depth /\ d <= Depth'
      BY <1>1, <2>4
    <3>2. stack'[Depth] = Moved /\ \A d \in 1..(Depth - 1) : stack'[d] = stack[d]
      BY <2>3, <2>4, <3>1
    <3>3. Len(Entries(stack'[Depth].node)) + 2 - stack'[Depth].pos < left
      BY <1>3, <2>5, <3>2 DEF left
    <3> QED
      BY <1>4, <3>1, <3>2, <3>3
  <2> QED
    BY <1>2, <2>7, <2>8 DEF n
<1>7. CASE Pop
  <2>1. stack' = Base /\ Depth' = Depth - 1
    BY <1>2, <1>7 DEF Pop, Base, Depth
  <2>2. \A d \in 1..(Depth - 1) : d \in 1..Depth /\ d <= Depth' /\ stack'[d] = stack[d]
    BY <1>1, <1>2, <2>1
  <2>3. Shallow'
    BY <1>2, <2>1, <2>2 DEF Shallow
  <2>4. Before(Mark', Mark, n)
    <3>1. ~(Depth <= Depth')
      BY <1>1, <2>1
    <3> QED
      BY <1>4, <2>2, <3>1
  <2> QED
    BY <1>2, <2>3, <2>4 DEF n
<1>8. ~End
  BY DEF End
<1> QED
  BY <1>5, <1>6, <1>7, <1>8 DEF Next

\* An iteration of any tree ends, whichever nodes cannot be read: each step, up, down
\* or on, lowers a natural number, so that no node is read again.
THEOREM IterationComesCloser == Spec => [][ToGo' < ToGo /\ ToGo \in Nat]_vars
<1> DEFINE Closer == ToGo' < ToGo /\ ToGo \in Nat
           Inside == ~ended => Shallow
<1>1. Init => Inside
  <2> SUFFICES ASSUME Init PROVE Shallow
    OBVIOUS
  <2>1. IsTree(tree) /\ Depth = 1 /\ stack[1].node = tree.root
    BY TreesAssumption DEF Init, Depth
  <2>2. tree.height[tree.root] \in Nat
    BY <2>1 DEF IsTree
  <2> QED
    BY <2>1, <2>2 DEF Shallow, Levels
<1>2. IterInv /\ Inside /\ [Next]_vars => Inside'
  <2>1. ASSUME IterInv, Inside, Next PROVE Inside'
    <3>1. ~ended
      BY <2>1 DEF Next, YieldLeaf, PassLeaf, Descend, DescendFails, Pop, End, HasNext
    <3> QED
      BY <2>1, <3>1, GoesOn
  <2>2. ASSUME Inside, UNCHANGED vars PROVE Inside'
    BY <2>2 DEF vars, Shallow, Depth
  <2> QED
    BY <2>1, <2>2
<1>3. ASSUME IterInv, Inside, Next PROVE Closer
  <2>1. ~ended /\ Shallow /\ TypeOK /\ IsTree(tree)
    <3>1. ~ended
      BY <1>3 DEF Next, YieldLeaf, PassLeaf, Descend, DescendFails, Pop, End, HasNext
    <3> QED
      BY <1>3, <3>1 DEF IterInv, TypeOK
  <2>2. Mark \in Marks(tree)
    BY <2>1, MarkType
  <2>3. Cardinality(Under(tree, Mark)) \in Nat
    <3>1. IsFiniteSet(Marks(tree)) /\ Under(tree, Mark) \in SUBSET Marks(tree)
      BY <2>1, MarksFinite DEF Under
    <3> QED
      BY <3>1, FS_Subset, FS_CardinalityType
  <2>4. CASE ~ended'
    <3>1. Shallow' /\ Before(Mark', Mark, Levels(tree)) /\ tree' = tree
      BY <1>3, <2>1, <2>4, GoesOn
    <3>2. TypeOK'
      BY <1>3, StepKeeps DEF IterInv
    <3>3. Mark' \in Marks(tree)
      <4>1. (Mark \in Marks(tree))'
        BY <3>1, <3>2, MarkType, PTL
      <4> QED
        BY <3>1, <4>1
    <3>4. /\ Cardinality(Under(tree, Mark')) \in Nat
          /\ Cardinality(Under(tree, Mark')) < Cardinality(Under(tree, Mark))
      BY <2>1, <2>2, <3>1, <3>3, UnderFewer
    <3>5. ToGo' = Cardinality(Under(tree, Mark')) + 1
      BY <2>4, <3>1 DEF ToGo
    <3> QED
      BY <2>1, <2>3, <3>4, <3>5 DEF ToGo
  <2>5. CASE ended'
    BY <2>1, <2>3, <2>5 DEF ToGo
  <2> QED
    BY <2>4, <2>5
<1>4. IterInv /\ Inside /\ [Next]_vars => [Closer]_vars
  BY <1>3
<1> QED
  BY <1>1, <1>2, <1>4, IterInvariant, PTL DEF Spec
=============================================================================
