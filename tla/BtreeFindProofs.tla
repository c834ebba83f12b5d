--------------------------- MODULE BtreeFindProofs ---------------------------
(***************************************************************************)
(* Proof that a search answers exactly, for every tree and reference.  The *)
(* inductive invariant: when no read has failed and no key straddles two   *)
(* nodes, no iterator of the chain has passed an entry with the reference  *)
(* below it; and whatever is below a node of the chain is in the tree.     *)
(***************************************************************************)
EXTENDS BtreeFind, FiniteSetTheorems, SequenceTheorems, TLAPS

\* Nothing has kept the search from seeing every key.
Undisturbed == ~lost /\ NoStraddling(tree)

\* The entries an iterator has passed do not lead to the reference.
PassedExcluded ==
  Undisturbed => \A d \in 1..Depth : \A i \in 1..(stack[d].pos - 1) :
                   ref \notin StartsOf(tree, Entries(stack[d].node)[i])

PathBelowRoot ==
  \A d \in 1..Depth : tree.starts[stack[d].node] \subseteq tree.starts[tree.root]

FindInv == /\ TypeOK
           /\ PassedExcluded
           /\ PathBelowRoot
           /\ FindsExactly

\* What IsTree says of a node and of its entries.
LEMMA TreeFacts ==
  ASSUME NEW t, IsTree(t), NEW n \in DOMAIN t.entries
  PROVE  /\ Len(t.entries[n]) \in Nat
         /\ t.root \in DOMAIN t.entries
         /\ t.starts[n] \subseteq Nat
         /\ \A i \in 1..Len(t.entries[n]) :
              /\ t.entries[n][i] \in Entry
              /\ t.entries[n][i].pos \in Nat
              /\ Start(t.entries[n][i]) \in Nat
              /\ Lower(t.entries[n][i]) \in Int
              /\ StartsOf(t, t.entries[n][i]) \subseteq t.starts[n]
              /\ ~IsLeaf(t.entries[n][i]) =>
                   /\ t.entries[n][i].child \in DOMAIN t.entries
                   /\ StartsOf(t, t.entries[n][i]) = t.starts[t.entries[n][i].child]
                   /\ Start(t.entries[n][i]) = t.entries[n][i].pos
                   /\ \A s \in StartsOf(t, t.entries[n][i]) : s <= t.entries[n][i].pos
                   /\ NoStraddling(t) =>
                        \A s \in StartsOf(t, t.entries[n][i]) : Lower(t.entries[n][i]) <= s
              /\ IsLeaf(t.entries[n][i]) =>
                   StartsOf(t, t.entries[n][i]) = {Start(t.entries[n][i])}
         /\ \A s \in t.starts[n] : \E i \in 1..Len(t.entries[n]) :
              s \in StartsOf(t, t.entries[n][i])
         /\ \A i, j \in 1..Len(t.entries[n]) : i < j =>
              /\ IsLeaf(t.entries[n][i]) <=> IsLeaf(t.entries[n][j])
              /\ ~IsLeaf(t.entries[n][j]) =>
                   Lower(t.entries[n][i]) <= Lower(t.entries[n][j])
              /\ \A s \in StartsOf(t, t.entries[n][i]), r \in StartsOf(t, t.entries[n][j]) : s < r
<1> DEFINE es == t.entries[n]
<1>1. es \in Seq(Entry) /\ t.root \in DOMAIN t.entries /\ t.starts[n] \subseteq Nat
  BY DEF IsTree
<1>2. Len(es) \in Nat /\ \A i \in 1..Len(es) : es[i] \in Entry
  BY <1>1, ElementOfSeq, LenProperties
<1>3. t.starts[n] = UNION {StartsOf(t, es[i]) : i \in 1..Len(es)}
  BY DEF IsTree
<1>4. ASSUME NEW i \in 1..Len(es)
      PROVE  /\ es[i].pos \in Nat /\ es[i].size \in Nat /\ es[i].min \in Nat
             /\ es[i].size <= es[i].pos
             /\ IsLeaf(es[i]) <=> t.height[n] = 0
             /\ ~IsLeaf(es[i]) => /\ es[i].child \in DOMAIN t.entries
                                  /\ es[i].size = 0
                                  /\ \A s \in t.starts[es[i].child] : s <= es[i].pos
  <2>1. es[i].pos \in Nat /\ es[i].size \in Nat /\ es[i].min \in Nat
    BY <1>2 DEF Entry
  <2> QED
    BY <2>1 DEF IsTree
<1>5. \A i \in 1..Len(es) : Start(es[i]) \in Nat /\ Lower(es[i]) \in Int
  BY <1>4 DEF Start, Lower
<1>6. \A i \in 1..Len(es) : ~IsLeaf(es[i]) => Start(es[i]) = es[i].pos
  BY <1>4 DEF Start
<1>7. ASSUME NEW i \in 1..Len(es), NEW j \in 1..Len(es), i < j
      PROVE  /\ ~IsLeaf(es[j]) => Lower(es[i]) <= es[i].pos /\ es[i].pos <= Lower(es[j])
             /\ \A s \in StartsOf(t, es[i]), r \in StartsOf(t, es[j]) : s < r
  BY <1>7 DEF IsTree
<1>8. ASSUME NEW i \in 1..Len(es), NEW j \in 1..Len(es), i < j, ~IsLeaf(es[j])
      PROVE  Lower(es[i]) <= Lower(es[j])
  <2>1. Lower(es[i]) \in Int /\ Lower(es[j]) \in Int /\ es[i].pos \in Int
    BY <1>4, <1>5
  <2>2. Lower(es[i]) <= es[i].pos /\ es[i].pos <= Lower(es[j])
    BY <1>7, <1>8
  <2> QED
    BY <2>1, <2>2
<1>9. \A i \in 1..Len(es) :
        /\ StartsOf(t, es[i]) \subseteq t.starts[n]
        /\ ~IsLeaf(es[i]) => StartsOf(t, es[i]) = t.starts[es[i].child]
        /\ IsLeaf(es[i]) => StartsOf(t, es[i]) = {Start(es[i])}
  BY <1>3 DEF StartsOf
<1>10. ASSUME NoStraddling(t), NEW i \in 1..Len(es), ~IsLeaf(es[i])
       PROVE  \A s \in StartsOf(t, es[i]) : Lower(es[i]) <= s
  BY <1>9, <1>10 DEF NoStraddling
<1>11. \A s \in t.starts[n] : \E i \in 1..Len(es) : s \in StartsOf(t, es[i])
  BY <1>3
<1> QED
  BY <1>1, <1>2, <1>4, <1>5, <1>6, <1>7, <1>8, <1>9, <1>10, <1>11

\* The deepest iterator is at a node of the tree.
LEMMA TopFacts ==
  ASSUME TypeOK
  PROVE  /\ Depth \in Nat \ {0}
         /\ stack \in Seq([node: DOMAIN tree.entries, pos: Nat])
         /\ \A d \in 1..Depth : /\ stack[d] \in [node: DOMAIN tree.entries, pos: Nat]
                                /\ stack[d].node \in DOMAIN tree.entries
                                /\ stack[d].pos \in Nat \ {0}
                                /\ Len(Entries(stack[d].node)) \in Nat
         /\ Top.node \in DOMAIN tree.entries
         /\ Top.pos \in 1..(Len(Entries(Top.node)) + 1)
         /\ Scanning => /\ Top.pos \in 1..Len(Entries(Top.node))
                        /\ Start(At) \in Nat /\ Lower(At) \in Int
<1>1. stack \in Seq([node: DOMAIN tree.entries, pos: Nat]) /\ Depth \in Nat \ {0}
  BY EmptySeq DEF TypeOK, Depth
<1>2. \A d \in 1..Depth : stack[d] \in [node: DOMAIN tree.entries, pos: Nat]
  BY <1>1, ElementOfSeq DEF Depth
<1>3. \A d \in 1..Depth : /\ stack[d].node \in DOMAIN tree.entries
                          /\ Len(Entries(stack[d].node)) \in Nat
                          /\ stack[d].pos \in 1..(Len(Entries(stack[d].node)) + 1)
  BY <1>2, TreeFacts DEF TypeOK, Entries
<1>4. Top.node \in DOMAIN tree.entries /\ Top.pos \in 1..(Len(Entries(Top.node)) + 1)
      /\ Len(Entries(Top.node)) \in Nat
  BY <1>1, <1>3 DEF Top
<1>5. ASSUME Scanning
      PROVE  /\ Top.pos \in 1..Len(Entries(Top.node))
             /\ Start(At) \in Nat /\ Lower(At) \in Int
  <2>1. Top.pos \in 1..Len(Entries(Top.node))
    BY <1>4, <1>5 DEF Scanning
  <2> QED
    BY <1>4, <2>1, TreeFacts DEF TypeOK, At, Entries
<1> QED
  BY <1>1, <1>2, <1>3, <1>4, <1>5

\* What the entry is like that the deepest iterator is at.
LEMMA AtFacts ==
  ASSUME TypeOK, Scanning
  PROVE  /\ Depth \in Nat \ {0} /\ Depth \in 1..Depth /\ Top = stack[Depth]
         /\ Top.node \in DOMAIN tree.entries /\ Entries(Top.node) = tree.entries[Top.node]
         /\ Len(tree.entries[Top.node]) \in Nat
         /\ Top.pos \in 1..Len(tree.entries[Top.node])
         /\ At = tree.entries[Top.node][Top.pos]
         /\ ref \in Nat /\ IsTree(tree)
         /\ Start(At) \in Nat /\ Lower(At) \in Int
         /\ StartsOf(tree, At) \subseteq tree.starts[Top.node]
         /\ StartsOf(tree, At) \subseteq Nat
         /\ \A s \in StartsOf(tree, At) : s <= Start(At)
         /\ IsLeaf(At) => StartsOf(tree, At) = {Start(At)}
         /\ ~IsLeaf(At) => /\ At.child \in DOMAIN tree.entries
                           /\ Len(tree.entries[At.child]) \in Nat
                           /\ StartsOf(tree, At) = tree.starts[At.child]
<1>1. /\ Depth \in Nat \ {0} /\ Depth \in 1..Depth /\ Top = stack[Depth]
      /\ ref \in Nat /\ IsTree(tree)
  <2>1. Depth \in Nat \ {0}
    BY TopFacts
  <2>2. Depth \in 1..Depth
    BY <2>1
  <2> QED
    BY <2>1, <2>2 DEF Top, TypeOK
<1>2. /\ Top.node \in DOMAIN tree.entries /\ Entries(Top.node) = tree.entries[Top.node]
      /\ Top.pos \in 1..Len(tree.entries[Top.node]) /\ At = tree.entries[Top.node][Top.pos]
      /\ Start(At) \in Nat /\ Lower(At) \in Int
  BY TopFacts DEF Entries, At
<1>3. /\ Len(tree.entries[Top.node]) \in Nat
      /\ StartsOf(tree, At) \subseteq tree.starts[Top.node]
      /\ tree.starts[Top.node] \subseteq Nat
  BY <1>1, <1>2, TreeFacts
<1>4. IsLeaf(At) => StartsOf(tree, At) = {Start(At)}
  BY ZenonT(40), <1>1, <1>2, TreeFacts
<1>5. ASSUME ~IsLeaf(At)
      PROVE  /\ At.child \in DOMAIN tree.entries
             /\ StartsOf(tree, At) = tree.starts[At.child]
             /\ Start(At) = At.pos
             /\ \A s \in StartsOf(tree, At) : s <= At.pos
  <2> DEFINE n == Top.node
             i == Top.pos
  <2>1. n \in DOMAIN tree.entries /\ i \in 1..Len(tree.entries[n]) /\ At = tree.entries[n][i]
    BY <1>2
  <2> HIDE DEF n, i
  <2>2. /\ tree.entries[n][i].child \in DOMAIN tree.entries
        /\ StartsOf(tree, tree.entries[n][i]) = tree.starts[tree.entries[n][i].child]
        /\ Start(tree.entries[n][i]) = tree.entries[n][i].pos
        /\ \A s \in StartsOf(tree, tree.entries[n][i]) : s <= tree.entries[n][i].pos
    BY SMTT(30), <1>1, <1>5, <2>1, TreeFacts
  <2> QED
    BY <2>1, <2>2
<1>6. ~IsLeaf(At) => Len(tree.entries[At.child]) \in Nat
  BY <1>1, <1>5, TreeFacts
<1>7. \A s \in StartsOf(tree, At) : s <= Start(At)
  <2>1. CASE IsLeaf(At)
    BY <1>2, <1>4, <2>1
  <2>2. CASE ~IsLeaf(At)
    BY <1>5, <2>2
  <2> QED
    BY <2>1, <2>2
<1> QED
  BY <1>1, <1>2, <1>3, <1>4, <1>5, <1>6, <1>7

\* Advancing the scan of one iterator of a chain.
LEMMA Bumped ==
  ASSUME NEW S, NEW s \in Seq([node: S, pos: Nat]), NEW d \in 1..Len(s)
  PROVE  /\ Bump(s, d) \in Seq([node: S, pos: Nat])
         /\ Len(Bump(s, d)) = Len(s)
         /\ \A k \in 1..Len(s) :
              /\ Bump(s, d)[k].node = s[k].node
              /\ Bump(s, d)[k].pos = IF k = d THEN s[k].pos + 1 ELSE s[k].pos
<1> DEFINE f == [node |-> s[d].node, pos |-> s[d].pos + 1]
<1>1. s[d] \in [node: S, pos: Nat]
  BY ElementOfSeq
<1>2. [s[d] EXCEPT !.pos = @ + 1] = f /\ f \in [node: S, pos: Nat]
  BY SMTT(30), <1>1
<1>3. Bump(s, d) = [s EXCEPT ![d] = f]
  BY <1>2 DEF Bump
<1>4. /\ [s EXCEPT ![d] = f] \in Seq([node: S, pos: Nat])
      /\ Len([s EXCEPT ![d] = f]) = Len(s)
      /\ \A k \in 1..Len(s) : [s EXCEPT ![d] = f][k] = IF k = d THEN f ELSE s[k]
  BY <1>2, ExceptSeq
<1>5. \A k \in 1..Len(s) : /\ [s EXCEPT ![d] = f][k].node = s[k].node
                           /\ [s EXCEPT ![d] = f][k].pos = IF k = d THEN s[k].pos + 1 ELSE s[k].pos
  BY <1>4
<1> HIDE DEF f
<1> QED
  BY <1>3, <1>4, <1>5

\* The deepest iterator ends, and the one above goes on with its next entry.
LEMMA Popped ==
  ASSUME TypeOK, ReturnNull, Depth # 1
  PROVE  /\ Depth - 1 \in 1..Depth /\ Depth - 1 \in Nat /\ Depth - 1 < Depth
         /\ stack' \in Seq([node: DOMAIN tree.entries, pos: Nat]) /\ Depth' = Depth - 1
         /\ \A d \in 1..(Depth - 1) :
              /\ stack'[d].node = stack[d].node
              /\ stack'[d].pos = IF d = Depth - 1 THEN stack[d].pos + 1 ELSE stack[d].pos
         /\ result' = result
<1> DEFINE Frame == [node: DOMAIN tree.entries, pos: Nat]
           up == Depth - 1
           below == SubSeq(stack, 1, up)
<1>1. /\ up \in 1..Depth /\ up \in Nat /\ up < Depth
      /\ stack' = Bump(below, up) /\ result' = result
  <2>1. Depth \in Nat \ {0}
    BY TopFacts
  <2>2. stack' = Bump(below, up) /\ result' = result
    BY DEF ReturnNull
  <2> QED
    BY <2>1, <2>2
<1>2. below \in Seq(Frame) /\ Len(below) = up /\ \A d \in 1..up : below[d] = stack[d]
  <2>1. \A d \in 1..up : stack[d] \in Frame /\ 1 + d - 1 = d
    BY <1>1, TopFacts
  <2> QED
    BY <1>1, <2>1, SubSeqProperties
<1>3. stack[up].node \in DOMAIN tree.entries /\ stack[up].pos \in Nat /\ stack[up] \in Frame
  BY <1>1, TopFacts
<1>4. /\ stack' \in Seq(Frame) /\ Depth' = up
      /\ \A d \in 1..up : /\ stack'[d].node = stack[d].node
                          /\ stack'[d].pos = IF d = up THEN stack[d].pos + 1 ELSE stack[d].pos
  <2> HIDE DEF below, up
  <2>1. up \in 1..Len(below) /\ Len(below) = up
    BY <1>1, <1>2
  <2>2. /\ stack' \in Seq(Frame) /\ Len(stack') = Len(below)
        /\ \A d \in 1..Len(below) :
             /\ stack'[d].node = below[d].node
             /\ stack'[d].pos = IF d = up THEN below[d].pos + 1 ELSE below[d].pos
    BY ZenonT(40), <1>1, <1>2, <2>1, Bumped
  <2> QED
    BY <1>2, <2>1, <2>2 DEF Depth
<1> QED
  BY <1>1, <1>4

\* A call that returns NULL keeps the invariant when the node it scanned does
\* not lead to the reference.
LEMMA ReturnNullInv ==
  ASSUME FindInv, ReturnNull, UNCHANGED <<tree, ref>>, lost' \in BOOLEAN,
         lost => lost', result = "searching",
         Undisturbed' => ref \notin tree.starts[Top.node]
  PROVE  FindInv'
<1> USE DEF FindInv
<1> DEFINE Frame == [node: DOMAIN tree.entries, pos: Nat]
<1>1. Undisturbed' => Undisturbed
  BY DEF Undisturbed
<1>2. CASE Depth = 1
  <2>1. stack' = stack /\ result' = "none" /\ Top.node = tree.root
    BY <1>2 DEF ReturnNull, TypeOK, Top
  <2>2. TypeOK'
    BY <2>1 DEF TypeOK, Depth, Entries
  <2>3. PassedExcluded' /\ PathBelowRoot'
    BY <1>1, <2>1 DEF PassedExcluded, PathBelowRoot, Depth, Entries
  <2>4. FindsExactly'
    BY <2>1 DEF FindsExactly, Undisturbed
  <2> QED
    BY <2>2, <2>3, <2>4
<1>3. CASE Depth # 1
  <2> DEFINE up == Depth - 1
  <2>1. /\ up \in 1..Depth /\ up \in Nat /\ up < Depth /\ result' = result
        /\ stack' \in Seq(Frame) /\ Depth' = up
        /\ \A d \in 1..up : /\ stack'[d].node = stack[d].node
                            /\ stack'[d].pos = IF d = up THEN stack[d].pos + 1 ELSE stack[d].pos
    BY <1>3, Popped
  <2>5. /\ stack[up].pos \in 1..Len(Entries(stack[up].node))
        /\ Entries(stack[up].node)[stack[up].pos].child = Top.node
        /\ Top.node \in Nat
    <3>1. /\ stack[up].pos <= Len(Entries(stack[up].node))
          /\ Entries(stack[up].node)[stack[up].pos].child = stack[up + 1].node
      BY <2>1, TopFacts DEF TypeOK
    <3>2. up + 1 = Depth
      BY <2>1, TopFacts
    <3>3. Top.node \in Nat
      BY TopFacts DEF TypeOK, IsTree
    <3> QED
      BY SMTT(30), <2>1, <3>1, <3>2, <3>3, TopFacts DEF Top
  <2>6. TypeOK'
    <3>1. stack' # <<>> /\ stack'[1].node = tree.root
      <4>1. Len(stack') # 0 /\ 1 \in 1..up
        BY <2>1 DEF Depth
      <4>2. stack'[1].node = stack[1].node
        BY <2>1, <4>1
      <4> QED
        BY <4>1, <4>2, EmptySeq DEF TypeOK
    <3>2. ASSUME NEW d \in 1..up
          PROVE  /\ stack'[d].pos \in 1..(Len(Entries(stack'[d].node)) + 1)
                 /\ d < up => /\ stack'[d].pos <= Len(Entries(stack'[d].node))
                              /\ Entries(stack'[d].node)[stack'[d].pos].child = stack'[d + 1].node
      <4>1. d \in 1..Depth /\ (d < up => d < Depth /\ d + 1 \in 1..up)
        <5>1. Depth \in Nat
          BY TopFacts
        <5>2. d \in 1..(Depth - 1)
          OBVIOUS
        <5> QED
          BY <5>1, <5>2
      <4>2. /\ stack[d].pos \in 1..(Len(Entries(stack[d].node)) + 1)
            /\ d < Depth => /\ stack[d].pos <= Len(Entries(stack[d].node))
                            /\ Entries(stack[d].node)[stack[d].pos].child = stack[d + 1].node
        BY <4>1 DEF TypeOK
      <4>3. CASE d = up
        <5>1. Len(Entries(stack[up].node)) \in Nat
          BY <2>1, TopFacts
        <5>2. stack'[d].node = stack[up].node /\ stack'[d].pos = stack[up].pos + 1
          BY <2>1, <4>3
        <5>3. ~(d < up) /\ stack[up].pos \in 1..Len(Entries(stack[up].node))
          BY <2>1, <2>5, <4>3
        <5> HIDE DEF up
        <5> QED
          BY <5>1, <5>2, <5>3
      <4>4. CASE d # up
        BY <2>1, <4>1, <4>2, <4>4
      <4> QED
        BY <4>3, <4>4
    <3> QED
      BY <2>1, <3>1, <3>2 DEF TypeOK, Entries
  <2>7. PassedExcluded'
    <3>1. SUFFICES ASSUME Undisturbed', NEW d \in 1..up, NEW i \in 1..(stack'[d].pos - 1)
                   PROVE  ref \notin StartsOf(tree, Entries(stack[d].node)[i])
      BY <2>1 DEF PassedExcluded, Entries
    <3>2. d \in 1..Depth /\ stack[d].pos \in Nat
      BY SMTT(30), <2>1, TopFacts
    <3>3. CASE i \in 1..(stack[d].pos - 1)
      BY <1>1, <3>1, <3>2, <3>3 DEF PassedExcluded
    <3>4. CASE i \notin 1..(stack[d].pos - 1)
      <4>1. d = up /\ i = stack[up].pos
        BY SMTT(30), <2>1, <3>1, <3>2, <3>4
      <4>2. StartsOf(tree, Entries(stack[up].node)[i]) = tree.starts[Top.node]
        BY <2>5, <4>1, NoNodeAssumption DEF StartsOf, IsLeaf
      <4> QED
        BY <3>1, <4>1, <4>2
    <3> QED
      BY <3>3, <3>4
  <2>8. PathBelowRoot' /\ FindsExactly'
    <3>1. \A d \in 1..up : d \in 1..Depth
      BY TopFacts
    <3>2. PathBelowRoot'
      BY <2>1, <3>1 DEF PathBelowRoot
    <3>3. FindsExactly'
      BY <2>1 DEF FindsExactly
    <3> QED
      BY <3>2, <3>3
  <2> QED
    BY <2>6, <2>7, <2>8
<1> QED
  BY <1>2, <1>3

\* An entry of the deepest node that is not lesser than the reference and that
\* does not start it rules the rest of the node out.
LEMMA RestExcluded ==
  ASSUME FindInv, Scanning, Undisturbed, Start(At) >= ref,
         IF IsLeaf(At) THEN Start(At) # ref ELSE Lower(At) > ref
  PROVE  ref \notin tree.starts[Top.node]
<1> USE DEF FindInv
<1> DEFINE es == tree.entries[Top.node]
<1>1. /\ Top.node \in DOMAIN tree.entries /\ Top.pos \in 1..Len(es) /\ Len(es) \in Nat
      /\ At = es[Top.pos] /\ ref \in Nat /\ IsTree(tree) /\ NoStraddling(tree)
  BY TopFacts, TreeFacts DEF Scanning, At, Entries, Undisturbed, TypeOK
<1>2. SUFFICES ASSUME NEW i \in 1..Len(es), ref \in StartsOf(tree, es[i])
               PROVE  FALSE
  BY <1>1, TreeFacts
<1>3. CASE i < Top.pos
  <2>1. i \in 1..(Top.pos - 1) /\ Depth \in 1..Depth
    BY <1>1, <1>3, TopFacts
  <2> QED
    BY <1>2, <2>1 DEF PassedExcluded, Top, Entries
<1>4. CASE i = Top.pos
  <2>1. CASE IsLeaf(At)
    BY <1>1, <1>2, <1>4, <2>1, AtFacts
  <2>2. CASE ~IsLeaf(At)
    <3>1. Lower(At) <= ref /\ Lower(At) \in Int
      BY <1>1, <1>2, <1>4, <2>2, TreeFacts
    <3> QED
      BY <1>1, <2>2, <3>1
  <2> QED
    BY <2>1, <2>2
<1>5. CASE i > Top.pos
  <2>1. /\ IsLeaf(es[i]) <=> IsLeaf(At)
        /\ \A s \in StartsOf(tree, At) : s < ref
        /\ ~IsLeaf(es[i]) => Lower(At) <= Lower(es[i])
    BY <1>1, <1>2, <1>5, TreeFacts
  <2>2. CASE IsLeaf(At)
    <3>1. Start(At) < ref /\ Start(At) \in Nat
      BY <2>1, <2>2, AtFacts
    <3> QED
      BY <1>1, <3>1
  <2>3. CASE ~IsLeaf(At)
    <3>1. Lower(es[i]) <= ref /\ Lower(es[i]) \in Int /\ Lower(At) \in Int
      BY <1>1, <1>2, <2>1, <2>3, TreeFacts
    <3> QED
      BY <1>1, <2>1, <2>3, <3>1
  <2> QED
    BY <2>2, <2>3
<1> QED
  BY <1>1, <1>3, <1>4, <1>5

\* An entry passed in the scan of a node is too small to hold the key.
LEMMA AdvanceFindInv == FindInv /\ Advance => FindInv'
<1> SUFFICES ASSUME FindInv, Advance PROVE FindInv'
  OBVIOUS
<1> USE DEF FindInv
<1>1. /\ Scanning /\ Start(At) < ref /\ stack' = Bump(stack, Depth)
      /\ UNCHANGED <<tree, ref, lost, result>>
      /\ Depth \in Nat \ {0} /\ Depth \in 1..Depth
      /\ Top.pos \in 1..Len(Entries(Top.node)) /\ Len(Entries(Top.node)) \in Nat
      /\ Top = stack[Depth] /\ ref \in Nat /\ IsTree(tree)
  BY AtFacts DEF Advance
<1>2. /\ stack' \in Seq([node: DOMAIN tree.entries, pos: Nat]) /\ Depth' = Depth
      /\ \A d \in 1..Depth : /\ stack'[d].node = stack[d].node
                             /\ stack'[d].pos = IF d = Depth THEN stack[d].pos + 1 ELSE stack[d].pos
  BY ZenonT(40), <1>1, TopFacts, Bumped DEF Depth
<1>3. TypeOK'
  <2>1. stack' # <<>> /\ stack'[1].node = tree.root
    <3>1. Len(stack') # 0 /\ 1 \in 1..Depth
      BY <1>1, <1>2 DEF Depth
    <3> QED
      BY <1>2, <3>1, EmptySeq DEF TypeOK
  <2>2. ASSUME NEW d \in 1..Depth
        PROVE  /\ stack'[d].pos \in 1..(Len(Entries(stack'[d].node)) + 1)
               /\ d < Depth => /\ stack'[d].pos <= Len(Entries(stack'[d].node))
                               /\ Entries(stack'[d].node)[stack'[d].pos].child = stack'[d + 1].node
    <3>1. CASE d = Depth
      BY SMTT(30), <1>1, <1>2, <3>1
    <3>2. CASE d # Depth
      <4>1. d < Depth /\ d + 1 \in 1..Depth
        BY <1>1, <3>2
      <4> QED
        BY <1>2, <3>2, <4>1 DEF TypeOK
    <3> QED
      BY <3>1, <3>2
  <2> QED
    BY <1>1, <1>2, <2>1, <2>2 DEF TypeOK, Entries
<1>4. ref \notin StartsOf(tree, At)
  <2>1. Start(At) \in Nat /\ \A s \in StartsOf(tree, At) : s <= Start(At) /\ s \in Nat
    BY <1>1, AtFacts
  <2> QED
    BY <1>1, <2>1
<1>5. PassedExcluded'
  <2>1. SUFFICES ASSUME Undisturbed, NEW d \in 1..Depth, NEW i \in 1..(stack'[d].pos - 1)
                 PROVE  ref \notin StartsOf(tree, Entries(stack[d].node)[i])
    BY <1>1, <1>2 DEF PassedExcluded, Entries, Undisturbed
  <2>2. stack[d].pos \in Nat
    BY TopFacts
  <2>3. CASE i \in 1..(stack[d].pos - 1)
    BY <2>1, <2>3 DEF PassedExcluded
  <2>4. CASE i \notin 1..(stack[d].pos - 1)
    <3>1. d = Depth
      BY <1>2, <2>1, <2>4
    <3>2. stack'[d].pos = stack[d].pos + 1 /\ stack[d].pos = Top.pos
      BY <1>1, <1>2, <3>1
    <3>3. i = Top.pos
      BY <2>1, <2>2, <2>4, <3>2
    <3> QED
      BY <1>1, <1>4, <3>1, <3>3 DEF At
  <2> QED
    BY <2>3, <2>4
<1>6. PathBelowRoot' /\ FindsExactly'
  BY <1>1, <1>2 DEF PathBelowRoot, FindsExactly, Undisturbed
<1> QED
  BY <1>3, <1>5, <1>6

\* The child entered is the only place at this level where the key can still be.
LEMMA DescendFindInv == FindInv /\ Descend => FindInv'
<1> SUFFICES ASSUME FindInv, Descend PROVE FindInv'
  OBVIOUS
<1> USE DEF FindInv
<1> DEFINE new == [node |-> At.child, pos |-> 1]
<1>1. /\ Scanning /\ ~IsLeaf(At) /\ stack' = Append(stack, new)
      /\ UNCHANGED <<tree, ref, lost, result>>
  BY DEF Descend, Child
<1>2. /\ At.child \in DOMAIN tree.entries
      /\ StartsOf(tree, At) = tree.starts[At.child]
      /\ StartsOf(tree, At) \subseteq tree.starts[Top.node]
      /\ Len(tree.entries[At.child]) \in Nat
      /\ Depth \in Nat \ {0} /\ Depth \in 1..Depth /\ Top = stack[Depth]
      /\ Top.pos \in 1..Len(tree.entries[Top.node]) /\ Len(tree.entries[Top.node]) \in Nat
      /\ IsTree(tree) /\ At = tree.entries[Top.node][Top.pos]
  BY <1>1, AtFacts
<1>3. /\ stack' \in Seq([node: DOMAIN tree.entries, pos: Nat]) /\ Depth' = Depth + 1
      /\ \A d \in 1..Depth : stack'[d] = stack[d]
      /\ stack'[Depth + 1] = new
  <2>1. new \in [node: DOMAIN tree.entries, pos: Nat]
    BY <1>2
  <2>2. stack \in Seq([node: DOMAIN tree.entries, pos: Nat])
    BY TopFacts
  <2> HIDE DEF new
  <2> QED
    BY <1>1, <2>1, <2>2, AppendProperties DEF Depth
<1>0. Depth \in Nat \ {0}
  BY <1>2
<1>4. \A d \in 1..(Depth + 1) : d \in 1..Depth \/ d = Depth + 1
  BY <1>0
<1>5. TypeOK'
  <2>1. stack' # <<>> /\ stack'[1].node = tree.root
    <3>1. Len(stack') # 0 /\ 1 \in 1..Depth
      <4>1. Len(stack') = Depth + 1
        BY <1>3 DEF Depth
      <4> QED
        BY <1>0, <4>1
    <3> QED
      BY <1>3, <3>1, EmptySeq DEF TypeOK
  <2>2. ASSUME NEW d \in 1..(Depth + 1)
        PROVE  /\ stack'[d].pos \in 1..(Len(Entries(stack'[d].node)) + 1)
               /\ d < Depth + 1 => /\ stack'[d].pos <= Len(Entries(stack'[d].node))
                                   /\ Entries(stack'[d].node)[stack'[d].pos].child = stack'[d + 1].node
    <3>1. CASE d = Depth + 1
      <4>1. stack'[d].node = At.child /\ stack'[d].pos = 1
        BY <1>3, <3>1
      <4>2. 1 \in 1..(Len(tree.entries[At.child]) + 1) /\ ~(d < Depth + 1)
        <5>1. Len(tree.entries[At.child]) \in Nat
          BY <1>2
        <5> QED
          BY <1>0, <3>1, <5>1
      <4> QED
        BY <4>1, <4>2 DEF Entries
    <3>2. CASE d = Depth
      <4>1. stack'[d] = Top /\ stack'[d + 1].node = At.child
        <5>1. stack'[Depth + 1].node = At.child
          BY <1>3
        <5>2. stack'[Depth] = Top
          BY <1>2, <1>3
        <5> QED
          BY <3>2, <5>1, <5>2
      <4>2. Top.pos \in 1..(Len(tree.entries[Top.node]) + 1) /\ Top.pos <= Len(tree.entries[Top.node])
        <5>1. Top.pos \in 1..Len(tree.entries[Top.node]) /\ Len(tree.entries[Top.node]) \in Nat
          BY <1>2
        <5> QED
          BY <5>1
      <4> QED
        BY <1>2, <4>1, <4>2 DEF Entries
    <3>3. CASE d \in 1..(Depth - 1)
      <4>1. d < Depth /\ d \in 1..Depth /\ d + 1 \in 1..Depth
        BY <1>0, <3>3
      <4> QED
        BY <1>3, <4>1 DEF TypeOK
    <3>4. d = Depth + 1 \/ d = Depth \/ d \in 1..(Depth - 1)
      BY <1>0
    <3> QED
      BY <3>1, <3>2, <3>3, <3>4
  <2> QED
    BY <1>1, <1>3, <2>1, <2>2 DEF TypeOK, Entries
<1>6. PassedExcluded'
  <2>1. SUFFICES ASSUME Undisturbed, NEW d \in 1..(Depth + 1), NEW i \in 1..(stack'[d].pos - 1)
                 PROVE  ref \notin StartsOf(tree, Entries(stack'[d].node)[i])
    <3>1. Undisturbed' => Undisturbed
      BY <1>1 DEF Undisturbed
    <3> QED
      BY <1>1, <1>3, <3>1 DEF PassedExcluded, Entries
  <2>2. CASE d \in 1..Depth
    BY <1>3, <2>1, <2>2 DEF PassedExcluded
  <2>3. CASE d = Depth + 1
    BY <1>3, <2>1, <2>3
  <2> QED
    BY <1>4, <2>2, <2>3
<1>7. PathBelowRoot'
  <2>1. tree.starts[Top.node] \subseteq tree.starts[tree.root]
    BY <1>2 DEF PathBelowRoot
  <2>2. \A d \in 1..(Depth + 1) : tree.starts[stack'[d].node] \subseteq tree.starts[tree.root]
    <3>1. \A d \in 1..Depth : tree.starts[stack'[d].node] \subseteq tree.starts[tree.root]
      BY <1>3 DEF PathBelowRoot
    <3>2. tree.starts[stack'[Depth + 1].node] \subseteq tree.starts[tree.root]
      <4>1. stack'[Depth + 1].node = At.child
        BY <1>3
      <4> QED
        BY <1>2, <2>1, <4>1
    <3> QED
      BY <1>4, <3>1, <3>2
  <2> QED
    BY <1>1, <1>3, <2>2 DEF PathBelowRoot
<1>8. FindsExactly'
  BY <1>1 DEF FindsExactly, Undisturbed
<1> QED
  BY <1>5, <1>6, <1>7, <1>8

\* Coming back from a child the scan goes on behind it, and what was ruled out stays
\* ruled out.
LEMMA ReturnFindInv == FindInv /\ (ScanEnds \/ DescendFails \/ Miss) => FindInv'
<1> SUFFICES ASSUME FindInv, ScanEnds \/ DescendFails \/ Miss PROVE FindInv'
  OBVIOUS
<1> USE DEF FindInv
<1>1. CASE ScanEnds
  <2>1. ReturnNull /\ UNCHANGED <<tree, ref, lost>> /\ result = "searching" /\ ~Scanning
    BY <1>1 DEF ScanEnds
  <2>2. ASSUME Undisturbed, ref \in tree.starts[Top.node] PROVE FALSE
    <3>1. /\ Top.node \in DOMAIN tree.entries /\ IsTree(tree) /\ Depth \in 1..Depth
          /\ Top.pos \in 1..(Len(Entries(Top.node)) + 1)
      BY TopFacts DEF TypeOK
    <3>2. PICK i \in 1..Len(tree.entries[Top.node]) : ref \in StartsOf(tree, tree.entries[Top.node][i])
      BY <2>2, <3>1, TreeFacts
    <3>3. i \in 1..(Top.pos - 1)
      <4>1. Len(tree.entries[Top.node]) \in Nat
        BY <3>1, TreeFacts
      <4> QED
        BY <2>1, <3>1, <4>1 DEF Scanning, Entries
    <3> QED
      BY <2>2, <3>1, <3>2, <3>3 DEF PassedExcluded, Entries, Top
  <2> QED
    BY <2>1, <2>2, ReturnNullInv DEF TypeOK, Undisturbed
<1>2. CASE DescendFails
  BY <1>2, ReturnNullInv DEF DescendFails, Scanning, Undisturbed
<1>3. CASE Miss
  <2>1. ReturnNull /\ UNCHANGED <<tree, ref, lost>> /\ result = "searching" /\ Scanning
    BY <1>3 DEF Miss, Scanning
  <2>2. Undisturbed => ref \notin tree.starts[Top.node]
    BY <1>3, <2>1, RestExcluded DEF Miss
  <2> QED
    BY <2>1, <2>2, ReturnNullInv DEF TypeOK, Undisturbed
<1> QED
  BY <1>1, <1>2, <1>3

\* A hit is an entry of the leaf that holds the reference.
LEMMA HitFindInv == FindInv /\ Hit => FindInv'
<1> SUFFICES ASSUME FindInv, Hit PROVE FindInv'
  OBVIOUS
<1> USE DEF FindInv
<1>1. /\ UNCHANGED <<tree, ref, stack, lost>> /\ result' = "found"
      /\ Scanning /\ IsLeaf(At) /\ Start(At) = ref
  BY DEF Hit
<1>2. TypeOK' /\ PassedExcluded' /\ PathBelowRoot'
  BY <1>1 DEF TypeOK, PassedExcluded, PathBelowRoot, Depth, Entries, Undisturbed
<1>3. ref \in tree.starts[Top.node] /\ Depth \in 1..Depth /\ Top = stack[Depth]
  BY <1>1, AtFacts
<1>4. FindsExactly'
  BY <1>1, <1>3 DEF PathBelowRoot, FindsExactly
<1> QED
  BY <1>2, <1>4

\* A child is entered right behind the entries that end at or before the reference,
\* which only the last of them can do.
LEMMA DescendBounded ==
  ASSUME FindInv, Descend
  PROVE  Top.pos > 2 => Entries(Top.node)[Top.pos - 2].pos < ref
<1> DEFINE es == tree.entries[Top.node]
           i == Top.pos
<1>1. SUFFICES ASSUME i > 2 PROVE es[i - 2].pos < ref
  BY DEF Entries
<1>2. /\ IsTree(tree) /\ Top.node \in DOMAIN tree.entries
      /\ Len(es) \in Nat /\ i \in 1..Len(es) /\ At = es[i]
      /\ ~IsLeaf(es[i]) /\ Lower(es[i]) <= ref /\ Lower(es[i]) \in Int /\ ref \in Nat
  BY AtFacts DEF FindInv, Descend
<1>3. i - 2 \in 1..Len(es) /\ i - 1 \in 1..Len(es) /\ i - 2 < i - 1 /\ i - 1 < i
  <2> DEFINE n == Len(es)
  <2>1. n \in Nat /\ i \in 1..n /\ i > 2
    BY <1>1, <1>2
  <2> HIDE DEF n, i
  <2>2. i - 2 \in 1..n /\ i - 1 \in 1..n /\ i - 2 < i - 1 /\ i - 1 < i
    BY <2>1
  <2> QED
    BY <2>2 DEF n
<1> DEFINE before == es[i - 2].pos
           last == es[i - 1].pos
<1>4. before \in Nat /\ last \in Nat
  <2>1. \A k \in 1..Len(es) : es[k].pos \in Nat
    BY <1>2, TreeFacts
  <2> QED
    BY <1>3, <2>1
<1>5. before < last /\ last <= Lower(es[i])
  BY <1>2, <1>3 DEF IsTree
<1> HIDE DEF before, last
<1>6. before < ref
  BY <1>2, <1>4, <1>5
<1> QED
  BY <1>6 DEF before

\* Entering a child bounds the iterator above it; nothing else moves one that has
\* a child below it.
LEMMA DetourStep == FindInv /\ BoundedDetour /\ [Next]_vars => BoundedDetour'
<1> SUFFICES ASSUME FindInv, BoundedDetour, [Next]_vars PROVE BoundedDetour'
  OBVIOUS
<1>1. /\ TypeOK /\ Depth \in Nat \ {0} /\ Top = stack[Depth]
      /\ stack \in Seq([node: DOMAIN tree.entries, pos: Nat])
      /\ tree' = tree /\ ref' = ref
  <2>1. tree' = tree /\ ref' = ref
    BY DEF Next, Advance, ScanEnds, Descend, DescendFails, Miss, Hit, vars
  <2> QED
    BY <2>1, TopFacts DEF FindInv, Top
<1>2. ASSUME Depth' \in Nat, Depth' <= Depth,
             \A d \in 1..Depth' : /\ stack'[d].node = stack[d].node
                                  /\ d < Depth' => stack'[d].pos = stack[d].pos
      PROVE  BoundedDetour'
  <2>1. SUFFICES ASSUME NEW d \in 2..Depth'
                 PROVE  LET above == Entries(stack[d - 1].node)
                            i == stack'[d - 1].pos
                        IN  i > 2 => above[i - 2].pos < ref
    <3>1. \A d \in 2..Depth' : stack'[d - 1].node = stack[d - 1].node
      BY <1>2
    <3> QED
      BY <1>1, <2>1, <3>1 DEF BoundedDetour, Entries
  <2>2. d \in 2..Depth /\ stack'[d - 1].pos = stack[d - 1].pos
    BY <1>1, <1>2
  <2> QED
    BY <2>2 DEF BoundedDetour
<1>3. CASE Advance
  <2>1. stack' = Bump(stack, Depth) /\ Depth \in 1..Len(stack)
    BY <1>1, <1>3 DEF Advance, Depth
  <2>2. /\ Len(Bump(stack, Depth)) = Len(stack)
        /\ \A d \in 1..Len(stack) :
             /\ Bump(stack, Depth)[d].node = stack[d].node
             /\ Bump(stack, Depth)[d].pos = IF d = Depth THEN stack[d].pos + 1 ELSE stack[d].pos
    BY ZenonT(40), <1>1, <2>1, Bumped
  <2>3. Depth' = Depth
    BY <2>1, <2>2 DEF Depth
  <2>4. \A d \in 1..Depth : d < Depth => d # Depth
    BY <1>1
  <2>5. \A d \in 1..Depth : /\ stack'[d].node = stack[d].node
                            /\ d < Depth => stack'[d].pos = stack[d].pos
    BY <2>1, <2>2, <2>4 DEF Depth
  <2>6. Depth' \in Nat /\ Depth' <= Depth
    BY <1>1, <2>3
  <2> QED
    BY <1>2, <2>3, <2>5, <2>6
<1>4. CASE ScanEnds \/ DescendFails \/ Miss
  <2>1. ReturnNull
    BY <1>4 DEF ScanEnds, DescendFails, Miss
  <2>2. CASE Depth = 1
    <3>1. stack' = stack
      BY <2>1, <2>2 DEF ReturnNull
    <3>2. Depth' = Depth
      BY <3>1 DEF Depth
    <3> QED
      BY <1>1, <1>2, <3>1, <3>2
  <2>3. CASE Depth # 1
    <3> DEFINE up == Depth - 1
    <3>1. /\ up \in Nat /\ up < Depth /\ Depth' = up
          /\ \A d \in 1..up : /\ stack'[d].node = stack[d].node
                              /\ stack'[d].pos = IF d = up THEN stack[d].pos + 1 ELSE stack[d].pos
      BY <1>1, <2>1, <2>3, Popped
    <3> HIDE DEF up
    <3>2. \A d \in 1..up : d < up => d # up
      BY <3>1
    <3>3. Depth' \in Nat /\ Depth' <= Depth
      BY <1>1, <3>1
    <3>4. \A d \in 1..Depth' : /\ stack'[d].node = stack[d].node
                               /\ d < Depth' => stack'[d].pos = stack[d].pos
      BY <3>1, <3>2
    <3> QED
      BY <1>2, <3>3, <3>4
  <2> QED
    BY <2>2, <2>3
<1>5. CASE Descend
  <2> DEFINE new == [node |-> At.child, pos |-> 1]
  <2>1. stack' = Append(stack, new)
    BY <1>5 DEF Descend, Child
  <2>2. Depth' = Depth + 1 /\ \A d \in 1..Depth : stack'[d] = stack[d]
    <3> HIDE DEF new
    <3> QED
      BY <1>1, <2>1 DEF Depth
  <2>3. SUFFICES ASSUME NEW d \in 2..(Depth + 1)
                 PROVE  LET above == Entries(stack[d - 1].node)
                            i == stack[d - 1].pos
                        IN  i > 2 => above[i - 2].pos < ref
    <3>1. \A d \in 2..(Depth + 1) : stack'[d - 1] = stack[d - 1]
      BY <1>1, <2>2
    <3> QED
      BY <1>1, <2>2, <2>3, <3>1 DEF BoundedDetour, Entries
  <2>4. CASE d \in 2..Depth
    BY <2>4 DEF BoundedDetour
  <2>5. CASE d = Depth + 1
    <3>1. d - 1 = Depth
      BY <1>1, <2>5
    <3> QED
      BY <1>1, <1>5, <3>1, DescendBounded
  <2> QED
    BY <1>1, <2>4, <2>5
<1>6. CASE Hit \/ UNCHANGED vars
  <2>1. stack' = stack
    BY <1>6 DEF Hit, vars
  <2> QED
    BY <1>1, <2>1 DEF BoundedDetour, Depth, Entries
<1> QED
  BY <1>3, <1>4, <1>5, <1>6 DEF Next

\* A search starts with nothing ruled out.
LEMMA InitFindInv == Init => FindInv
<1> SUFFICES ASSUME Init PROVE FindInv
  OBVIOUS
<1> DEFINE new == [node |-> tree.root, pos |-> 1]
<1>1. IsTree(tree) /\ tree.root \in DOMAIN tree.entries /\ ref \in Nat
  BY TreesAssumption, ReferencesAssumption DEF Init, IsTree
<1>2. /\ stack = <<new>> /\ Depth = 1 /\ stack[1] = new
      /\ stack \in Seq([node: DOMAIN tree.entries, pos: Nat]) /\ stack # <<>>
  BY <1>1 DEF Init, Depth
<1>3. Len(Entries(tree.root)) \in Nat
  BY <1>1, TreeFacts DEF Entries
<1>4. TypeOK
  <2>1. \A d \in 1..Depth : /\ stack[d].pos \in 1..(Len(Entries(stack[d].node)) + 1)
                            /\ ~(d < Depth)
    BY <1>2, <1>3
  <2>2. stack[1].node = tree.root /\ lost = FALSE /\ result = "searching"
    BY <1>2 DEF Init
  <2>3. \A d \in 1..Depth : d < Depth =>
          /\ stack[d].pos <= Len(Entries(stack[d].node))
          /\ Entries(stack[d].node)[stack[d].pos].child = stack[d + 1].node
    BY <2>1
  <2> QED
    BY <1>1, <1>2, <2>1, <2>2, <2>3 DEF TypeOK
<1> QED
  BY <1>2, <1>4 DEF FindInv, PassedExcluded, PathBelowRoot, FindsExactly, Init

\* What a search has ruled out stays ruled out, at any depth and after any failure
\* to read a child.
THEOREM FindInvariant == Spec => []FindInv
<1>1. FindInv /\ [Next]_vars => FindInv'
  <2>1. ASSUME FindInv, UNCHANGED vars PROVE FindInv'
    <3>1. UNCHANGED <<tree, ref, stack, lost, result>>
      BY <2>1 DEF vars
    <3>2. TypeOK'
      BY <2>1, <3>1 DEF FindInv, TypeOK, Depth, Entries
    <3>3. PassedExcluded'
      BY <2>1, <3>1 DEF FindInv, PassedExcluded, Undisturbed, Depth, Entries
    <3>4. PathBelowRoot'
      BY <2>1, <3>1 DEF FindInv, PathBelowRoot, Depth
    <3>5. FindsExactly'
      BY <2>1, <3>1 DEF FindInv, FindsExactly
    <3> QED
      BY <3>2, <3>3, <3>4, <3>5 DEF FindInv
  <2> QED
    BY <2>1, AdvanceFindInv, DescendFindInv, ReturnFindInv, HitFindInv DEF Next
<1> QED
  BY <1>1, InitFindInv, PTL DEF Spec

\* For every tree and reference: a search finds the reference if and only if
\* a key starts there, unless a read failed or a key straddles two nodes.
THEOREM SearchExact == Spec => []FindsExactly
<1>1. FindInv => FindsExactly
  BY DEF FindInv
<1> QED
  BY <1>1, FindInvariant, PTL

\* The chain of iterators is always a path of the tree.
THEOREM SearchTypeCorrect == Spec => []TypeOK
<1>1. FindInv => TypeOK
  BY DEF FindInv
<1> QED
  BY <1>1, FindInvariant, PTL

\* However many entries end before the reference, a search enters at most two
\* children of a node.
THEOREM DetourBounded == Spec => []BoundedDetour
<1>1. Init => BoundedDetour
  <2>1. Init => Depth = 1
    BY DEF Init, Depth
  <2> QED
    BY <2>1 DEF BoundedDetour
<1>2. FindInv /\ BoundedDetour /\ [Next]_vars => BoundedDetour'
  BY DetourStep
<1> QED
  BY <1>1, <1>2, FindInvariant, PTL DEF Spec

-----------------------------------------------------------------------------
(* How long a search may take *)

\* A chain has no more levels than the tree.
Levels(t) == t.height[t.root] + 1
Shallow == \A d \in 1..Depth : d + tree.height[stack[d].node] <= Levels(tree)

\* The positions of the iterators, level by level, 0 where there is none, and all
\* such vectors.
Positions(t) == UNION {0..(Len(t.entries[n]) + 1) : n \in DOMAIN t.entries}
Marks(t) == [1..Levels(t) -> Positions(t)]
Mark == [d \in 1..Levels(tree) |-> IF d <= Depth THEN stack[d].pos ELSE 0]

\* Those that come later, where the first difference decides.
Before(u, v, n) == \E d \in 1..n : u[d] < v[d] /\ \A e \in 1..(d - 1) : u[e] = v[e]
Later(t, u) == {v \in Marks(t) : Before(u, v, Levels(t))}

\* A bound of the steps until the search answers.
ToGo == IF result = "searching" THEN Cardinality(Later(tree, Mark)) + 1 ELSE 0

\* A tree has finitely many vectors of positions.
LEMMA MarksFinite ==
  ASSUME NEW t, IsTree(t)
  PROVE  Levels(t) \in Nat /\ Positions(t) \subseteq Nat /\ IsFiniteSet(Marks(t))
<1> DEFINE nodes == DOMAIN t.entries
           Of(n) == 0..(Len(t.entries[n]) + 1)
           all == {Of(n) : n \in nodes}
           f == [n \in nodes |-> Of(n)]
<1>1. IsFiniteSet(nodes) /\ \A n \in nodes : Len(t.entries[n]) \in Nat
  BY TreeFacts DEF IsTree
<1>2. Levels(t) \in Nat
  BY DEF IsTree, Levels
<1>3. Positions(t) \subseteq Nat
  BY <1>1 DEF Positions
<1>4. IsFiniteSet(all)
  <2>1. f \in Surjection(nodes, all)
    BY DEF Surjection
  <2> HIDE DEF nodes, all, f
  <2> QED
    BY <1>1, <2>1, FS_Surjection
<1>5. \A T \in all : IsFiniteSet(T)
  <2>1. ASSUME NEW n \in nodes PROVE IsFiniteSet(Of(n))
    BY <1>1, FS_Interval
  <2> QED
    BY <2>1
<1>6. IsFiniteSet(Positions(t))
  <2>1. IsFiniteSet(UNION all)
    BY <1>4, <1>5, FS_UNION
  <2> QED
    BY <2>1 DEF Positions
<1>7. IsFiniteSet(SUBSET ((1..Levels(t)) \X Positions(t)))
  <2>1. IsFiniteSet(1..Levels(t))
    BY <1>2, FS_Interval
  <2>2. IsFiniteSet((1..Levels(t)) \X Positions(t))
    BY <1>6, <2>1, FS_Product
  <2> QED
    BY <2>2, FS_SUBSET
<1>8. IsFiniteSet(Marks(t))
  <2> DEFINE D == 1..Levels(t)
             graph == [v \in Marks(t) |-> {<<d, v[d]>> : d \in D}]
  <2>1. graph \in [Marks(t) -> SUBSET (D \X Positions(t))]
    <3>1. ASSUME NEW v \in Marks(t) PROVE {<<d, v[d]>> : d \in D} \in SUBSET (D \X Positions(t))
      <4>1. \A d \in D : v[d] \in Positions(t)
        BY DEF Marks
      <4> QED
        BY <4>1
    <3> QED
      BY <3>1
  <2>2. ASSUME NEW u \in Marks(t), NEW v \in Marks(t), graph[u] = graph[v] PROVE u = v
    <3>1. ASSUME NEW d \in D PROVE u[d] = v[d]
      <4>1. <<d, u[d]>> \in {<<e, v[e]>> : e \in D}
        BY <2>2
      <4> QED
        BY <4>1
    <3>2. u \in [D -> Positions(t)] /\ v \in [D -> Positions(t)]
      BY DEF Marks
    <3> HIDE DEF D
    <3> QED
      BY <3>1, <3>2
  <2>3. graph \in Injection(Marks(t), SUBSET (D \X Positions(t)))
    BY <2>1, <2>2 DEF Injection, IsInjective
  <2> QED
    BY <1>7, <2>3, FS_Injection
<1> QED
  BY <1>2, <1>3, <1>8

\* Later vectors have fewer ones behind them.
LEMMA LaterFewer ==
  ASSUME NEW t, IsTree(t), NEW u \in Marks(t), NEW v \in Marks(t), Before(u, v, Levels(t))
  PROVE  /\ Cardinality(Later(t, u)) \in Nat /\ Cardinality(Later(t, v)) \in Nat
         /\ Cardinality(Later(t, v)) < Cardinality(Later(t, u))
<1> DEFINE n == Levels(t)
<1>1. n \in Nat /\ IsFiniteSet(Marks(t)) /\ Positions(t) \subseteq Nat
  BY MarksFinite
<1>2. \A w \in Marks(t) : \A d \in 1..n : w[d] \in Nat
  BY <1>1 DEF Marks
<1> HIDE DEF n
<1>3. ASSUME NEW w \in Marks(t), Before(v, w, n) PROVE Before(u, w, n)
  <2>1. PICK d \in 1..n : u[d] < v[d] /\ \A e \in 1..(d - 1) : u[e] = v[e]
    BY DEF Before, n
  <2>2. PICK c \in 1..n : v[c] < w[c] /\ \A e \in 1..(c - 1) : v[e] = w[e]
    BY <1>3 DEF Before
  <2>3. c \in Nat /\ d \in Nat
    BY <1>1
  <2>4. CASE c < d
    <3>1. c \in 1..(d - 1) /\ \A e \in 1..(c - 1) : e \in 1..(d - 1)
      BY <2>3, <2>4
    <3>2. u[c] < w[c] /\ \A e \in 1..(c - 1) : u[e] = w[e]
      BY <2>1, <2>2, <3>1
    <3> QED
      BY <3>2 DEF Before
  <2>5. CASE d < c
    <3>1. d \in 1..(c - 1) /\ \A e \in 1..(d - 1) : e \in 1..(c - 1)
      BY <2>3, <2>5
    <3>2. u[d] < w[d] /\ \A e \in 1..(d - 1) : u[e] = w[e]
      BY <2>1, <2>2, <3>1
    <3> QED
      BY <3>2 DEF Before
  <2>6. CASE c = d
    <3>1. u[d] < w[d]
      BY <1>2, <2>1, <2>2, <2>6
    <3>2. \A e \in 1..(d - 1) : u[e] = w[e]
      BY <2>1, <2>2, <2>6
    <3> QED
      BY <3>1, <3>2 DEF Before
  <2> QED
    BY <2>3, <2>4, <2>5, <2>6
<1>4. Later(t, v) \subseteq Later(t, u)
  BY <1>3 DEF Later, n
<1>5. v \in Later(t, u) /\ v \notin Later(t, v)
  BY <1>2 DEF Later, Before, n
<1>6. IsFiniteSet(Later(t, u))
  BY <1>1, FS_Subset DEF Later
<1>7. /\ IsFiniteSet(Later(t, v)) /\ Cardinality(Later(t, v)) <= Cardinality(Later(t, u))
      /\ Cardinality(Later(t, u)) = Cardinality(Later(t, v)) => Later(t, u) = Later(t, v)
  BY <1>4, <1>6, FS_Subset
<1>8. Cardinality(Later(t, u)) \in Nat /\ Cardinality(Later(t, v)) \in Nat
  BY <1>6, <1>7, FS_CardinalityType
<1>9. Later(t, u) # Later(t, v)
  BY <1>5
<1> QED
  BY <1>7, <1>8, <1>9

\* The chain of a search is a vector of positions.
LEMMA MarkType ==
  TypeOK /\ Shallow =>
    Mark \in Marks(tree) /\ Levels(tree) \in Nat /\ Depth \in 1..Levels(tree)
<1> SUFFICES ASSUME TypeOK, Shallow
             PROVE  Mark \in Marks(tree) /\ Levels(tree) \in Nat /\ Depth \in 1..Levels(tree)
  OBVIOUS
<1>1. IsTree(tree) /\ Levels(tree) \in Nat /\ Depth \in Nat \ {0}
  BY MarksFinite, TopFacts DEF TypeOK
<1>2. Depth \in 1..Levels(tree)
  <2>1. Depth \in 1..Depth
    BY <1>1
  <2>2. stack[Depth].node \in DOMAIN tree.entries
    BY <2>1, TopFacts
  <2>3. tree.height[stack[Depth].node] \in Nat
    BY <1>1, <2>2 DEF IsTree
  <2>4. Depth + tree.height[stack[Depth].node] <= Levels(tree)
    BY <2>1 DEF Shallow
  <2> QED
    BY <1>1, <2>3, <2>4
<1>3. \A d \in 1..Depth : stack[d].pos \in Positions(tree)
  <2>1. ASSUME NEW d \in 1..Depth PROVE stack[d].pos \in Positions(tree)
    <3>1. /\ stack[d].node \in DOMAIN tree.entries
          /\ stack[d].pos \in 1..(Len(tree.entries[stack[d].node]) + 1)
          /\ Len(tree.entries[stack[d].node]) \in Nat
      BY TopFacts DEF TypeOK, Entries
    <3>2. stack[d].pos \in 0..(Len(tree.entries[stack[d].node]) + 1)
      BY <3>1
    <3> QED
      BY <3>1, <3>2 DEF Positions
  <2> QED
    BY <2>1
<1>4. 0 \in Positions(tree)
  <2>1. tree.root \in DOMAIN tree.entries /\ Len(tree.entries[tree.root]) \in Nat
    BY <1>1, TreeFacts DEF IsTree
  <2>2. 0 \in 0..(Len(tree.entries[tree.root]) + 1)
    BY <2>1
  <2> QED
    BY <2>1, <2>2 DEF Positions
<1>5. \A d \in 1..Levels(tree) : d <= Depth => d \in 1..Depth
  BY <1>1
<1> QED
  BY <1>1, <1>2, <1>3, <1>4, <1>5 DEF Mark, Marks

\* A search that goes on comes to a later vector, and stays within the levels.
LEMMA GoesOn ==
  ASSUME FindInv, Shallow, Next, result' = "searching"
  PROVE  Shallow' /\ Before(Mark, Mark', Levels(tree)) /\ UNCHANGED tree
<1> DEFINE n == Levels(tree)
<1>1. /\ TypeOK /\ IsTree(tree) /\ n \in Nat /\ Depth \in Nat \ {0} /\ Depth \in 1..n
      /\ tree' = tree /\ \A d \in 1..Depth : stack[d].pos \in Nat
  BY MarkType, TopFacts DEF FindInv, TypeOK, Next, Advance, ScanEnds, Descend, DescendFails, Miss, Hit
<1>2. \A d \in 1..n : /\ Mark[d] = IF d <= Depth THEN stack[d].pos ELSE 0
                      /\ Mark'[d] = IF d <= Depth' THEN stack'[d].pos ELSE 0
  BY <1>1 DEF Mark
<1> HIDE DEF n
\* It is enough that one iterator moves on, and none in front of it.
<1>3. ASSUME NEW d \in 1..n, d <= Depth', stack'[d].pos > Mark[d],
             \A e \in 1..(d - 1) : e <= Depth /\ e <= Depth' /\ stack'[e].pos = stack[e].pos
      PROVE  Before(Mark, Mark', n)
  <2>1. \A e \in 1..(d - 1) : e \in 1..n
    BY <1>1
  <2>2. Mark'[d] = stack'[d].pos /\ \A e \in 1..(d - 1) : Mark'[e] = Mark[e]
    BY <1>2, <1>3, <2>1
  <2>3. Mark[d] < Mark'[d]
    BY <1>3, <2>2
  <2> QED
    BY <2>2, <2>3 DEF Before
<1>4. CASE Advance
  <2>1. Scanning /\ stack' = Bump(stack, Depth) /\ stack \in Seq([node: DOMAIN tree.entries, pos: Nat])
    BY <1>1, <1>4, TopFacts DEF Advance
  <2>2. Depth \in 1..Len(stack)
    BY <1>1 DEF Depth
  <2>3. /\ Depth' = Depth
        /\ \A d \in 1..Depth : /\ stack'[d].node = stack[d].node
                               /\ stack'[d].pos = IF d = Depth THEN stack[d].pos + 1 ELSE stack[d].pos
    BY ZenonT(40), <2>1, <2>2, Bumped DEF Depth
  <2>4. Shallow'
    BY <1>1, <2>3 DEF Shallow
  <2>5. Before(Mark, Mark', n)
    <3>1. Depth \in 1..Depth
      BY <1>1
    <3>2. stack'[Depth].pos = Mark[Depth] + 1 /\ Mark[Depth] \in Nat
      BY <1>1, <1>2, <2>3, <3>1
    <3>3. \A e \in 1..(Depth - 1) : e \in 1..Depth /\ e # Depth
      BY <1>1
    <3>4. \A e \in 1..(Depth - 1) : e <= Depth /\ e <= Depth' /\ stack'[e].pos = stack[e].pos
      BY <2>3, <3>3
    <3>5. Depth <= Depth' /\ stack'[Depth].pos > Mark[Depth]
      BY <1>1, <2>3, <3>2
    <3> QED
      BY <1>1, <1>3, <3>4, <3>5
  <2> QED
    BY <1>1, <2>4, <2>5 DEF n
<1>5. CASE ScanEnds \/ DescendFails \/ Miss
  <2>1. ReturnNull
    BY <1>5 DEF ScanEnds, DescendFails, Miss
  <2>2. Depth # 1
    BY <2>1 DEF ReturnNull
  <2> DEFINE up == Depth - 1
  <2>3. /\ up \in 1..Depth /\ up \in Nat /\ up < Depth /\ Depth' = up
        /\ \A d \in 1..up :
             /\ stack'[d].node = stack[d].node
             /\ stack'[d].pos = IF d = up THEN stack[d].pos + 1 ELSE stack[d].pos
    BY <1>1, <2>1, <2>2, Popped
  <2> HIDE DEF up
  <2>4. \A d \in 1..up : d \in 1..Depth
    BY <1>1, <2>3
  <2>5. Shallow'
    BY <1>1, <2>3, <2>4 DEF Shallow
  <2>6. Before(Mark, Mark', n)
    <3>1. up \in 1..up /\ up \in 1..n
      BY <1>1, <2>3
    <3>2. stack'[up].pos = Mark[up] + 1 /\ Mark[up] \in Nat
      BY <1>1, <1>2, <2>3, <3>1
    <3>3. \A e \in 1..(up - 1) : e \in 1..up /\ e # up /\ e <= Depth
      BY <1>1, <2>3
    <3>4. \A e \in 1..(up - 1) : e <= Depth /\ e <= Depth' /\ stack'[e].pos = stack[e].pos
      BY <2>3, <3>3
    <3>5. up <= Depth' /\ stack'[up].pos > Mark[up]
      BY <2>3, <3>2
    <3> QED
      BY <1>3, <3>1, <3>4, <3>5
  <2> QED
    BY <1>1, <2>5, <2>6 DEF n
<1>6. CASE Descend
  <2> DEFINE new == [node |-> At.child, pos |-> 1]
  <2>1. Scanning /\ ~IsLeaf(At) /\ stack' = Append(stack, new)
    BY <1>6 DEF Descend, Child
  <2>2. /\ At.child \in DOMAIN tree.entries /\ Top = stack[Depth]
        /\ Top.node \in DOMAIN tree.entries
        /\ Top.pos \in 1..Len(tree.entries[Top.node]) /\ At = tree.entries[Top.node][Top.pos]
    BY <1>1, <2>1, AtFacts
  <2>3. /\ Depth' = Depth + 1 /\ stack'[Depth + 1] = new
        /\ \A d \in 1..Depth : stack'[d] = stack[d]
    <3>1. new \in [node: DOMAIN tree.entries, pos: Nat]
      BY <2>2
    <3>2. stack \in Seq([node: DOMAIN tree.entries, pos: Nat])
      BY <1>1, TopFacts
    <3> HIDE DEF new
    <3> QED
      BY <2>1, <3>1, <3>2, AppendProperties DEF Depth
  <2>4. /\ tree.height[At.child] \in Nat /\ tree.height[Top.node] \in Nat
        /\ tree.height[At.child] < tree.height[Top.node]
    BY <1>1, <2>1, <2>2 DEF IsTree
  <2>5. Depth + tree.height[Top.node] <= n
    <3>1. Depth \in 1..Depth
      BY <1>1
    <3> QED
      BY <2>2, <3>1 DEF Shallow, n
  <2>6. Depth + 1 + tree.height[At.child] <= n
    BY <1>1, <2>4, <2>5
  <2>7. Shallow'
    <3>1. ASSUME NEW d \in 1..(Depth + 1) PROVE d + tree.height[stack'[d].node] <= n
      <4>1. CASE d = Depth + 1
        BY <2>3, <2>6, <4>1
      <4>2. CASE d # Depth + 1
        <5>1. d \in 1..Depth
          BY <1>1, <4>2
        <5> QED
          BY <2>3, <5>1 DEF Shallow, n
      <4> QED
        BY <4>1, <4>2
    <3> QED
      BY <1>1, <2>3, <3>1 DEF Shallow, n
  <2>8. Before(Mark, Mark', n)
    <3>1. PICK k \in 1..n : k = Depth + 1
      BY <1>1, <2>4, <2>6
    <3>2. Mark[k] = 0 /\ stack'[k].pos = 1
      <4>1. ~(k <= Depth)
        BY <1>1, <3>1
      <4>2. stack'[k] = new
        BY <2>3, <3>1
      <4> QED
        BY <1>2, <3>1, <4>1, <4>2
    <3>3. \A e \in 1..(k - 1) : e \in 1..Depth /\ e <= Depth /\ e <= Depth + 1
      BY <1>1, <3>1
    <3>4. \A e \in 1..(k - 1) : e <= Depth /\ e <= Depth' /\ stack'[e].pos = stack[e].pos
      BY <2>3, <3>3
    <3>5. k <= Depth' /\ stack'[k].pos > Mark[k]
      BY <1>1, <2>3, <3>1, <3>2
    <3> QED
      BY <1>3, <3>4, <3>5
  <2> QED
    BY <1>1, <2>7, <2>8 DEF n
<1>7. ~Hit
  BY DEF Hit
<1> QED
  BY <1>4, <1>5, <1>6, <1>7 DEF Next

\* Every search of a tree comes to an answer, whatever its height, however wide its
\* nodes and whichever of them cannot be read: each step lowers a natural number,
\* so that going up after a miss never leads to where the search has been.
THEOREM SearchComesCloser == Spec => [][ToGo' < ToGo /\ ToGo \in Nat]_vars
<1> DEFINE Closer == ToGo' < ToGo /\ ToGo \in Nat
           Inside == result = "searching" => Shallow
<1>1. Init => Inside
  <2> SUFFICES ASSUME Init PROVE Shallow
    OBVIOUS
  <2>1. IsTree(tree) /\ Depth = 1 /\ stack[1].node = tree.root
    BY TreesAssumption DEF Init, Depth
  <2>2. tree.height[tree.root] \in Nat
    BY <2>1 DEF IsTree
  <2> QED
    BY <2>1, <2>2 DEF Shallow, Levels
<1>2. FindInv /\ Inside /\ [Next]_vars => Inside'
  <2>1. ASSUME FindInv, Inside, Next PROVE Inside'
    <3>1. result = "searching"
      BY <2>1 DEF Next, Advance, ScanEnds, Descend, DescendFails, Miss, Hit, Scanning
    <3> QED
      BY <2>1, <3>1, GoesOn
  <2>2. ASSUME Inside, UNCHANGED vars PROVE Inside'
    BY <2>2 DEF vars, Shallow, Depth
  <2> QED
    BY <2>1, <2>2
<1>3. ASSUME FindInv, Inside, Next PROVE Closer
  <2>1. result = "searching" /\ Shallow /\ TypeOK /\ IsTree(tree)
    BY <1>3 DEF Next, Advance, ScanEnds, Descend, DescendFails, Miss, Hit, Scanning, FindInv, TypeOK
  <2>2. Mark \in Marks(tree)
    BY <2>1, MarkType
  <2>3. Cardinality(Later(tree, Mark)) \in Nat
    <3>1. IsFiniteSet(Marks(tree)) /\ Later(tree, Mark) \in SUBSET Marks(tree)
      BY <2>1, MarksFinite DEF Later
    <3> QED
      BY <3>1, FS_Subset, FS_CardinalityType
  <2>4. CASE result' = "searching"
    <3>1. Shallow' /\ Before(Mark, Mark', Levels(tree)) /\ tree' = tree
      BY <1>3, <2>1, <2>4, GoesOn
    <3>2. TypeOK'
      BY <1>3, AdvanceFindInv, DescendFindInv, ReturnFindInv, HitFindInv DEF Next, FindInv
    <3>3. Mark' \in Marks(tree)
      <4>1. (Mark \in Marks(tree))'
        BY <3>1, <3>2, MarkType, PTL
      <4> QED
        BY <3>1, <4>1
    <3>4. Cardinality(Later(tree, Mark')) < Cardinality(Later(tree, Mark))
      BY <2>1, <2>2, <3>1, <3>3, LaterFewer
    <3>5. Cardinality(Later(tree, Mark')) \in Nat
      BY <2>1, <2>2, <3>1, <3>3, LaterFewer
    <3>6. ToGo' = Cardinality(Later(tree, Mark')) + 1
      BY <2>4, <3>1 DEF ToGo
    <3> QED
      BY <2>1, <2>3, <3>4, <3>5, <3>6 DEF ToGo
  <2>5. CASE result' # "searching"
    BY <2>1, <2>3, <2>5 DEF ToGo
  <2> QED
    BY <2>4, <2>5
<1>4. FindInv /\ Inside /\ [Next]_vars => [Closer]_vars
  BY <1>3
<1> QED
  BY <1>1, <1>2, <1>4, FindInvariant, PTL DEF Spec
=============================================================================
