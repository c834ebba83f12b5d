--------------------------- MODULE ImageOpenProofs ---------------------------
(***************************************************************************)
(* Proof that an open finds what is there: for all images, whatever their  *)
(* sections, journal entries and bsets, and whatever the size of a block,  *)
(* the walks stay on elements, the roots are the first of their own btree, *)
(* no bset is left out of a merge, and the outcome is the one that the     *)
(* image deserves.  Elements lie at sums of the sizes before them, so the  *)
(* proof begins with an induction that shows their order.                  *)
(***************************************************************************)
EXTENDS ImageOpen, SequenceTheorems, WellFoundedInduction, TLAPS

\* What a walk has passed is not what it looks for.
Walked ==
  /\ phase = "sections" =>
       \A s \in 1..Len(image.sections) :
         image.sections[s].at <= place => image.sections[s].type # "clean"
  /\ phase = "entries" => \A e \in RootEntries(image, Type) : image.entries[e].at > place

\* The iterators whose root has been found, and those whose node has been read.
Finished(i) == i < nth \/ phase \in {"root", "opened"}
HasRoot(i) == Finished(i) \/ (i = nth /\ phase \in {"node", "bsets"})
HasNode(i) == Finished(i) \/ (i = nth /\ phase = "bsets")

\* What an open has got past is as it should be.
Passed ==
  /\ phase \notin {"header", "failed", "died"} => image.medium = "whole"
  /\ phase \in {"entries", "node", "bsets", "root", "opened"} =>
       Clean(image) # {} /\ ~OutOfReach(image)
  /\ \A i \in 1..Len(Order) :
       /\ HasRoot(i) => root[Order[i]] # NULL
       /\ HasNode(i) => /\ image.nodes[Order[i]].readable
                        /\ Element(image.entries, root[Order[i]]).value = "used"
  /\ phase = "opened" => image.search = "seeded"

\* The bsets with keys of a node, as far as a place in it.
IsAllUpTo(places, node, upto) ==
  /\ {places[i] : i \in 1..Len(places)} =
       {node.bsets[i].at : i \in {j \in 1..Len(node.bsets) :
                                    HasKeys(node.bsets[j]) /\ node.bsets[j].at <= upto}}
  /\ \A i, j \in 1..Len(places) : i < j => places[i] < places[j]

\* What has been collected of each node.
Collected ==
  \A i \in 1..Len(Order) :
    LET node == image.nodes[Order[i]]  places == collected[Order[i]] IN
    ~node.summed /\ ~FillsBlock(node) =>
      /\ Finished(i) => IsAllOf(places, node)
      /\ i = nth /\ phase = "bsets" => IsAllUpTo(places, node, place)
      /\ i = nth /\ phase \in {"header", "sections", "entries", "node"} => places = <<>>
      /\ i > nth => places = <<>>

\* The merges that returned were given keys of one format, and a merge to come is
\* given the keys of the first bset at least.
OfOneFormat(i) ==
  \E format \in Format : Formats(image.nodes[Order[i]], collected[Order[i]]) = {format}
Merged ==
  /\ \A i \in 1..Len(Order) : Finished(i) => OfOneFormat(i)
  /\ phase = "bsets" /\ place # NULL /\ HasKeys(Node.bsets[1]) =>
       \E j \in 1..Len(collected[Type]) : collected[Type][j] = NodeHeader

OpenInv == TypeOK /\ Walked /\ RootsOwn /\ Passed /\ Collected /\ Merged /\ OutcomeFits

-----------------------------------------------------------------------------
(* Order of what lies one behind the other *)

\* A set of natural numbers has a least one.
LEMMA Least ==
  ASSUME NEW S \in SUBSET Nat, S # {}
  PROVE  \E m \in S : \A n \in S : m <= n
<1>1. PICK m \in S : \A n \in S : ~ (<<n, m>> \in OpToRel(<, Nat))
  BY WFMin, NatLessThanWellFounded
<1>2. \A n \in S : ~(n < m)
  BY <1>1 DEF OpToRel
<1> QED
  BY <1>2

\* A set of natural numbers with 0 and every successor has all of them.
LEMMA Induction ==
  ASSUME NEW S \in SUBSET Nat, 0 \in S, \A n \in S : n + 1 \in S
  PROVE  S = Nat
<1>1. ASSUME Nat \ S # {} PROVE FALSE
  <2>1. PICK m \in Nat \ S : \A n \in Nat \ S : m <= n
    BY <1>1, Least
  <2>2. m - 1 \in S
    BY <2>1
  <2> QED
    BY <2>1, <2>2
<1> QED
  BY <1>1

\* Intervals that do not overlap their neighbours do not overlap at all.
LEMMA Apart ==
  ASSUME NEW n \in Nat, NEW start \in [1..n -> Nat], NEW end \in [1..n -> Nat],
         \A i \in 1..n : start[i] < end[i],
         \A i \in 1..n : i > 1 => end[i - 1] <= start[i]
  PROVE  \A i, j \in 1..n : i < j => end[i] <= start[j]
<1> DEFINE S == {k \in Nat : \A i, j \in 1..n : j = i + k + 1 => end[i] <= start[j]}
<1>1. 0 \in S
  BY DEF S
<1>2. ASSUME NEW k \in S PROVE k + 1 \in S
  <2>1. SUFFICES ASSUME NEW i \in 1..n, NEW j \in 1..n, j = i + (k + 1) + 1
                 PROVE  end[i] <= start[j]
    BY <1>2
  <2>2. k \in Nat /\ j - 1 \in 1..n /\ j > 1 /\ j - 1 = i + k + 1
    BY <1>2, <2>1
  <2>3. end[i] <= start[j - 1] /\ start[j - 1] < end[j - 1] /\ end[j - 1] <= start[j]
    BY <1>2, <2>2
  <2>4. /\ end[i] \in Nat /\ start[j - 1] \in Nat /\ end[j - 1] \in Nat /\ start[j] \in Nat
    BY <2>2
  <2> QED
    BY <2>3, <2>4
<1>3. S = Nat
  <2> HIDE DEF S
  <2>1. S \in SUBSET Nat
    BY DEF S
  <2> QED
    BY <1>1, <1>2, <2>1, Induction
<1>4. SUFFICES ASSUME NEW i \in 1..n, NEW j \in 1..n, i < j PROVE end[i] <= start[j]
  OBVIOUS
<1>5. j - i - 1 \in S
  <2> HIDE DEF S
  <2>1. j - i - 1 \in Nat
    BY <1>4
  <2> QED
    BY <1>3, <2>1
<1>6. j = i + (j - i - 1) + 1
  BY <1>4
<1> QED
  BY <1>5, <1>6

\* A list of elements that lie in order from first to end.
Laid(list, first, end) ==
  LET n == Len(list) IN
  /\ n \in Nat /\ first \in Nat \ {0} /\ end \in Nat
  /\ \A i \in 1..n : list[i].at \in Nat /\ list[i].size \in Nat \ {0}
  /\ \A i, j \in 1..n : i < j => list[i].at + list[i].size <= list[j].at
  /\ \A i \in 1..n : /\ first <= list[i].at
                     /\ list[i].at + list[i].size <= end
                     /\ i = n => list[i].at + list[i].size = end
                     /\ i < n => list[i].at + list[i].size = list[i + 1].at
  /\ n = 0 => end = first
  /\ n > 0 => list[1].at = first

\* What follows one another lies in order, and ends where the last one does.
LEMMA FollowFacts ==
  ASSUME NEW list, NEW first \in Nat \ {0}, NEW end \in Nat, Follow(list, first, end),
         list \in Seq(Section) \/ list \in Seq(JsetEntry)
  PROVE  Laid(list, first, end)
<1> DEFINE n == Len(list)
<1>0. n \in Nat /\ \A i \in 1..n : list[i].at \in Nat /\ list[i].size \in Nat \ {0}
  <2>1. CASE list \in Seq(Section)
    <3>1. \A i \in 1..n : list[i] \in Section
      BY <2>1, ElementOfSeq
    <3> QED
      BY <2>1, <3>1, LenProperties DEF Section
  <2>2. CASE list \in Seq(JsetEntry)
    <3>1. \A i \in 1..n : list[i] \in JsetEntry
      BY <2>2, ElementOfSeq
    <3> QED
      BY <2>2, <3>1, LenProperties DEF JsetEntry
  <2> QED
    BY <2>1, <2>2
<1>00. n = 0 <=> list = <<>>
  BY EmptySeq
<1> HIDE DEF n
<1> DEFINE start == [i \in 1..n |-> list[i].at]
           stop == [i \in 1..n |-> list[i].at + list[i].size]
<1>1. start \in [1..n -> Nat] /\ stop \in [1..n -> Nat]
  BY <1>0
<1>2. \A i \in 1..n : start[i] < stop[i]
  BY <1>0
<1>3. \A i \in 1..n : list[i].at = IF i = 1 THEN first ELSE list[i - 1].at + list[i - 1].size
  BY DEF Follow, n
<1>4. ASSUME NEW i \in 1..n, i > 1
      PROVE  i - 1 \in 1..n /\ list[i].at = list[i - 1].at + list[i - 1].size
  BY <1>0, <1>3, <1>4
<1>5. \A i \in 1..n : i > 1 => stop[i - 1] <= start[i]
  BY <1>0, <1>4
<1>6. \A i, j \in 1..n : i < j => stop[i] <= start[j]
  <2> HIDE DEF start, stop
  <2> QED
    BY <1>0, <1>1, <1>2, <1>5, Apart
<1>7. \A i, j \in 1..n : i < j => list[i].at + list[i].size <= list[j].at
  BY <1>6
<1>8. n > 0 => 1 \in 1..n /\ n \in 1..n /\ list[1].at = first
  BY <1>0, <1>3
<1>9. n = 0 => end = first
  BY <1>00 DEF Follow
<1>10. n > 0 => list[n].at + list[n].size = end
  BY <1>0, <1>00 DEF Follow, n
<1>11. ASSUME NEW i \in 1..n
       PROVE  /\ first <= list[i].at
              /\ list[i].at + list[i].size <= end
              /\ i = n => list[i].at + list[i].size = end
              /\ i < n => list[i].at + list[i].size = list[i + 1].at
  <2>1. i = 1 \/ list[1].at + list[1].size <= list[i].at
    BY <1>0, <1>7, <1>8
  <2>2. i = n \/ list[i].at + list[i].size <= list[n].at
    BY <1>0, <1>7, <1>8
  <2>3. i < n => i + 1 \in 1..n /\ i + 1 > 1 /\ (i + 1) - 1 = i
    BY <1>0
  <2>4. i < n => list[i].at + list[i].size = list[i + 1].at
    BY <1>4, <2>3
  <2>5. /\ list[i].at \in Nat /\ list[i].size \in Nat
        /\ list[1].at \in Nat /\ list[1].size \in Nat
        /\ list[n].at \in Nat /\ list[n].size \in Nat /\ n > 0
    BY <1>0, <1>8
  <2>6. first <= list[i].at
    <3>1. list[1].at = first
      BY <1>8, <2>5
    <3> QED
      BY SMTT(30), <2>1, <2>5, <3>1
  <2>7. list[i].at + list[i].size <= end
    <3>1. list[n].at + list[n].size = end
      BY <1>10, <2>5
    <3> DEFINE at == list[i].at  size == list[i].size
               last == list[n].at  length == list[n].size
    <3>2. /\ at \in Nat /\ size \in Nat /\ last \in Nat /\ length \in Nat
          /\ last + length = end
          /\ at + size = last + length \/ at + size <= last
      BY <2>2, <2>5, <3>1
    <3> HIDE DEF at, size, last, length
    <3>3. at + size <= end
      BY <3>2
    <3> QED
      BY <3>3 DEF at, size
  <2> QED
    BY <1>10, <2>4, <2>5, <2>6, <2>7
<1> QED
  BY <1>0, <1>7, <1>8, <1>9, <1>11 DEF Laid, n

\* Elements lie at places of their own.
LEMMA ElementAt ==
  ASSUME NEW list, NEW first, NEW end, Laid(list, first, end), NEW k \in 1..Len(list)
  PROVE  /\ Element(list, list[k].at) = list[k]
         /\ \A j \in 1..Len(list) : list[j].at < list[k].at <=> j < k
<1> DEFINE n == Len(list)
<1>0. /\ n \in Nat /\ \A i \in 1..n : list[i].at \in Nat /\ list[i].size \in Nat \ {0}
      /\ \A i, j \in 1..n : i < j => list[i].at + list[i].size <= list[j].at
  BY DEF Laid
<1> HIDE DEF n
<1>1. ASSUME NEW j \in 1..n
      PROVE  (list[j].at < list[k].at <=> j < k) /\ (list[j].at = list[k].at => j = k)
  <2>1. k \in 1..n /\ (j < k \/ j = k \/ k < j)
    BY <1>0 DEF n
  <2>2. j < k => list[j].at + list[j].size <= list[k].at
    BY <1>0, <2>1
  <2>3. k < j => list[k].at + list[k].size <= list[j].at
    BY <1>0, <2>1
  <2>4. /\ list[j].at \in Nat /\ list[j].size \in Nat \ {0}
        /\ list[k].at \in Nat /\ list[k].size \in Nat \ {0}
    BY <1>0, <2>1
  <2>5. /\ j < k => list[j].at < list[k].at
        /\ k < j => list[k].at < list[j].at
    <3> DEFINE a == list[j].at  c == list[k].at  d == list[j].size  e == list[k].size
    <3>1. /\ a \in Nat /\ c \in Nat /\ d \in Nat \ {0} /\ e \in Nat \ {0}
          /\ j < k => a + d <= c
          /\ k < j => c + e <= a
      BY <2>2, <2>3, <2>4
    <3> HIDE DEF a, c, d, e
    <3>2. (j < k => a < c) /\ (k < j => c < a)
      BY <3>1
    <3> QED
      BY <3>2 DEF a, c
  <2>6. j = k => list[j].at = list[k].at
    OBVIOUS
  <2> QED
    BY <2>1, <2>4, <2>5, <2>6
<1>2. \A j \in 1..Len(list) : list[j].at = list[k].at => j = k
  BY <1>1 DEF n
<1>3. (CHOOSE i \in 1..Len(list) : list[i].at = list[k].at) = k
  BY <1>2
<1> QED
  BY <1>1, <1>3 DEF Element, n

\* benz_bch_next_sibling returns the next element, when it begins in front of
\* the end it is given, which may be short of the real one.
LEMMA SiblingFacts ==
  ASSUME NEW list, NEW first, NEW end, Laid(list, first, end),
         NEW bound \in Int, bound <= end, place \in {NULL} \cup Places(list)
  PROVE  LET next == Sibling(list, first, bound) IN
         \/ /\ next = NULL
            /\ \A j \in 1..Len(list) : list[j].at < bound => list[j].at <= place
         \/ \E k \in 1..Len(list) :
              /\ next = list[k].at /\ next < bound /\ next # NULL
              /\ Element(list, next) = list[k]
              /\ \A j \in 1..Len(list) : list[j].at <= place <=> j < k
<1> DEFINE n == Len(list)
           next == Sibling(list, first, bound)
<1>1. /\ n \in Nat /\ first \in Nat \ {0} /\ end \in Nat
      /\ \A i \in 1..n : /\ list[i].at \in Nat /\ list[i].size \in Nat \ {0}
                         /\ first <= list[i].at
      /\ n = 0 => end = first
      /\ n > 0 => list[1].at = first
  BY DEF Laid
<1>2. CASE place = NULL
  <2>1. next = IF first >= bound THEN NULL ELSE first
    BY <1>2 DEF Sibling
  <2>2. CASE first >= bound
    <3>1. \A j \in 1..n : ~(list[j].at < bound)
      BY <1>1, <2>2
    <3> QED
      BY <2>1, <2>2, <3>1
  <2>3. CASE ~(first >= bound)
    <3>1. n > 0 /\ 1 \in 1..n /\ first = list[1].at
      BY <1>1, <2>3
    <3>2. Element(list, first) = list[1]
      BY <3>1, ElementAt
    <3>3. \A j \in 1..n : ~(list[j].at <= place) /\ ~(j < 1)
      BY <1>1, <1>2 DEF NULL
    <3>4. first # NULL /\ first < bound /\ next = first
      BY <1>1, <2>1, <2>3 DEF NULL
    <3> QED
      BY <3>1, <3>2, <3>3, <3>4
  <2> QED
    BY <2>2, <2>3
<1>3. CASE place # NULL
  <2>1. PICK k \in 1..n : place = list[k].at
    BY <1>3 DEF Places
  <2>2. Element(list, place) = list[k]
    BY <2>1, ElementAt
  <2> DEFINE c == place + list[k].size
  <2>3. next = IF c >= bound THEN NULL ELSE c
    BY <1>3, <2>2 DEF Sibling
  <2>4. place \in Nat /\ list[k].size \in Nat \ {0} /\ c \in Nat \ {0}
    BY <1>1, <2>1
  <2>5. \A j \in 1..n : list[j].at <= place <=> j <= k
    BY <1>1, <2>1, ElementAt
  <2>6. \A j \in 1..n : k < j => c <= list[j].at
    BY <2>1 DEF Laid
  <2>7. /\ k = n => c = end
        /\ k < n => c = list[k + 1].at
    BY <2>1 DEF Laid
  <2>8. CASE c >= bound
    <3> HIDE DEF c
    <3>1. ASSUME NEW j \in 1..n, list[j].at < bound PROVE j <= k
      <4>1. list[j].at \in Nat /\ bound \in Int /\ n \in Nat
        BY <1>1
      <4>2. ~(c <= list[j].at)
        BY <2>4, <2>8, <3>1, <4>1
      <4>3. ~(k < j)
        BY <2>6, <4>2
      <4> QED
        BY <2>1, <4>1, <4>3
    <3> QED
      BY <2>3, <2>5, <2>8, <3>1
  <2>9. CASE ~(c >= bound)
    <3> HIDE DEF c
    <3>1. k + 1 \in 1..n /\ c = list[k + 1].at
      BY <1>1, <2>1, <2>4, <2>7, <2>9
    <3>2. Element(list, c) = list[k + 1]
      BY <3>1, ElementAt
    <3>3. \A j \in 1..n : list[j].at <= place <=> j < k + 1
      BY <1>1, <2>5
    <3>4. c # NULL /\ c < bound /\ next = c
      BY <2>3, <2>4, <2>9 DEF NULL
    <3> QED
      BY <3>1, <3>2, <3>3, <3>4
  <2> QED
    BY <2>8, <2>9
<1> QED
  BY <1>2, <1>3

\* Division of natural numbers.
LEMMA DivMod ==
  ASSUME NEW a \in Nat, NEW b \in Nat \ {0}
  PROVE  /\ a \div b \in Nat /\ a % b \in 0..(b - 1) /\ a = b * (a \div b) + (a % b)
OBVIOUS

\* Quotient and remainder are the only ones.
LEMMA Quotient ==
  ASSUME NEW b \in Nat \ {0}, NEW q \in Nat, NEW r \in 0..(b - 1)
  PROVE  (b * q + r) \div b = q /\ (b * q + r) % b = r
<1> DEFINE a == b * q + r
           p == a \div b
           s == a % b
<1>1. a \in Nat
  OBVIOUS
<1>2. p \in Nat /\ s \in 0..(b - 1) /\ a = b * p + s
  BY <1>1, DivMod
<1> HIDE DEF p, s
<1>3. b * (p - q) = r - s
  BY <1>2
<1>4. p - q \in Int /\ (p - q >= 1 => b * (p - q) >= b) /\ (p - q <= -1 => b * (p - q) <= -b)
  BY <1>2
<1>5. p = q
  BY <1>2, <1>3, <1>4
<1> QED
  BY <1>2, <1>5 DEF p, s

\* The first border of a block at or behind a place.
LEMMA RoundFacts ==
  ASSUME NEW e \in Nat
  PROVE  /\ e % Block \in 0..(Block - 1)
         /\ RoundUp(e) \in Nat /\ e <= RoundUp(e)
         /\ e % Block = 0 => RoundUp(e) = e
         /\ e % Block # 0 => RoundUp(e) = e + Block - (e % Block)
<1> DEFINE q == e \div Block
           m == e % Block
<1>1. Block \in Nat \ {0} /\ q \in Nat /\ m \in 0..(Block - 1) /\ e = Block * q + m
  BY BlockAssumption, DivMod
<1> HIDE DEF q, m
<1>2. CASE m = 0
  <2>1. e + Block - 1 = Block * q + (Block - 1)
    BY <1>1, <1>2
  <2>2. RoundUp(e) = q * Block
    BY <1>1, <2>1, Quotient DEF RoundUp
  <2> QED
    BY <1>1, <1>2, <2>2 DEF m
<1>3. CASE m # 0
  <2>1. e + Block - 1 = Block * (q + 1) + (m - 1) /\ m - 1 \in 0..(Block - 1) /\ q + 1 \in Nat
    BY <1>1, <1>3
  <2>2. (e + Block - 1) \div Block = q + 1
    BY <1>1, <2>1, Quotient
  <2>3. RoundUp(e) = (q + 1) * Block
    BY <2>2 DEF RoundUp
  <2> QED
    BY <1>1, <1>3, <2>3 DEF m
<1> QED
  BY <1>2, <1>3

-----------------------------------------------------------------------------
(* What an image is *)

\* Sections and entries are laid out one behind the other.
LEMMA ImageFacts ==
  ASSUME NEW i, IsImage(i)
  PROVE  /\ Laid(i.sections, SbHeader, SbHeader + i.u64s)
         /\ Laid(i.entries, CleanHeader, i.clean)
         /\ i.u64s \in Nat /\ i.clean \in Nat
         /\ \A e \in 1..Len(i.entries) : i.entries[e].value \in {"none", "used", "unused"}
<1>1. i.u64s \in Nat /\ i.clean \in Nat
  BY DEF IsImage
<1>2. SbHeader \in Nat \ {0} /\ SbHeader + i.u64s \in Nat /\ CleanHeader \in Nat \ {0}
  BY <1>1 DEF SbHeader, CleanHeader
<1>3. /\ i.sections \in Seq(Section) /\ Follow(i.sections, SbHeader, SbHeader + i.u64s)
      /\ i.entries \in Seq(JsetEntry) /\ Follow(i.entries, CleanHeader, i.clean)
  BY DEF IsImage
<1>4. /\ Laid(i.sections, SbHeader, SbHeader + i.u64s)
      /\ Laid(i.entries, CleanHeader, i.clean)
  BY <1>1, <1>2, <1>3, FollowFacts
<1>5. \A e \in 1..Len(i.entries) : i.entries[e].value \in {"none", "used", "unused"}
  <2>1. \A e \in 1..Len(i.entries) : i.entries[e] \in JsetEntry
    BY <1>3, ElementOfSeq
  <2> QED
    BY <2>1 DEF JsetEntry
<1> QED
  BY <1>1, <1>4, <1>5

\* Where the code looks for the next bset of a node, and where it is.
BsetsApart(node) ==
  LET n == Len(node.bsets) b == node.bsets IN
  /\ n \in Nat \ {0} /\ b[1].at = NodeHeader /\ node.written \in Nat
  /\ \A i \in 1..n : /\ b[i].at \in Nat /\ b[i].u64s \in Nat /\ BsetEnd(b[i]) \in Nat
                     /\ NodeHeader <= b[i].at /\ b[i].at < node.written
                     /\ b[i].at < Ahead(b[i]) + Csum /\ Ahead(b[i]) \in Nat
                     /\ Element(b, b[i].at) = b[i]
                     /\ i < n /\ BsetEnd(b[i]) % Block # 0 => Ahead(b[i]) + Csum = b[i + 1].at
                     /\ i = n => Ahead(b[i]) + Csum >= node.written
  /\ \A i, j \in 1..n : b[i].at < b[j].at <=> i < j

\* The bsets of a node do not overlap; behind one that fills its last block the
\* code looks a block too far.
LEMMA NodeFacts ==
  ASSUME NEW node, IsNode(node)
  PROVE  BsetsApart(node)
<1> DEFINE n == Len(node.bsets)
           b == node.bsets
           start == [i \in 1..n |-> b[i].at]
           stop == [i \in 1..n |-> BsetEnd(b[i])]
<1>1. /\ b \in Seq(Bset) /\ n > 0 /\ b[1].at = NodeHeader
      /\ \A i \in 2..n : b[i].at = RoundUp(BsetEnd(b[i - 1])) + Csum
      /\ node.written = RoundUp(BsetEnd(b[n]))
  BY DEF IsNode
<1>2. n \in Nat \ {0} /\ \A i \in 1..n : b[i].at \in Nat /\ b[i].u64s \in Nat
  <2>1. \A i \in 1..n : b[i] \in Bset
    BY <1>1, ElementOfSeq
  <2> QED
    BY <1>1, <2>1, LenProperties DEF Bset
<1> HIDE DEF n, b
<1>3. \A i \in 1..n : BsetEnd(b[i]) \in Nat /\ b[i].at < BsetEnd(b[i])
  BY <1>2 DEF BsetEnd, BsetHeader
<1>4. ASSUME NEW i \in 1..n, i > 1
      PROVE  i - 1 \in 1..n /\ b[i].at = RoundUp(BsetEnd(b[i - 1])) + Csum
  BY <1>1, <1>2, <1>4
<1>5. ASSUME NEW i \in 1..n, i > 1
      PROVE  BsetEnd(b[i - 1]) <= b[i].at
  <2>1. /\ BsetEnd(b[i - 1]) \in Nat /\ RoundUp(BsetEnd(b[i - 1])) \in Nat
        /\ BsetEnd(b[i - 1]) <= RoundUp(BsetEnd(b[i - 1]))
    BY <1>3, <1>4, <1>5, RoundFacts
  <2> QED
    BY <1>4, <1>5, <2>1 DEF Csum
<1>6. \A i, j \in 1..n : i < j => BsetEnd(b[i]) <= b[j].at
  <2>1. start \in [1..n -> Nat] /\ stop \in [1..n -> Nat] /\ n \in Nat
    BY <1>2, <1>3
  <2>2. \A i \in 1..n : start[i] < stop[i]
    BY <1>3
  <2>3. \A i \in 1..n : i > 1 => stop[i - 1] <= start[i]
    BY <1>2, <1>5
  <2>4. \A i, j \in 1..n : i < j => stop[i] <= start[j]
    <3> HIDE DEF start, stop
    <3> QED
      BY <2>1, <2>2, <2>3, Apart
  <2> QED
    BY <2>4
<1>7. \A i, j \in 1..n : b[i].at < b[j].at <=> i < j
  <2>1. SUFFICES ASSUME NEW i \in 1..n, NEW j \in 1..n PROVE b[i].at < b[j].at <=> i < j
    OBVIOUS
  <2>2. (i < j => BsetEnd(b[i]) <= b[j].at) /\ (j < i => BsetEnd(b[j]) <= b[i].at)
    BY <1>6
  <2>3. /\ b[i].at \in Nat /\ BsetEnd(b[i]) \in Nat /\ b[i].at < BsetEnd(b[i])
        /\ b[j].at \in Nat /\ BsetEnd(b[j]) \in Nat /\ b[j].at < BsetEnd(b[j])
    BY <1>2, <1>3
  <2>4. i < j \/ j < i \/ i = j
    BY <1>2
  <2> QED
    BY <1>2, <2>2, <2>3, <2>4
<1>8. ASSUME NEW i \in 1..n PROVE Element(b, b[i].at) = b[i]
  <2>1. \A j \in 1..n : b[j].at = b[i].at => j = i
    <3>1. SUFFICES ASSUME NEW j \in 1..n, b[j].at = b[i].at PROVE j = i
      OBVIOUS
    <3>2. b[i].at \in Nat /\ b[j].at \in Nat
      BY <1>2
    <3>3. ~(i < j) /\ ~(j < i)
      BY <1>7, <3>1, <3>2
    <3> QED
      BY <1>2, <3>3
  <2>2. (CHOOSE j \in 1..n : b[j].at = b[i].at) = i
    BY <2>1
  <2> QED
    BY <2>2 DEF Element, n, b
<1>9. node.written \in Nat /\ n \in 1..n /\ BsetEnd(b[n]) <= node.written
  BY <1>1, <1>2, <1>3, RoundFacts
<1>10. ASSUME NEW i \in 1..n
       PROVE  NodeHeader <= b[i].at /\ b[i].at < node.written
  <2>1. 1 \in 1..n /\ (i = 1 \/ 1 < i) /\ (i = n \/ i < n)
    BY <1>2
  <2>2. i = 1 \/ b[1].at < b[i].at
    BY <1>7, <2>1
  <2>3. i = n \/ b[i].at < b[n].at
    BY <1>7, <1>9, <2>1
  <2> DEFINE first == b[1].at
             at == b[i].at
             last == b[n].at
             end == BsetEnd(b[n])
             written == node.written
  <2>4. /\ first = NodeHeader /\ at \in Nat /\ last \in Nat /\ end \in Nat /\ written \in Nat
        /\ at = first \/ first < at
        /\ at = last \/ at < last
        /\ last < end /\ end <= written
    BY <1>1, <1>2, <1>3, <1>9, <2>2, <2>3
  <2> HIDE DEF first, at, last, end, written
  <2>5. NodeHeader <= at /\ at < written
    BY <2>4 DEF NodeHeader
  <2> QED
    BY <2>5 DEF at, written
<1>11. ASSUME NEW i \in 1..n
       PROVE  /\ Ahead(b[i]) \in Nat /\ b[i].at < Ahead(b[i]) + Csum
              /\ RoundUp(BsetEnd(b[i])) <= Ahead(b[i])
              /\ BsetEnd(b[i]) % Block # 0 => Ahead(b[i]) = RoundUp(BsetEnd(b[i]))
  <2> DEFINE e == BsetEnd(b[i])
             at == b[i].at
             m == e % Block
             up == RoundUp(e)
  <2>1. e \in Nat /\ at \in Nat /\ at < e /\ Block \in Nat \ {0}
    BY <1>2, <1>3, BlockAssumption
  <2>2. /\ m \in 0..(Block - 1) /\ up \in Nat /\ (m = 0 => up = e)
        /\ (m # 0 => up = e + Block - m)
    BY <2>1, RoundFacts
  <2>3. Ahead(b[i]) = e + Block - m
    BY DEF Ahead
  <2> HIDE DEF e, at, m, up
  <2>4. /\ e + Block - m \in Nat /\ at < (e + Block - m) + Csum
        /\ up <= e + Block - m /\ (m # 0 => e + Block - m = up)
    BY <2>1, <2>2 DEF Csum
  <2> QED
    BY <2>3, <2>4 DEF e, at, m, up
<1>12. ASSUME NEW i \in 1..n
       PROVE  /\ i < n /\ BsetEnd(b[i]) % Block # 0 => Ahead(b[i]) + Csum = b[i + 1].at
              /\ i = n => Ahead(b[i]) + Csum >= node.written
  <2>1. ASSUME i < n, BsetEnd(b[i]) % Block # 0 PROVE Ahead(b[i]) + Csum = b[i + 1].at
    <3>1. i + 1 \in 1..n /\ i + 1 > 1 /\ (i + 1) - 1 = i
      BY <1>2, <2>1
    <3>2. b[i + 1].at = RoundUp(BsetEnd(b[i])) + Csum
      BY <1>4, <3>1
    <3> QED
      BY <1>11, <2>1, <3>2
  <2>2. ASSUME i = n PROVE Ahead(b[i]) + Csum >= node.written
    <3>1. RoundUp(BsetEnd(b[i])) = node.written /\ RoundUp(BsetEnd(b[i])) <= Ahead(b[i])
      BY <1>1, <1>11, <2>2
    <3> QED
      BY <1>9, <1>11, <3>1 DEF Csum
  <2> QED
    BY <2>1, <2>2
<1> QED
  BY <1>1, <1>2, <1>3, <1>7, <1>8, <1>9, <1>10, <1>11, <1>12 DEF BsetsApart, n, b

-----------------------------------------------------------------------------
(* Steps *)

\* The bsets of a node are as their indexes are.
LEMMA Ordered ==
  ASSUME NEW node, BsetsApart(node)
  PROVE  \A j, k \in 1..Len(node.bsets) :
           /\ node.bsets[j].at <= node.bsets[k].at <=> j <= k
           /\ node.bsets[j].at = node.bsets[k].at => j = k
<1> DEFINE b == node.bsets
           n == Len(b)
           at(i) == b[i].at
<1>1. /\ n \in Nat
      /\ \A i \in 1..n : at(i) \in Nat
      /\ \A i, j \in 1..n : at(i) < at(j) <=> i < j
  BY DEF BsetsApart
<1>2. ASSUME NEW j \in 1..n, NEW k \in 1..n
      PROVE  /\ at(j) <= at(k) <=> j <= k
             /\ at(j) = at(k) => j = k
  <2>1. at(j) \in Nat /\ at(k) \in Nat /\ (at(k) < at(j) <=> k < j) /\ (at(j) < at(k) <=> j < k)
    BY <1>1
  <2> HIDE DEF at, n
  <2> QED
    BY <1>1, <1>2, <2>1
<1> QED
  BY <1>2

\* The btrees and their order.
LEMMA OrderFacts ==
  /\ Len(Order) = 3
  /\ \A i, j \in 1..Len(Order) : Order[i] = Order[j] => i = j
  /\ \A i \in 1..Len(Order) : Order[i] \in Tree
  /\ \A tree \in Tree : \E i \in 1..Len(Order) : tree = Order[i]
BY DEF Order, Tree

Phase == {"header", "sections", "entries", "node", "bsets", "root"} \cup Final

\* What the type says, and the elements of the image.
LEMMA TypeFacts ==
  ASSUME TypeOK
  PROVE  /\ IsImage(image) /\ phase \in Phase /\ nth \in 1..Len(Order) /\ nth \in 1..3
         /\ Type \in Tree
         /\ root \in [Tree -> {NULL} \cup Places(image.entries)]
         /\ Laid(image.sections, SbHeader, SbHeader + image.u64s)
         /\ Laid(image.entries, CleanHeader, image.clean)
         /\ image.u64s \in Nat /\ image.clean \in Nat
         /\ \A e \in 1..Len(image.entries) :
              image.entries[e].value \in {"none", "used", "unused"}
         /\ \A tree \in Tree : BsetsApart(image.nodes[tree])
<1>1. IsImage(image) /\ \A tree \in Tree : IsNode(image.nodes[tree])
  BY DEF TypeOK, IsImage
<1>2. nth \in 1..Len(Order) /\ nth \in 1..3 /\ Type \in Tree /\ phase \in Phase
  BY OrderFacts DEF TypeOK, Type, Phase
<1>3. /\ Laid(image.sections, SbHeader, SbHeader + image.u64s)
      /\ Laid(image.entries, CleanHeader, image.clean)
      /\ image.u64s \in Nat /\ image.clean \in Nat
      /\ \A e \in 1..Len(image.entries) :
           image.entries[e].value \in {"none", "used", "unused"}
  BY <1>1, ImageFacts
<1>4. \A tree \in Tree : BsetsApart(image.nodes[tree])
  BY <1>1, NodeFacts
<1> QED
  BY <1>1, <1>2, <1>3, <1>4 DEF TypeOK

\* A step to another phase begins a walk at its first element.
LEMMA GotoFacts ==
  ASSUME OpenInv, NEW next \in Phase, Goto(next), image' = image, nth' \in 1..Len(Order),
         root' \in [Tree -> {NULL} \cup Places(image.entries)],
         collected' = collected
  PROVE  TypeOK' /\ Walked'
<1>1. phase' = next /\ place' = NULL /\ next \in Phase /\ TypeOK
  BY DEF Goto, OpenInv
<1>2. TypeOK'
  BY <1>1 DEF TypeOK, Phase
<1>3. /\ \A s \in 1..Len(image.sections) : ~(image.sections[s].at <= place')
      /\ \A e \in 1..Len(image.entries) : image.entries[e].at > place'
  <2>1. /\ \A s \in 1..Len(image.sections) :
             image.sections[s].at \in Nat /\ SbHeader <= image.sections[s].at
        /\ \A e \in 1..Len(image.entries) :
             image.entries[e].at \in Nat /\ CleanHeader <= image.entries[e].at
    BY <1>1, TypeFacts DEF Laid
  <2> QED
    BY <1>1, <2>1 DEF NULL, SbHeader, CleanHeader
<1>4. Walked'
  BY <1>3 DEF Walked, RootEntries
<1> QED
  BY <1>2, <1>4

\* An open that ends early leaves what it has found.
LEMMA Stops ==
  ASSUME OpenInv, NEW next \in {"failed", "died", "astray"}, Goto(next),
         UNCHANGED <<image, nth, root, collected>>,
         next = "astray" => image.medium = "whole",
         OutcomeFits'
  PROVE  OpenInv'
<1>1. /\ TypeOK /\ RootsOwn /\ Passed /\ Collected /\ Merged
      /\ image' = image /\ nth' = nth /\ root' = root /\ collected' = collected
      /\ phase' = next
  BY DEF OpenInv, Goto
<1>2. TypeOK' /\ Walked'
  BY <1>1, TypeFacts, GotoFacts DEF Phase, Final
<1>3. RootsOwn'
  BY <1>1 DEF RootsOwn, RootEntries
<1>4. \A i \in 1..Len(Order) :
        /\ Finished(i)' => Finished(i)
        /\ HasRoot(i)' => HasRoot(i)
        /\ HasNode(i)' => HasNode(i)
        /\ ~(phase' \in {"header", "sections", "entries", "node", "bsets"})
  BY <1>1 DEF Finished, HasRoot, HasNode
<1>5. Passed'
  BY <1>1, <1>4 DEF Passed
<1>6. Collected'
  BY <1>1, <1>4 DEF Collected
<1>7. Merged'
  BY <1>1, <1>4 DEF Merged, OfOneFormat
<1> QED
  BY <1>2, <1>3, <1>5, <1>6, <1>7 DEF OpenInv

\* The file is not there, too short, or cut: nothing can be opened.
LEMMA OpenFailsKeeps == OpenInv /\ OpenFails => OpenInv'
<1> SUFFICES ASSUME OpenInv, OpenFails PROVE OpenInv'
  OBVIOUS
<1>1. /\ Goto("failed") /\ UNCHANGED <<image, nth, root, collected>>
      /\ phase' = "failed" /\ image.medium # "whole"
  BY DEF OpenFails, Goto
<1>2. OutcomeFits'
  BY <1>1 DEF OutcomeFits, Openable
<1> QED
  BY <1>1, <1>2, Stops

\* A file without the magic number cannot be opened.
LEMMA OpenForeignKeeps == OpenInv /\ OpenForeign => OpenInv'
<1> SUFFICES ASSUME OpenInv, OpenForeign PROVE OpenInv'
  OBVIOUS
<1>1. /\ Goto("died") /\ UNCHANGED <<image, nth, root, collected>>
      /\ phase' = "died" /\ image.medium = "foreign"
  BY DEF OpenForeign, Goto
<1>2. OutcomeFits'
  BY <1>1 DEF OutcomeFits, Lethal
<1> QED
  BY <1>1, <1>2, Stops

\* The clean section was looked for among all sections in reach.
LEMMA NoCleanKeeps == OpenInv /\ NoClean => OpenInv'
<1> SUFFICES ASSUME OpenInv, NoClean PROVE OpenInv'
  OBVIOUS
<1>1. /\ Goto("died") /\ UNCHANGED <<image, nth, root, collected>>
      /\ phase' = "died" /\ phase = "sections" /\ NextField = NULL /\ TypeOK /\ Walked
  BY DEF NoClean, Goto, OpenInv
<1>2. place \in {NULL} \cup Places(image.sections)
  BY <1>1 DEF TypeOK
<1>3. /\ Laid(image.sections, SbHeader, SbHeader + image.u64s)
      /\ image.u64s \in Int /\ image.u64s <= SbHeader + image.u64s
  BY <1>1, TypeFacts DEF SbHeader
<1>4. \A j \in 1..Len(image.sections) :
        image.sections[j].at < image.u64s => image.sections[j].at <= place
  BY <1>1, <1>2, <1>3, SiblingFacts DEF NextField
<1>5. ASSUME NEW s \in Clean(image) PROVE image.sections[s].at >= image.u64s
  <2>1. s \in 1..Len(image.sections) /\ image.sections[s].type = "clean"
    BY DEF Clean
  <2>2. ~(image.sections[s].at < image.u64s)
    BY <1>1, <1>4, <2>1 DEF Walked
  <2>3. image.sections[s].at \in Nat
    BY <1>3, <2>1 DEF Laid
  <2> QED
    BY <1>3, <2>2, <2>3
<1>6. OutcomeFits'
  BY <1>1, <1>5 DEF OutcomeFits, Lethal, OutOfReach
<1> QED
  BY <1>1, <1>6, Stops

\* So was the root entry among all entries of the clean section.
LEMMA NoRootKeeps == OpenInv /\ NoRoot => OpenInv'
<1> SUFFICES ASSUME OpenInv, NoRoot PROVE OpenInv'
  OBVIOUS
<1>1. /\ Goto("died") /\ UNCHANGED <<image, nth, root, collected>>
      /\ phase' = "died" /\ phase = "entries" /\ NextEntry = NULL /\ TypeOK /\ Walked
  BY DEF NoRoot, Goto, OpenInv
<1>2. place \in {NULL} \cup Places(image.entries)
  BY <1>1 DEF TypeOK
<1>3. Laid(image.entries, CleanHeader, image.clean) /\ image.clean \in Nat /\ Type \in Tree
  BY <1>1, TypeFacts
<1>4. \A j \in 1..Len(image.entries) :
        image.entries[j].at < image.clean => image.entries[j].at <= place
  BY <1>1, <1>2, <1>3, SiblingFacts DEF NextEntry
<1>5. \A j \in 1..Len(image.entries) : image.entries[j].at < image.clean
  <2> TAKE j \in 1..Len(image.entries)
  <2>1. /\ image.entries[j].at \in Nat /\ image.entries[j].size \in Nat \ {0}
        /\ image.entries[j].at + image.entries[j].size <= image.clean
    BY <1>3 DEF Laid
  <2> QED
    BY <1>3, <2>1
<1>6. \A j \in 1..Len(image.entries) : image.entries[j].at \in Nat /\ place \in Nat
  BY <1>2, <1>3 DEF Laid, Places, NULL
<1>7. RootEntries(image, Type) = {}
  BY <1>1, <1>4, <1>5, <1>6 DEF Walked, RootEntries
<1>8. OutcomeFits'
  BY <1>1, <1>3, <1>7 DEF OutcomeFits, Lethal
<1> QED
  BY <1>1, <1>8, Stops

\* While a node is read, the journal entry is the first root of its btree.
LEMMA FoundEntry ==
  ASSUME OpenInv, NEW i \in 1..Len(Order), HasRoot(i)
  PROVE  \E e \in RootEntries(image, Order[i]) :
           /\ Element(image.entries, root[Order[i]]) = image.entries[e]
           /\ \A f \in RootEntries(image, Order[i]) : e <= f
<1>1. root[Order[i]] # NULL /\ Order[i] \in Tree /\ RootsOwn /\ TypeOK
  BY OrderFacts DEF OpenInv, Passed
<1>2. PICK e \in RootEntries(image, Order[i]) :
        /\ root[Order[i]] = image.entries[e].at
        /\ \A f \in RootEntries(image, Order[i]) : e <= f
  BY <1>1 DEF RootsOwn
<1>3. e \in 1..Len(image.entries)
  BY DEF RootEntries
<1>4. Element(image.entries, image.entries[e].at) = image.entries[e]
  BY <1>1, <1>3, TypeFacts, ElementAt
<1> QED
  BY <1>2, <1>4

\* A root that has no pointer or cannot be read is the one an open depends on.
LEMMA NoNodeKeeps == OpenInv /\ NoNode => OpenInv'
<1> SUFFICES ASSUME OpenInv, NoNode PROVE OpenInv'
  OBVIOUS
<1>1. /\ Goto("failed") /\ UNCHANGED <<image, nth, root, collected>>
      /\ phase' = "failed" /\ phase = "node" /\ TypeOK
      /\ Value = "none" \/ ~Node.readable
  BY DEF NoNode, Goto, OpenInv
<1>2. nth \in 1..Len(Order) /\ HasRoot(nth) /\ Type \in Tree
  BY <1>1, TypeFacts DEF HasRoot
<1>3. PICK e \in RootEntries(image, Type) :
        /\ Value = image.entries[e].value
        /\ \A f \in RootEntries(image, Type) : e <= f
  BY <1>2, FoundEntry DEF Type, Value
<1>4. \A f \in RootEntries(image, Type) :
        (\A g \in RootEntries(image, Type) : f <= g) => f = e
  <2>1. \A f \in RootEntries(image, Type) : f \in Int
    BY DEF RootEntries
  <2> QED
    BY <1>3, <2>1
<1>5. ~Openable(image)
  BY <1>1, <1>2, <1>3, <1>4 DEF Openable, Node
<1>6. OutcomeFits'
  BY <1>1, <1>5 DEF OutcomeFits
<1> QED
  BY <1>1, <1>6, Stops

\* An unused pointer leads astray.
LEMMA StrayPointerKeeps == OpenInv /\ StrayPointer => OpenInv'
<1> SUFFICES ASSUME OpenInv, StrayPointer PROVE OpenInv'
  OBVIOUS
<1>1. /\ Goto("astray") /\ UNCHANGED <<image, nth, root, collected>>
      /\ phase' = "astray" /\ phase = "node" /\ TypeOK /\ Passed /\ Value = "unused"
  BY DEF StrayPointer, Goto, OpenInv
<1>2. nth \in 1..Len(Order) /\ HasRoot(nth)
  BY <1>1, TypeFacts DEF HasRoot
<1>3. PICK e \in RootEntries(image, Type) : Value = image.entries[e].value
  BY <1>2, FoundEntry DEF Type, Value
<1>4. HasStrayPointer(image)
  BY <1>1, <1>3 DEF HasStrayPointer, RootEntries
<1>5. image.medium = "whole"
  BY <1>1 DEF Passed
<1>6. OutcomeFits'
  BY <1>1, <1>4 DEF OutcomeFits
<1> QED
  BY <1>1, <1>5, <1>6, Stops

\* The bset that the code looks for next is the next one, or there is none,
\* unless the current one fills its last block.
LEMMA NextBsetFacts ==
  ASSUME OpenInv, phase = "bsets"
  PROVE  /\ BsetsApart(Node) /\ Type \in Tree /\ Node = image.nodes[Order[nth]]
         /\ NextBset \in Nat
         /\ place = NULL => /\ 1 \in 1..Len(Node.bsets)
                           /\ NextBset = Node.bsets[1].at /\ NextBset < Node.written
         /\ place # NULL => \E k \in 1..Len(Node.bsets) :
              /\ place = Node.bsets[k].at /\ place < NextBset
              /\ ~FillsBlock(Node) \/ k = Len(Node.bsets) =>
                   IF k = Len(Node.bsets) THEN NextBset >= Node.written
                   ELSE k + 1 \in 1..Len(Node.bsets) /\ NextBset = Node.bsets[k + 1].at
<1> DEFINE b == Node.bsets
           n == Len(b)
<1>1. TypeOK /\ Type \in Tree /\ BsetsApart(Node) /\ Node = image.nodes[Order[nth]]
  BY TypeFacts DEF OpenInv, Node, Type
<1>2. /\ n \in Nat \ {0} /\ b[1].at = NodeHeader
      /\ \A i \in 1..n : b[i].at < Node.written
  BY <1>1 DEF BsetsApart
<1>3. ASSUME place = NULL
      PROVE  /\ NextBset \in Nat
             /\ 1 \in 1..n /\ NextBset = b[1].at /\ NextBset < Node.written
  BY <1>2, <1>3 DEF NextBset, NodeHeader
<1>4. ASSUME place # NULL
      PROVE  /\ NextBset \in Nat
             /\ \E k \in 1..n :
                  /\ place = b[k].at /\ place < NextBset
                  /\ ~FillsBlock(Node) \/ k = n =>
                       IF k = n THEN NextBset >= Node.written
                       ELSE k + 1 \in 1..n /\ NextBset = b[k + 1].at
  <2>1. PICK k \in 1..n : place = b[k].at
    BY <1>1, <1>4 DEF TypeOK, Places
  <2>2. /\ Element(b, place) = b[k] /\ b[k].at < Ahead(b[k]) + Csum
        /\ k < n /\ BsetEnd(b[k]) % Block # 0 => Ahead(b[k]) + Csum = b[k + 1].at
        /\ k = n => Ahead(b[k]) + Csum >= Node.written
    BY <1>1, <2>1 DEF BsetsApart
  <2>3. NextBset = Ahead(b[k]) + Csum /\ NextBset \in Nat
    <3>1. Ahead(b[k]) \in Nat
      BY <1>1, <2>1 DEF BsetsApart
    <3> QED
      BY <1>4, <2>2, <3>1 DEF NextBset, Csum
  <2>4. k # n => k < n /\ k + 1 \in 1..n /\ k \in 1..(n - 1)
    BY <1>2, <2>1
  <2>5. ~FillsBlock(Node) /\ k # n => BsetEnd(b[k]) % Block # 0
    BY <2>4 DEF FillsBlock
  <2> QED
    BY <2>1, <2>2, <2>3, <2>4, <2>5
<1> QED
  BY <1>1, <1>3, <1>4

\* Keys are taken for a bset only behind a bset that fills its last block.
LEMMA EnterKeysKeeps == OpenInv /\ EnterKeys => OpenInv'
<1> SUFFICES ASSUME OpenInv, EnterKeys PROVE OpenInv'
  OBVIOUS
<1>1. /\ Goto("astray") /\ UNCHANGED <<image, nth, root, collected>>
      /\ phase' = "astray" /\ phase = "bsets" /\ TypeOK /\ Passed
      /\ NextBset < Node.written /\ ~IsBset(NextBset)
  BY DEF EnterKeys, Goto, OpenInv
<1>2. FillsBlock(Node) /\ Type \in Tree
  <2>1. ASSUME ~FillsBlock(Node) PROVE FALSE
    <3>1. place # NULL
      BY <1>1, NextBsetFacts DEF IsBset
    <3>2. PICK k \in 1..Len(Node.bsets) :
                   IF k = Len(Node.bsets) THEN NextBset >= Node.written
                   ELSE k + 1 \in 1..Len(Node.bsets) /\ NextBset = Node.bsets[k + 1].at
      BY <1>1, <2>1, <3>1, NextBsetFacts
    <3>3. NextBset \in Int /\ Node.written \in Int
      BY <1>1, NextBsetFacts DEF BsetsApart
    <3> QED
      BY <1>1, <3>2, <3>3 DEF IsBset
  <2> QED
    BY <1>1, <2>1, TypeFacts
<1>3. OutcomeFits'
  BY <1>1, <1>2 DEF OutcomeFits, Node
<1>4. image.medium = "whole"
  BY <1>1 DEF Passed
<1> QED
  BY <1>1, <1>3, <1>4, Stops

\* A step that comes no further than a root and collects nothing.
LEMMA Onward ==
  ASSUME OpenInv, phase \in {"header", "sections", "entries"},
         phase' \in {"sections", "entries", "node"},
         image' = image, nth' = nth, collected' = collected,
         image.medium = "whole",
         phase' \in {"entries", "node"} => Clean(image) # {} /\ ~OutOfReach(image),
         \A tree \in Tree : tree # Type => root'[tree] = root[tree],
         phase' = "node" => root'[Type] # NULL
  PROVE  Passed' /\ Collected' /\ Merged' /\ OutcomeFits'
<1>1. TypeOK /\ Passed /\ Collected /\ Merged /\ nth \in 1..3 /\ Len(Order) = 3
  BY TypeFacts, OrderFacts DEF OpenInv
<1>2. \A i \in 1..Len(Order) :
        /\ Finished(i)' <=> i < nth
        /\ HasRoot(i)' <=> i < nth \/ (i = nth /\ phase' = "node")
        /\ HasNode(i)' <=> i < nth
        /\ i < nth => /\ Finished(i) /\ HasRoot(i) /\ HasNode(i)
                      /\ root'[Order[i]] = root[Order[i]]
  <2>1. \A i \in 1..Len(Order) : i < nth => Order[i] # Type /\ Order[i] \in Tree
    BY <1>1, OrderFacts DEF Type
  <2> QED
    BY <2>1 DEF Finished, HasRoot, HasNode
<1>3. Passed'
  <2>1. \A i \in 1..Len(Order) : HasRoot(i)' => root'[Order[i]] # NULL
    BY <1>1, <1>2 DEF Passed, Type
  <2>2. \A i \in 1..Len(Order) :
          HasNode(i)' => /\ image.nodes[Order[i]].readable
                         /\ Element(image.entries, root'[Order[i]]).value = "used"
    BY <1>1, <1>2 DEF Passed
  <2> QED
    BY <2>1, <2>2 DEF Passed
<1>4. Collected'
  BY <1>1, <1>2 DEF Collected
<1>5. Merged'
  BY <1>1, <1>2 DEF Merged, OfOneFormat
<1>6. OutcomeFits'
  BY DEF OutcomeFits
<1> QED
  BY <1>3, <1>4, <1>5, <1>6

\* An open begins with the sections.
LEMMA ReadSuperblockKeeps == OpenInv /\ ReadSuperblock => OpenInv'
<1> SUFFICES ASSUME OpenInv, ReadSuperblock PROVE OpenInv'
  OBVIOUS
<1>1. /\ Goto("sections") /\ UNCHANGED <<image, nth, root, collected>>
      /\ phase' = "sections" /\ phase = "header" /\ image.medium = "whole"
      /\ TypeOK /\ RootsOwn
  BY DEF ReadSuperblock, Goto, OpenInv
<1>2. TypeOK' /\ Walked'
  BY <1>1, TypeFacts, GotoFacts DEF Phase
<1>3. RootsOwn'
  BY <1>1 DEF RootsOwn, RootEntries
<1>4. Passed' /\ Collected' /\ Merged' /\ OutcomeFits'
  BY <1>1, Onward
<1> QED
  BY <1>2, <1>3, <1>4 DEF OpenInv

\* A section passed is not the clean one.
LEMMA PassFieldKeeps == OpenInv /\ PassField => OpenInv'
<1> SUFFICES ASSUME OpenInv, PassField PROVE OpenInv'
  OBVIOUS
<1>1. /\ UNCHANGED <<image, phase, nth, root, collected>>
      /\ phase = "sections" /\ place' = NextField /\ NextField # NULL /\ ~FieldIsClean
      /\ TypeOK /\ RootsOwn /\ Walked /\ Passed
  BY DEF PassField, OpenInv
<1>2. place \in {NULL} \cup Places(image.sections)
  BY <1>1 DEF TypeOK
<1>3. /\ Laid(image.sections, SbHeader, SbHeader + image.u64s)
      /\ image.u64s \in Int /\ image.u64s <= SbHeader + image.u64s
  BY <1>1, TypeFacts DEF SbHeader
<1>4. PICK k \in 1..Len(image.sections) :
        /\ NextField = image.sections[k].at
        /\ Element(image.sections, NextField) = image.sections[k]
        /\ \A j \in 1..Len(image.sections) : image.sections[j].at <= place <=> j < k
  BY <1>1, <1>2, <1>3, SiblingFacts DEF NextField
<1>5. \A j \in 1..Len(image.sections) : image.sections[j].at <= place' <=> j <= k
  <2>1. \A j \in 1..Len(image.sections) :
          /\ image.sections[j].at < image.sections[k].at <=> j < k
          /\ image.sections[k].at < image.sections[j].at <=> k < j
    BY <1>3, ElementAt
  <2>2. \A j \in 1..Len(image.sections) : image.sections[j].at \in Nat
    BY <1>3 DEF Laid
  <2> QED
    BY <1>1, <1>4, <2>1, <2>2
<1>6. TypeOK'
  <2>1. NextField \in Places(image.sections)
    BY <1>4 DEF Places
  <2> QED
    BY <1>1, <2>1 DEF TypeOK
<1>7. Walked'
  <2>1. ASSUME NEW j \in 1..Len(image.sections), image.sections[j].at <= place'
        PROVE  image.sections[j].type # "clean"
    <3>1. j < k \/ j = k
      BY <1>5, <2>1
    <3> QED
      BY <1>1, <1>4, <3>1 DEF Walked, FieldIsClean
  <2> QED
    BY <1>1, <2>1 DEF Walked
<1>8. RootsOwn'
  BY <1>1 DEF RootsOwn, RootEntries
<1>9. Passed' /\ Collected' /\ Merged' /\ OutcomeFits'
  BY <1>1, Onward DEF Passed
<1> QED
  BY <1>6, <1>7, <1>8, <1>9 DEF OpenInv

\* The clean section is found where it is in reach.
LEMMA FindCleanKeeps == OpenInv /\ FindClean => OpenInv'
<1> SUFFICES ASSUME OpenInv, FindClean PROVE OpenInv'
  OBVIOUS
<1>1. /\ Goto("entries") /\ UNCHANGED <<image, nth, root, collected>>
      /\ phase' = "entries" /\ phase = "sections" /\ NextField # NULL /\ FieldIsClean
      /\ TypeOK /\ RootsOwn /\ Passed
  BY DEF FindClean, Goto, OpenInv
<1>2. TypeOK' /\ Walked'
  BY <1>1, TypeFacts, GotoFacts DEF Phase
<1>3. RootsOwn'
  BY <1>1 DEF RootsOwn, RootEntries
<1>4. Clean(image) # {} /\ ~OutOfReach(image)
  <2>1. place \in {NULL} \cup Places(image.sections)
    BY <1>1 DEF TypeOK
  <2>2. /\ Laid(image.sections, SbHeader, SbHeader + image.u64s)
        /\ image.u64s \in Int /\ image.u64s <= SbHeader + image.u64s
    BY <1>1, TypeFacts DEF SbHeader
  <2>3. PICK k \in 1..Len(image.sections) :
          /\ NextField = image.sections[k].at /\ NextField < image.u64s
          /\ Element(image.sections, NextField) = image.sections[k]
    BY <1>1, <2>1, <2>2, SiblingFacts DEF NextField
  <2>4. k \in Clean(image)
    BY <1>1, <2>3 DEF Clean, FieldIsClean
  <2>5. \A s \in Clean(image) : s = k
    BY <1>1, <2>4, TypeFacts DEF IsImage, Clean
  <2>6. image.sections[k].at \in Nat /\ image.sections[k].at < image.u64s
    BY <2>2, <2>3 DEF Laid
  <2>7. ~(image.sections[k].at >= image.u64s)
    BY <2>2, <2>6
  <2> QED
    BY <2>4, <2>5, <2>7 DEF OutOfReach
<1>5. Passed' /\ Collected' /\ Merged' /\ OutcomeFits'
  BY <1>1, <1>4, Onward DEF Passed
<1> QED
  BY <1>2, <1>3, <1>5 DEF OpenInv

\* The journal entry that a walk comes to next.
LEMMA NextEntryFacts ==
  ASSUME OpenInv, phase = "entries", NextEntry # NULL
  PROVE  \E k \in 1..Len(image.entries) :
           /\ NextEntry = image.entries[k].at
           /\ Element(image.entries, NextEntry) = image.entries[k]
           /\ \A j \in 1..Len(image.entries) :
                /\ image.entries[j].at <= place <=> j < k
                /\ image.entries[j].at <= NextEntry <=> j <= k
                /\ image.entries[j].at \in Nat /\ place \in Nat
<1>1. TypeOK /\ place \in {NULL} \cup Places(image.entries)
  BY DEF OpenInv, TypeOK
<1>2. Laid(image.entries, CleanHeader, image.clean) /\ image.clean \in Nat
  BY <1>1, TypeFacts
<1>3. PICK k \in 1..Len(image.entries) :
        /\ NextEntry = image.entries[k].at
        /\ Element(image.entries, NextEntry) = image.entries[k]
        /\ \A j \in 1..Len(image.entries) : image.entries[j].at <= place <=> j < k
  BY <1>1, <1>2, SiblingFacts DEF NextEntry
<1>4. \A j \in 1..Len(image.entries) :
        /\ image.entries[j].at < image.entries[k].at <=> j < k
        /\ image.entries[k].at < image.entries[j].at <=> k < j
  BY <1>2, ElementAt
<1>5. \A j \in 1..Len(image.entries) : image.entries[j].at \in Nat
  BY <1>2 DEF Laid
<1>6. place \in Nat
  BY <1>1, <1>5 DEF Places, NULL
<1>7. \A j \in 1..Len(image.entries) : image.entries[j].at <= NextEntry <=> j <= k
  BY <1>3, <1>4, <1>5
<1> QED
  BY <1>3, <1>5, <1>6, <1>7

\* An entry passed is not a root of the btree.
LEMMA PassEntryKeeps == OpenInv /\ PassEntry => OpenInv'
<1> SUFFICES ASSUME OpenInv, PassEntry PROVE OpenInv'
  OBVIOUS
<1>1. /\ UNCHANGED <<image, phase, nth, root, collected>>
      /\ phase = "entries" /\ place' = NextEntry /\ NextEntry # NULL /\ ~EntryIsRoot
      /\ TypeOK /\ RootsOwn /\ Walked /\ Passed
  BY DEF PassEntry, OpenInv
<1>2. PICK k \in 1..Len(image.entries) :
        /\ NextEntry = image.entries[k].at
        /\ Element(image.entries, NextEntry) = image.entries[k]
        /\ \A j \in 1..Len(image.entries) :
             /\ image.entries[j].at <= place <=> j < k
             /\ image.entries[j].at <= NextEntry <=> j <= k
             /\ image.entries[j].at \in Nat /\ place \in Nat
  BY <1>1, NextEntryFacts
<1>3. TypeOK'
  <2>1. NextEntry \in Places(image.entries)
    BY <1>2 DEF Places
  <2> QED
    BY <1>1, <2>1 DEF TypeOK
<1>4. Walked'
  <2>1. ASSUME NEW e \in RootEntries(image, Type) PROVE image.entries[e].at > place'
    <3>1. e \in 1..Len(image.entries) /\ e # k
      BY <1>1, <1>2 DEF RootEntries, EntryIsRoot
    <3>2. ~(image.entries[e].at <= place)
      BY <1>1, <1>2, <3>1 DEF Walked
    <3>3. ~(e <= k)
      BY <1>2, <3>1, <3>2
    <3> QED
      BY <1>1, <1>2, <3>1, <3>3
  <2> QED
    BY <1>1, <2>1 DEF Walked, Type, RootEntries
<1>5. RootsOwn'
  BY <1>1 DEF RootsOwn, RootEntries
<1>6. Passed' /\ Collected' /\ Merged' /\ OutcomeFits'
  BY <1>1, Onward DEF Passed
<1> QED
  BY <1>3, <1>4, <1>5, <1>6 DEF OpenInv

\* The root found is the first of its btree.
LEMMA FindRootKeeps == OpenInv /\ FindRoot => OpenInv'
<1> SUFFICES ASSUME OpenInv, FindRoot PROVE OpenInv'
  OBVIOUS
<1>1. /\ Goto("node") /\ image' = image /\ nth' = nth /\ collected' = collected
      /\ root' = [root EXCEPT ![Type] = NextEntry]
      /\ phase = "entries" /\ phase' = "node" /\ NextEntry # NULL /\ EntryIsRoot
      /\ TypeOK /\ RootsOwn /\ Walked /\ Passed
  BY DEF FindRoot, Goto, OpenInv
<1>2. PICK k \in 1..Len(image.entries) :
        /\ NextEntry = image.entries[k].at
        /\ Element(image.entries, NextEntry) = image.entries[k]
        /\ \A j \in 1..Len(image.entries) :
             /\ image.entries[j].at <= place <=> j < k
             /\ image.entries[j].at <= NextEntry <=> j <= k
             /\ image.entries[j].at \in Nat /\ place \in Nat
  BY <1>1, NextEntryFacts
<1>3. /\ Type \in Tree /\ root \in [Tree -> {NULL} \cup Places(image.entries)]
      /\ nth \in 1..Len(Order)
  BY <1>1, TypeFacts
<1>4. NextEntry \in Places(image.entries)
  BY <1>2 DEF Places
<1>5. /\ root' \in [Tree -> {NULL} \cup Places(image.entries)]
      /\ root'[Type] = NextEntry
      /\ \A tree \in Tree : tree # Type => root'[tree] = root[tree]
  BY <1>1, <1>3, <1>4
<1>6. TypeOK' /\ Walked'
  BY <1>1, <1>3, <1>5, GotoFacts DEF Phase
<1>7. k \in RootEntries(image, Type) /\ \A f \in RootEntries(image, Type) : k <= f
  <2>1. k \in RootEntries(image, Type)
    BY <1>1, <1>2 DEF EntryIsRoot, RootEntries
  <2>2. ASSUME NEW f \in RootEntries(image, Type) PROVE k <= f
    <3>1. f \in 1..Len(image.entries) /\ image.entries[f].at > place
      BY <1>1 DEF RootEntries, Walked
    <3>2. ~(f < k)
      BY <1>2, <3>1
    <3> QED
      BY <3>1, <3>2
  <2> QED
    BY <2>1, <2>2
<1>8. RootsOwn'
  <2>1. ASSUME NEW tree \in Tree, root'[tree] # NULL
        PROVE  \E e \in RootEntries(image, tree) :
                 root'[tree] = image.entries[e].at /\ \A f \in RootEntries(image, tree) : e <= f
    <3>1. CASE tree = Type
      BY <1>2, <1>5, <1>7, <3>1
    <3>2. CASE tree # Type
      BY <1>1, <1>5, <2>1, <3>2 DEF RootsOwn
    <3> QED
      BY <3>1, <3>2
  <2> QED
    BY <1>1, <2>1 DEF RootsOwn, RootEntries
<1>9. Passed' /\ Collected' /\ Merged' /\ OutcomeFits'
  BY <1>1, <1>5, Onward DEF Passed
<1> QED
  BY <1>6, <1>8, <1>9 DEF OpenInv

\* The node that is read belongs to the root found, which points at it.
LEMMA ReadNodeKeeps == OpenInv /\ ReadNode => OpenInv'
<1> SUFFICES ASSUME OpenInv, ReadNode PROVE OpenInv'
  OBVIOUS
<1>1. /\ Goto("bsets") /\ UNCHANGED <<image, nth, root, collected>>
      /\ phase = "node" /\ phase' = "bsets" /\ place' = NULL
      /\ Value = "used" /\ Node.readable
      /\ TypeOK /\ RootsOwn /\ Passed /\ Collected /\ Merged
  BY DEF ReadNode, Goto, OpenInv
<1>2. TypeOK' /\ Walked'
  BY <1>1, TypeFacts, GotoFacts DEF Phase
<1>3. RootsOwn'
  BY <1>1 DEF RootsOwn, RootEntries
<1>4. \A i \in 1..Len(Order) :
        /\ Finished(i)' <=> Finished(i)
        /\ HasRoot(i)' <=> HasRoot(i)
        /\ HasNode(i)' <=> HasNode(i) \/ i = nth
  BY <1>1 DEF Finished, HasRoot, HasNode
<1>5. Passed'
  BY <1>1, <1>4 DEF Passed, Value, Node, Type
<1>6. ASSUME NEW node, BsetsApart(node) PROVE IsAllUpTo(<<>>, node, NULL)
  <2>1. \A j \in 1..Len(node.bsets) : ~(node.bsets[j].at <= NULL)
    BY <1>6 DEF BsetsApart, NodeHeader, NULL
  <2> QED
    BY <2>1 DEF IsAllUpTo
<1>7. Collected'
  <2>1. ASSUME NEW i \in 1..Len(Order), i = nth PROVE IsAllUpTo(<<>>, image.nodes[Order[i]], NULL)
    BY <1>1, <1>6, <2>1, OrderFacts, TypeFacts
  <2> QED
    BY <1>1, <1>4, <2>1 DEF Collected
<1>8. Merged'
  BY <1>1, <1>4 DEF Merged, OfOneFormat
<1>9. OutcomeFits'
  BY <1>1 DEF OutcomeFits
<1> QED
  BY <1>2, <1>3, <1>5, <1>7, <1>8, <1>9 DEF OpenInv

\* What a sequence has when an element is appended.
LEMMA Appended ==
  ASSUME NEW S, NEW s \in Seq(S), NEW e \in S
  PROVE  /\ Append(s, e) \in Seq(S)
         /\ {Append(s, e)[i] : i \in 1..Len(Append(s, e))} = {s[i] : i \in 1..Len(s)} \cup {e}
<1> DEFINE t == Append(s, e)
<1>1. /\ t \in Seq(S) /\ Len(t) = Len(s) + 1 /\ Len(s) \in Nat
      /\ \A i \in 1..Len(s) : t[i] = s[i]
      /\ t[Len(s) + 1] = e
  BY AppendProperties, LenProperties
<1> HIDE DEF t
<1>2. \A i \in 1..Len(t) : i \in 1..Len(s) \/ i = Len(s) + 1
  BY <1>1
<1>3. \A i \in 1..Len(s) : i \in 1..Len(t)
  BY <1>1
<1>4. Len(s) + 1 \in 1..Len(t)
  BY <1>1
<1>5. {t[i] : i \in 1..Len(t)} = {s[i] : i \in 1..Len(s)} \cup {e}
  BY <1>1, <1>2, <1>3, <1>4
<1> QED
  BY <1>1, <1>5 DEF t

\* The next bset is added to those up to the current one if it has keys.
LEMMA VisitBsetKeeps == OpenInv /\ VisitBset => OpenInv'
<1> SUFFICES ASSUME OpenInv, VisitBset PROVE OpenInv'
  OBVIOUS
<1> DEFINE b == Node.bsets
           n == Len(b)
<1>1. /\ UNCHANGED <<image, phase, nth, root>>
      /\ phase = "bsets" /\ phase' = "bsets" /\ place' = NextBset /\ IsBset(NextBset)
      /\ NextBset < Node.written
      /\ collected' = IF Worth(NextBset) THEN [collected EXCEPT ![Type] = Append(@, NextBset)]
                                         ELSE collected
      /\ TypeOK /\ RootsOwn /\ Passed /\ Collected /\ Merged
  BY DEF VisitBset, OpenInv
<1>2. /\ BsetsApart(Node) /\ Type \in Tree /\ Node = image.nodes[Order[nth]]
      /\ nth \in 1..Len(Order) /\ Type = Order[nth]
      /\ NextBset \in Nat /\ Node.written \in Nat
  BY <1>1, NextBsetFacts, TypeFacts DEF Type, BsetsApart
<1>3. PICK k \in 1..n : NextBset = b[k].at
  BY <1>1 DEF IsBset
<1>4. NextBset \in Places(b) /\ (Worth(NextBset) <=> HasKeys(b[k]))
  BY <1>2, <1>3 DEF Places, Worth, HasKeys, BsetsApart
<1>5. \A tree \in Tree : collected[tree] \in Seq(Places(image.nodes[tree].bsets))
  BY <1>1 DEF TypeOK
<1>6. /\ DOMAIN collected' = Tree
      /\ \A tree \in Tree : tree # Type => collected'[tree] = collected[tree]
      /\ collected'[Type] = IF Worth(NextBset) THEN Append(collected[Type], NextBset)
                                               ELSE collected[Type]
  BY <1>1, <1>2 DEF TypeOK
<1>7. \A i \in 1..Len(Order) : i # nth => Order[i] \in Tree /\ Order[i] # Type
  BY <1>2, OrderFacts
<1>8. /\ collected'[Type] \in Seq(Places(b))
      /\ Worth(NextBset) => {collected'[Type][i] : i \in 1..Len(collected'[Type])}
                              = {collected[Type][i] : i \in 1..Len(collected[Type])} \cup {NextBset}
  <2> DEFINE old == collected[Type]
  <2>1. old \in Seq(Places(b)) /\ NextBset \in Places(b)
    BY <1>2, <1>4, <1>5
  <2>2. /\ Append(old, NextBset) \in Seq(Places(b))
        /\ {Append(old, NextBset)[i] : i \in 1..Len(Append(old, NextBset))}
             = {old[i] : i \in 1..Len(old)} \cup {NextBset}
    BY <2>1, Appended
  <2>3. CASE Worth(NextBset)
    BY <1>6, <2>2, <2>3
  <2>4. CASE ~Worth(NextBset)
    BY <1>6, <2>1, <2>4
  <2> QED
    BY <2>3, <2>4
<1>9. TypeOK'
  <2>1. \A tree \in Tree : collected'[tree] \in Seq(Places(image.nodes[tree].bsets))
    BY <1>2, <1>5, <1>6, <1>8
  <2>2. /\ IsImage(image') /\ phase' \in Phase /\ nth' \in 1..Len(Order)
        /\ root' \in [Tree -> {NULL} \cup Places(image'.entries)]
    BY <1>1, TypeFacts
  <2>3. place' \in Places(image'.nodes[Order[nth']].bsets) /\ phase' = "bsets"
    BY <1>1, <1>2, <1>4
  <2> QED
    BY <1>1, <1>6, <2>1, <2>2, <2>3 DEF TypeOK, Phase, Node, Type
<1>10. Walked' /\ RootsOwn' /\ OutcomeFits'
  BY <1>1 DEF Walked, RootsOwn, RootEntries, OutcomeFits
<1>11. \A i \in 1..Len(Order) :
         /\ Finished(i)' <=> Finished(i)
         /\ HasRoot(i)' <=> HasRoot(i)
         /\ HasNode(i)' <=> HasNode(i)
  BY <1>1 DEF Finished, HasRoot, HasNode
<1>12. Passed'
  BY <1>1, <1>11 DEF Passed
<1>13. ASSUME ~Node.summed, ~FillsBlock(Node)
       PROVE  IsAllUpTo(collected'[Type], Node, NextBset)
  <2> DEFINE old == collected[Type]
             new == collected'[Type]
  <2>1. IsAllUpTo(old, Node, place)
    BY <1>1, <1>2, <1>13 DEF Collected
  <2>2. /\ n \in Nat /\ place \in Nat /\ place < NextBset
        /\ \A j \in 1..n : /\ b[j].at \in Nat
                           /\ b[j].at <= NextBset <=> b[j].at <= place \/ j = k
    <3>1. /\ n \in Nat /\ b[1].at = NodeHeader
          /\ \A j \in 1..n : b[j].at \in Nat /\ NodeHeader <= b[j].at
          /\ \A i, j \in 1..n : b[i].at < b[j].at <=> i < j
      BY <1>2 DEF BsetsApart
    <3>2. \A j \in 1..n : /\ b[j].at <= NextBset <=> j <= k
                          /\ b[j].at = NextBset => j = k
      <4>1. \A i, j \in 1..n : /\ b[i].at <= b[j].at <=> i <= j
                               /\ b[i].at = b[j].at => i = j
        <5>1. BsetsApart(Node)
          BY <1>2
        <5> QED
          BY <5>1, Ordered
      <4> HIDE DEF b, n
      <4> QED
        BY <1>3, <4>1, Zenon
    <3>3. CASE place = NULL
      <4>1. 1 \in 1..n /\ NextBset = b[1].at
        BY <1>1, <3>3, NextBsetFacts
      <4>2. k = 1
        BY <3>2, <4>1
      <4>3. \A j \in 1..n : ~(b[j].at <= place)
        BY <3>1, <3>3 DEF NULL, NodeHeader
      <4>4. place \in Nat /\ place < NextBset
        BY <3>1, <3>3, <4>1 DEF NULL, NodeHeader
      <4> QED
        BY <3>1, <3>2, <4>2, <4>3, <4>4
    <3>4. CASE place # NULL
      <4>1. PICK m \in 1..n :
              /\ place = b[m].at /\ place < NextBset
              /\ IF m = n THEN NextBset >= Node.written
                 ELSE m + 1 \in 1..n /\ NextBset = b[m + 1].at
        BY <1>1, <1>13, <3>4, NextBsetFacts
      <4>2. m + 1 \in 1..n /\ NextBset = b[m + 1].at
        BY <1>1, <1>2, <4>1
      <4>3. k = m + 1
        BY <3>2, <4>2
      <4>4. \A j \in 1..n : b[j].at <= place <=> j <= m
        BY <1>2, <4>1, Ordered
      <4>5. \A j \in 1..n : j <= k <=> j <= m \/ j = k
        BY <3>1, <4>3
      <4> QED
        BY <3>1, <3>2, <4>1, <4>4, <4>5
    <3> QED
      BY <3>3, <3>4
  <2>3. CASE ~Worth(NextBset)
    <3>1. {j \in 1..n : HasKeys(b[j]) /\ b[j].at <= NextBset}
            = {j \in 1..n : HasKeys(b[j]) /\ b[j].at <= place}
      <4>1. \A j \in 1..n : HasKeys(b[j]) => j # k
        BY <1>4, <2>3
      <4>2. \A j \in 1..n : HasKeys(b[j]) => (b[j].at <= NextBset <=> b[j].at <= place)
        BY <2>2, <4>1
      <4> QED
        BY <4>2
    <3>2. new = old
      BY <1>6, <2>3
    <3> HIDE DEF old, new
    <3>3. {j \in 1..n : HasKeys(Node.bsets[j]) /\ Node.bsets[j].at <= NextBset}
            = {j \in 1..n : HasKeys(Node.bsets[j]) /\ Node.bsets[j].at <= place}
      BY <3>1
    <3>4. IsAllUpTo(new, Node, NextBset)
      BY <2>1, <3>2, <3>3 DEF IsAllUpTo
    <3> QED
      BY <3>4 DEF new
  <2>4. CASE Worth(NextBset)
    <3>1. {j \in 1..n : HasKeys(b[j]) /\ b[j].at <= NextBset}
            = {j \in 1..n : HasKeys(b[j]) /\ b[j].at <= place} \cup {k}
      BY <1>3, <1>4, <2>2, <2>4
    <3>2. {b[i].at : i \in {j \in 1..n : HasKeys(b[j]) /\ b[j].at <= NextBset}}
            = {b[i].at : i \in {j \in 1..n : HasKeys(b[j]) /\ b[j].at <= place}} \cup {NextBset}
      BY <1>3, <3>1
    <3>3. {new[i] : i \in 1..Len(new)}
            = {b[i].at : i \in {j \in 1..n : HasKeys(b[j]) /\ b[j].at <= NextBset}}
      BY <1>8, <2>1, <2>4, <3>2 DEF IsAllUpTo
    <3>4. \A i \in 1..Len(old) : old[i] \in Nat /\ old[i] <= place
      <4>1. \A i \in 1..Len(old) :
              old[i] \in {b[m].at : m \in {j \in 1..n : HasKeys(b[j]) /\ b[j].at <= place}}
        BY <2>1 DEF IsAllUpTo
      <4> QED
        BY <2>2, <4>1
    <3>5. /\ new = Append(old, NextBset) /\ Len(old) \in Nat /\ Len(new) = Len(old) + 1
          /\ \A i \in 1..Len(old) : new[i] = old[i]
          /\ new[Len(old) + 1] = NextBset
      <4>1. old \in Seq(Places(b))
        BY <1>2, <1>5
      <4> QED
        BY <1>4, <1>6, <2>4, <4>1, AppendProperties, LenProperties
    <3>6. \A i, j \in 1..Len(old) : i < j => old[i] < old[j]
      BY <2>1 DEF IsAllUpTo
    <3> HIDE DEF old, new
    <3>7. ASSUME NEW i \in 1..Len(new), NEW j \in 1..Len(new), i < j PROVE new[i] < new[j]
      <4>1. i \in 1..Len(old) /\ (j \in 1..Len(old) \/ j = Len(old) + 1)
        BY <3>5, <3>7
      <4>2. CASE j \in 1..Len(old)
        BY <3>5, <3>6, <3>7, <4>1, <4>2
      <4>3. CASE j = Len(old) + 1
        <5>1. new[i] = old[i] /\ new[j] = NextBset /\ old[i] \in Nat /\ old[i] <= place
          BY <3>4, <3>5, <4>1, <4>3
        <5> QED
          BY <1>2, <2>2, <5>1
      <4> QED
        BY <4>1, <4>2, <4>3
    <3> QED
      BY <3>3, <3>7 DEF IsAllUpTo, new
  <2> QED
    BY <2>3, <2>4
<1>14. Collected'
  <2>1. ASSUME NEW i \in 1..Len(Order), i # nth PROVE collected'[Order[i]] = collected[Order[i]]
    BY <1>6, <1>7, <2>1
  <2>2. ASSUME NEW i \in 1..Len(Order), i = nth
        PROVE  ~Finished(i) /\ ~(i > nth) /\ Order[i] = Type /\ image.nodes[Order[i]] = Node
    BY <1>1, <1>2, <2>2, OrderFacts DEF Finished
  <2>3. ASSUME NEW i \in 1..Len(Order),
               ~image.nodes[Order[i]].summed, ~FillsBlock(image.nodes[Order[i]])
        PROVE  /\ Finished(i) => IsAllOf(collected'[Order[i]], image.nodes[Order[i]])
               /\ i = nth => IsAllUpTo(collected'[Order[i]], image.nodes[Order[i]], NextBset)
               /\ i > nth => collected'[Order[i]] = <<>>
    <3>1. CASE i = nth
      BY <1>13, <2>2, <2>3, <3>1
    <3>2. CASE i # nth
      BY <1>1, <2>1, <2>3, <3>2 DEF Collected
    <3> QED
      BY <3>1, <3>2
  <2> QED
    BY <1>1, <1>11, <2>3 DEF Collected
<1>15. Merged'
  <2>1. ASSUME NEW i \in 1..Len(Order), Finished(i) PROVE OfOneFormat(i)'
    <3>1. i # nth
      BY <1>1, <1>2, <2>1 DEF Finished
    <3>2. collected'[Order[i]] = collected[Order[i]] /\ OfOneFormat(i)
      BY <1>1, <1>6, <1>7, <2>1, <3>1 DEF Merged
    <3> QED
      BY <1>1, <3>2 DEF OfOneFormat
  <2>2. ASSUME HasKeys(b[1])
        PROVE  NodeHeader \in {collected'[Type][j] : j \in 1..Len(collected'[Type])}
    <3>1. CASE place = NULL
      <4>1. 1 \in 1..n /\ NextBset = b[1].at /\ NextBset = NodeHeader
        BY <1>1, <3>1, NextBsetFacts DEF NextBset
      <4>2. Element(b, NextBset) = b[1]
        BY <1>2, <4>1 DEF BsetsApart
      <4>3. Worth(NextBset)
        BY <2>2, <4>2 DEF Worth
      <4> QED
        BY <1>8, <4>1, <4>3
    <3>2. CASE place # NULL
      <4>1. PICK j \in 1..Len(collected[Type]) : collected[Type][j] = NodeHeader
        BY <1>1, <2>2, <3>2 DEF Merged
      <4>2. CASE Worth(NextBset)
        BY <1>8, <4>1, <4>2
      <4>3. CASE ~Worth(NextBset)
        BY <1>6, <4>1, <4>3
      <4> QED
        BY <4>2, <4>3
    <3> QED
      BY <3>1, <3>2
  <2>3. Node' = Node /\ Type' = Type
    BY <1>1 DEF Node, Type
  <2> QED
    BY <1>1, <1>11, <2>1, <2>2, <2>3 DEF Merged
<1> QED
  BY <1>9, <1>10, <1>12, <1>14, <1>15 DEF OpenInv

\* A walk over the bsets ends behind the first of them at the earliest.
LEMMA EndsBehind ==
  ASSUME OpenInv, phase = "bsets", NoMoreBsets
  PROVE  place # NULL
<1>1. SUFFICES ASSUME place = NULL PROVE FALSE
  OBVIOUS
<1>2. /\ 1 \in 1..Len(Node.bsets) /\ NextBset = Node.bsets[1].at /\ NextBset < Node.written
      /\ NextBset \in Nat /\ Node.written \in Nat
  BY <1>1, NextBsetFacts DEF BsetsApart
<1>3. IsBset(NextBset)
  BY <1>2 DEF IsBset
<1>4. ~(NextBset >= Node.written)
  BY <1>2
<1> QED
  BY <1>1, <1>3, <1>4 DEF NoMoreBsets

\* Where no bset carries a checksum or fills its last block, it has come to all.
LEMMA AllVisited ==
  ASSUME OpenInv, phase = "bsets", NoMoreBsets, ~CutShort(Node)
  PROVE  IsAllOf(collected[Type], Node)
<1> DEFINE b == Node.bsets
           n == Len(b)
<1>1. /\ ~Node.summed /\ ~FillsBlock(Node) /\ Collected
      /\ NextBset >= Node.written \/ ~IsBset(NextBset)
  BY DEF CutShort, OpenInv, NoMoreBsets
<1>2. /\ BsetsApart(Node) /\ Node = image.nodes[Order[nth]]
      /\ nth \in 1..Len(Order) /\ Type = Order[nth]
      /\ NextBset \in Nat /\ Node.written \in Nat
  BY NextBsetFacts, TypeFacts DEF Type, BsetsApart, OpenInv
<1>3. PICK k \in 1..n :
        /\ place = b[k].at
        /\ IF k = n THEN NextBset >= Node.written
           ELSE k + 1 \in 1..n /\ NextBset = b[k + 1].at
  BY <1>1, EndsBehind, NextBsetFacts
<1>4. /\ n \in Nat
      /\ \A j \in 1..n : b[j].at \in Nat /\ b[j].at < Node.written
      /\ \A i, j \in 1..n : b[i].at < b[j].at <=> i < j
  BY <1>2 DEF BsetsApart
<1>5. k = n
  <2>1. SUFFICES ASSUME k # n PROVE FALSE
    OBVIOUS
  <2>2. IsBset(NextBset) /\ NextBset < Node.written
    BY <1>3, <1>4, <2>1 DEF IsBset
  <2> QED
    BY <1>1, <1>2, <2>2
<1>6. \A j \in 1..n : b[j].at <= place
  BY <1>2, <1>3, <1>4, <1>5, Ordered
<1>7. {j \in 1..n : HasKeys(b[j])} = {j \in 1..n : HasKeys(b[j]) /\ b[j].at <= place}
  BY <1>6
<1>8. IsAllUpTo(collected[Type], Node, place)
  BY <1>1, <1>2 DEF Collected
<1> QED
  BY <1>7, <1>8 DEF IsAllUpTo, IsAllOf

\* The formats of bsets of a node are among those of its keys; those of all its
\* bsets with keys are all of them.
LEMMA FormatsFacts ==
  ASSUME NEW node, IsNode(node), NEW places \in Seq(Places(node.bsets))
  PROVE  /\ Formats(node, places) \subseteq AllFormats(node)
         /\ AllFormats(node) \subseteq Format
         /\ IsAllOf(places, node) => Formats(node, places) = AllFormats(node)
         /\ \A k \in 1..Len(node.bsets) :
              HasKeys(node.bsets[k]) /\ (\E j \in 1..Len(places) : places[j] = node.bsets[k].at)
                => Formats(node, places) # {}
<1> DEFINE b == node.bsets
           n == Len(b)
<1>1. /\ \A k \in 1..n : Element(b, b[k].at) = b[k]
      /\ \A k \in 1..n : HasKeys(b[k]) <=> b[k].formats # {}
      /\ \A k \in 1..n : b[k].formats \subseteq Format
  <2>1. \A k \in 1..n : Element(b, b[k].at) = b[k]
    BY NodeFacts DEF BsetsApart
  <2>2. \A k \in 1..n : b[k] \in Bset
    BY ElementOfSeq DEF IsNode
  <2> QED
    BY <2>1, <2>2 DEF IsNode, Bset
<1>2. \A j \in 1..Len(places) : \E k \in 1..n : places[j] = b[k].at
  <2>1. \A j \in 1..Len(places) : places[j] \in Places(b)
    BY ElementOfSeq
  <2> QED
    BY <2>1 DEF Places
<1>3. \A format : format \in Formats(node, places) <=>
        \E j \in 1..Len(places) : format \in Element(b, places[j]).formats
  BY DEF Formats
<1>4. \A format : format \in AllFormats(node) <=> \E k \in 1..n : format \in b[k].formats
  BY DEF AllFormats
<1> HIDE DEF b, n
<1>5. Formats(node, places) \subseteq AllFormats(node)
  BY <1>1, <1>2, <1>3, <1>4
<1>6. AllFormats(node) \subseteq Format
  BY <1>1, <1>4
<1>7. ASSUME IsAllOf(places, node) PROVE AllFormats(node) \subseteq Formats(node, places)
  <2>1. SUFFICES ASSUME NEW k \in 1..n, NEW format \in b[k].formats
                 PROVE  format \in Formats(node, places)
    BY <1>4
  <2>2. b[k].at \in {places[j] : j \in 1..Len(places)}
    BY <1>1, <1>7, <2>1 DEF IsAllOf, b, n
  <2> QED
    BY <1>1, <1>3, <2>1, <2>2
<1>8. ASSUME NEW k \in 1..n, HasKeys(b[k]), NEW j \in 1..Len(places), places[j] = b[k].at
      PROVE  Formats(node, places) # {}
  <2>1. PICK format : format \in b[k].formats
    BY <1>1, <1>8
  <2> QED
    BY <1>1, <1>3, <1>8, <2>1
<1> QED
  BY <1>5, <1>6, <1>7, <1>8 DEF b, n

\* When a node ends all its bsets have been visited.
LEMMA BsetsEndKeeps == OpenInv /\ BsetsEnd => OpenInv'
<1> SUFFICES ASSUME OpenInv, BsetsEnd PROVE OpenInv'
  OBVIOUS
<1> DEFINE b == Node.bsets
           n == Len(b)
<1>1. /\ UNCHANGED <<image, root, collected>>
      /\ phase = "bsets" /\ place' = NULL
      /\ \/ nth < 3 /\ nth' = nth + 1 /\ Goto("sections") /\ phase' = "sections"
         \/ nth = 3 /\ nth' = nth /\ Goto("root") /\ phase' = "root"
      /\ NoMoreBsets /\ MergeReturns
      /\ TypeOK /\ RootsOwn /\ Passed /\ Collected /\ Merged
  BY OrderFacts, TypeFacts DEF BsetsEnd, Goto, OpenInv
<1>2. /\ BsetsApart(Node) /\ Type \in Tree /\ Node = image.nodes[Order[nth]]
      /\ nth \in 1..Len(Order) /\ nth \in 1..3 /\ Len(Order) = 3 /\ Type = Order[nth]
      /\ NextBset \in Nat /\ Node.written \in Nat
  BY <1>1, NextBsetFacts, TypeFacts, OrderFacts DEF Type, BsetsApart
<1>3. TypeOK' /\ Walked'
  <2>1. nth' \in 1..Len(Order)
    BY <1>1, <1>2
  <2> QED
    BY <1>1, <2>1, TypeFacts, GotoFacts DEF Phase
<1>4. RootsOwn' /\ OutcomeFits'
  BY <1>1 DEF RootsOwn, RootEntries, OutcomeFits
<1>5. \A i \in 1..Len(Order) :
        /\ Finished(i)' => Finished(i) \/ i = nth
        /\ HasRoot(i)' => HasRoot(i)
        /\ HasNode(i)' => HasNode(i)
        /\ i > nth' => i > nth
        /\ i = nth' /\ phase' = "sections" => i > nth
  BY <1>1, <1>2 DEF Finished, HasRoot, HasNode
<1>6. Passed'
  BY <1>1, <1>5 DEF Passed
<1>7. ASSUME ~Node.summed, ~FillsBlock(Node)
      PROVE  IsAllOf(collected[Type], Node)
  BY <1>1, <1>7, AllVisited DEF CutShort
<1>8. Collected'
  BY <1>1, <1>2, <1>5, <1>7 DEF Collected
<1>9. Merged'
  <2>1. OfOneFormat(nth)
    BY <1>1, <1>2 DEF MergeReturns, OfOneFormat
  <2> QED
    BY <1>1, <1>2, <1>5, <2>1 DEF Merged, OfOneFormat
<1> QED
  BY <1>3, <1>4, <1>6, <1>8, <1>9 DEF OpenInv

\* A merge ends the process for want of keys or for keys of both formats; the node
\* is to blame, or its first bset has no keys and the others are not seen.
LEMMA MergeDiesKeeps == OpenInv /\ MergeDies => OpenInv'
<1> SUFFICES ASSUME OpenInv, MergeDies PROVE OpenInv'
  OBVIOUS
<1> DEFINE places == collected[Type]
<1>1. /\ Goto("died") /\ UNCHANGED <<image, nth, root, collected>>
      /\ phase' = "died" /\ phase = "bsets" /\ NoMoreBsets /\ ~MergeReturns
      /\ TypeOK /\ Merged
  BY DEF MergeDies, Goto, OpenInv
<1>2. IsNode(Node) /\ places \in Seq(Places(Node.bsets)) /\ Type \in Tree
  BY <1>1, TypeFacts DEF IsImage, TypeOK, Node
<1>3. 1 \in 1..Len(Node.bsets) /\ Node.bsets[1].at = NodeHeader
  BY <1>1, NextBsetFacts DEF BsetsApart
<1>4. \A format \in Format : Formats(Node, places) # {format}
  BY <1>1 DEF MergeReturns
<1> HIDE DEF places
<1>5. /\ Formats(Node, places) \subseteq AllFormats(Node)
      /\ IsAllOf(places, Node) => Formats(Node, places) = AllFormats(Node)
      /\ \A k \in 1..Len(Node.bsets) :
           HasKeys(Node.bsets[k]) /\ (\E j \in 1..Len(places) : places[j] = Node.bsets[k].at)
             => Formats(Node, places) # {}
  BY <1>2, FormatsFacts
<1>6. ASSUME Mergeable(Node) PROVE CutShort(Node) /\ ~HasKeys(Node.bsets[1])
  <2>1. PICK format \in Format : AllFormats(Node) = {format}
    BY <1>6 DEF Mergeable
  <2>2. Formats(Node, places) = {}
    BY <1>4, <1>5, <2>1
  <2>3. CutShort(Node)
    <3>1. ASSUME ~CutShort(Node) PROVE FALSE
      <4>1. IsAllOf(places, Node)
        BY <1>1, <3>1, AllVisited DEF places
      <4> QED
        BY <1>4, <1>5, <2>1, <4>1
    <3> QED
      BY <3>1
  <2>4. ASSUME HasKeys(Node.bsets[1]) PROVE FALSE
    <3>1. \E j \in 1..Len(places) : places[j] = NodeHeader
      BY <1>1, <2>4, EndsBehind DEF Merged, places
    <3> QED
      BY <1>3, <1>5, <2>2, <2>4, <3>1
  <2> QED
    BY <2>3, <2>4
<1>7. Lethal(image)
  BY <1>2, <1>6 DEF Lethal, Node
<1>8. OutcomeFits'
  BY <1>1, <1>7 DEF OutcomeFits
<1> QED
  BY <1>1, <1>8, Stops

\* An open ends with what the search for the root directory comes to.
LEMMA OpenEndsKeeps == OpenInv /\ OpenEnds => OpenInv'
<1> SUFFICES ASSUME OpenInv, OpenEnds PROVE OpenInv'
  OBVIOUS
<1>1. /\ UNCHANGED <<image, nth, root, collected>> /\ phase = "root"
      /\ Goto(Outcome[image.search])
      /\ TypeOK /\ RootsOwn /\ Passed /\ Collected /\ Merged
  BY DEF OpenEnds, OpenInv
<1>2. image.search \in {"seeded", "unseeded", "dies"}
  BY <1>1, TypeFacts DEF IsImage, Outcome
<1>3. CASE image.search = "unseeded"
  <2>1. phase' = "failed" /\ Goto("failed")
    BY <1>1, <1>3 DEF Goto, Outcome
  <2>2. OutcomeFits'
    BY <1>1, <1>3, <2>1 DEF OutcomeFits, Openable
  <2> QED
    BY <1>1, <2>1, <2>2, Stops
<1>4. CASE image.search = "dies"
  <2>1. phase' = "died" /\ Goto("died")
    BY <1>1, <1>4 DEF Goto, Outcome
  <2>2. OutcomeFits'
    BY <1>1, <1>4, <2>1 DEF OutcomeFits, Lethal
  <2> QED
    BY <1>1, <2>1, <2>2, Stops
<1>5. CASE image.search = "seeded"
  <2>1. phase' = "opened" /\ Goto("opened") /\ place' = NULL
    BY <1>1, <1>5 DEF Goto, Outcome
  <2>2. TypeOK' /\ Walked'
    BY <1>1, <2>1, TypeFacts, GotoFacts DEF Phase, Final
  <2>3. RootsOwn'
    BY <1>1 DEF RootsOwn, RootEntries
  <2>4. \A i \in 1..Len(Order) :
          /\ Finished(i)' /\ Finished(i) /\ HasRoot(i) /\ HasNode(i)
    BY <1>1, <2>1 DEF Finished, HasRoot, HasNode
  <2>5. Passed'
    BY <1>1, <1>5, <2>1, <2>4 DEF Passed
  <2>6. Collected' /\ Merged'
    BY <1>1, <2>1, <2>4 DEF Collected, Merged, OfOneFormat
  <2>7. Openable(image) /\ ~OutOfReach(image)
    <3>1. image.medium = "whole" /\ Clean(image) # {} /\ ~OutOfReach(image)
      BY <1>1 DEF Passed
    <3>2. ASSUME NEW tree \in Tree
          PROVE  /\ image.nodes[tree].readable
                 /\ \E e \in RootEntries(image, tree) :
                      /\ image.entries[e].value = "used"
                      /\ \A f \in RootEntries(image, tree) : e <= f
                 /\ AllFormats(image.nodes[tree]) # {}
                 /\ Mergeable(image.nodes[tree]) \/ CutShort(image.nodes[tree])
      <4>1. PICK i \in 1..Len(Order) : tree = Order[i]
        BY OrderFacts
      <4>2. PICK e \in RootEntries(image, Order[i]) :
              /\ Element(image.entries, root[Order[i]]) = image.entries[e]
              /\ \A f \in RootEntries(image, Order[i]) : e <= f
        BY <2>4, FoundEntry
      <4> DEFINE node == image.nodes[tree]
      <4>3. PICK format \in Format : Formats(node, collected[tree]) = {format}
        BY <1>1, <2>4, <4>1 DEF Merged, OfOneFormat
      <4>4. IsNode(node) /\ collected[tree] \in Seq(Places(node.bsets))
        BY <1>1 DEF TypeOK, IsImage
      <4>5. ~CutShort(node) => IsAllOf(collected[tree], node)
        BY <1>1, <2>4, <4>1 DEF Collected, CutShort
      <4>6. /\ image.nodes[Order[i]].readable
            /\ Element(image.entries, root[Order[i]]).value = "used"
        BY <1>1, <2>4 DEF Passed
      <4> HIDE DEF node
      <4>7. AllFormats(node) # {} /\ (Mergeable(node) \/ CutShort(node))
        BY <4>3, <4>4, <4>5, FormatsFacts DEF Mergeable
      <4> QED
        BY <4>1, <4>2, <4>6, <4>7 DEF node
    <3> QED
      BY <1>5, <3>1, <3>2 DEF Openable
  <2>8. OutcomeFits'
    BY <1>1, <2>1, <2>7 DEF OutcomeFits
  <2> QED
    BY <2>2, <2>3, <2>5, <2>6, <2>8 DEF OpenInv
<1> QED
  BY <1>2, <1>3, <1>4, <1>5

-----------------------------------------------------------------------------
(* The theorems *)

\* Nothing has been found when an open begins.
LEMMA InitKeeps == Init => OpenInv
<1> SUFFICES ASSUME Init PROVE OpenInv
  OBVIOUS
<1>1. /\ IsImage(image) /\ phase = "header" /\ nth = 1 /\ place = NULL
      /\ root = [tree \in Tree |-> NULL] /\ collected = [tree \in Tree |-> <<>>]
  BY ImagesAssumption DEF Init
<1>2. \A i \in 1..Len(Order) :
        ~Finished(i) /\ ~HasRoot(i) /\ ~HasNode(i) /\ collected[Order[i]] = <<>>
  BY <1>1, OrderFacts DEF Finished, HasRoot, HasNode
<1>3. TypeOK
  BY <1>1, OrderFacts, EmptySeq DEF TypeOK
<1> QED
  BY <1>1, <1>2, <1>3
  DEF OpenInv, Walked, RootsOwn, Passed, Collected, Merged, OutcomeFits

\* A step of an open keeps what its walks rely on.
LEMMA StepKeeps == OpenInv /\ [Next]_vars => OpenInv'
<1> SUFFICES ASSUME OpenInv, [Next]_vars PROVE OpenInv'
  OBVIOUS
<1>1. CASE UNCHANGED vars
  <2>1. TypeOK' /\ Walked' /\ RootsOwn' /\ Passed' /\ Collected' /\ OutcomeFits'
    BY <1>1
    DEF vars, OpenInv, TypeOK, Walked, RootsOwn, RootEntries, Passed, Collected, OutcomeFits,
        Finished, HasRoot, HasNode, Type, Node
  <2>2. Merged'
    BY <1>1 DEF vars, OpenInv, Merged, OfOneFormat, Finished, Type, Node
  <2> QED
    BY <2>1, <2>2 DEF OpenInv
<1>2. CASE Next
  BY <1>2, OpenFailsKeeps, OpenForeignKeeps, ReadSuperblockKeeps,
     PassFieldKeeps, FindCleanKeeps, NoCleanKeeps,
     PassEntryKeeps, FindRootKeeps, NoRootKeeps,
     ReadNodeKeeps, NoNodeKeeps, StrayPointerKeeps,
     VisitBsetKeeps, EnterKeysKeeps, BsetsEndKeeps, MergeDiesKeeps, OpenEndsKeeps
  DEF Next
<1> QED
  BY <1>1, <1>2

\* Bcachefs_open keeps its invariant for every image, of any number of sections,
\* journal entries and bsets, and for every size of a block.
THEOREM OpenInvariant == Spec => []OpenInv
<1>1. Init => OpenInv
  BY InitKeeps
<1>2. OpenInv /\ [Next]_vars => OpenInv'
  BY StepKeeps
<1> QED
  BY <1>1, <1>2, PTL DEF Spec

\* The walks of Bcachefs_open stand on elements of what they walk.
THEOREM OpenTypeCorrect == Spec => []TypeOK
<1>1. OpenInv => TypeOK
  BY DEF OpenInv
<1> QED
  BY <1>1, OpenInvariant, PTL

\* Bcachefs_open gives a file system only of clean images whose roots can be read
\* and searched, and refuses none of them; it kills the process only of an image
\* whose clean section or a root is missing or lies where the walk does not look,
\* or whose nodes have no keys or keys of both formats; and it takes for a bset
\* what is none only where a bset fills its last block or a root has a pointer
\* that is not in use.
THEOREM OutcomeAlwaysFits == Spec => []OutcomeFits
<1>1. OpenInv => OutcomeFits
  BY DEF OpenInv
<1> QED
  BY <1>1, OpenInvariant, PTL

\* Bcachefs_iter_next_jset_entry gives an iterator the first root of its btree.
THEOREM RootsAlwaysOwn == Spec => []RootsOwn
<1>1. OpenInv => RootsOwn
  BY DEF OpenInv
<1> QED
  BY <1>1, OpenInvariant, PTL

\* benz_bch_next_bset leaves no bset with keys out of a merge where none fills
\* its last block and there are no checksums.
THEOREM AlwaysCollectsAll == Spec => []CollectsAll
<1>1. OpenInv => CollectsAll
  <2>1. ASSUME NEW tree \in Tree, Done(tree)
        PROVE  \E i \in 1..Len(Order) : Order[i] = tree /\ Finished(i)
    BY <2>1 DEF Done, Finished
  <2> QED
    BY <2>1 DEF OpenInv, Collected, CollectsAll
<1> QED
  BY <1>1, OpenInvariant, PTL

-----------------------------------------------------------------------------
(* How long an open may take *)

\* The words of all nodes, and a number of steps that is enough for a btree.
Written ==
  image.nodes[Order[1]].written + image.nodes[Order[2]].written + image.nodes[Order[3]].written
Round == SbHeader + image.u64s + image.clean + Written + 5

\* What is left to do for the current btree, at most: every walk moves on by at
\* least a word.
Left ==
  CASE phase = "header" -> Round + 1
    [] phase = "sections" -> Round - place
    [] phase = "entries" -> image.clean + Written + 4 - place
    [] phase = "node" -> Written + 3
    [] phase = "bsets" -> Node.written + 2 - place
    [] phase = "root" -> 1
    [] OTHER -> 0

ToGo == (Len(Order) - nth) * Round + Left

\* No element lies beyond the end of its list.
LEMMA BeforeEnd ==
  ASSUME NEW list, NEW first, NEW end, Laid(list, first, end)
  PROVE  \A i \in 1..Len(list) : list[i].at \in Nat /\ list[i].at <= end
<1>1. /\ end \in Nat
      /\ \A i \in 1..Len(list) : /\ list[i].at \in Nat /\ list[i].size \in Nat \ {0}
                                 /\ list[i].at + list[i].size <= end
  BY DEF Laid
<1>2. \A a \in Nat : \A size \in Nat \ {0} : a + size <= end => a <= end
  BY <1>1
<1> QED
  BY <1>1, <1>2

\* Sizes are natural numbers, and no walk stands beyond its end.
LEMMA WithinEnds ==
  ASSUME OpenInv
  PROVE  /\ image.u64s \in Nat /\ image.clean \in Nat /\ Written \in Nat
         /\ Node.written \in 0..Written /\ place \in Nat
         /\ phase = "sections" => place <= SbHeader + image.u64s
         /\ phase = "entries" => place <= image.clean
         /\ phase = "bsets" => place <= Node.written
<1>1. TypeOK /\ nth \in 1..3 /\ image.u64s \in Nat /\ image.clean \in Nat
  BY TypeFacts DEF OpenInv
<1>2. \A i \in 1..3 : BsetsApart(image.nodes[Order[i]]) /\ image.nodes[Order[i]].written \in Nat
  <2>1. \A i \in 1..3 : BsetsApart(image.nodes[Order[i]])
    BY <1>1, TypeFacts, OrderFacts
  <2> QED
    BY <2>1 DEF BsetsApart
<1>3. Written \in Nat /\ Node.written \in 0..Written
  <2>1. nth = 1 \/ nth = 2 \/ nth = 3
    BY <1>1
  <2>2. /\ image.nodes[Order[1]].written \in Nat
        /\ image.nodes[Order[2]].written \in Nat
        /\ image.nodes[Order[3]].written \in Nat
    BY <1>2
  <2> QED
    BY <2>1, <2>2 DEF Written, Node, Type
<1>4. ASSUME phase = "sections"
      PROVE  place \in Nat /\ place <= SbHeader + image.u64s
  <2>1. place \in {NULL} \cup Places(image.sections)
    BY <1>1, <1>4 DEF TypeOK
  <2>2. \A i \in 1..Len(image.sections) :
          image.sections[i].at \in Nat /\ image.sections[i].at <= SbHeader + image.u64s
    BY <1>1, TypeFacts, BeforeEnd
  <2> QED
    BY <1>1, <2>1, <2>2 DEF Places, NULL, SbHeader
<1>5. ASSUME phase = "entries"
      PROVE  place \in Nat /\ place <= image.clean
  <2>1. place \in {NULL} \cup Places(image.entries)
    BY <1>1, <1>5 DEF TypeOK
  <2>2. \A i \in 1..Len(image.entries) :
          image.entries[i].at \in Nat /\ image.entries[i].at <= image.clean
    BY <1>1, TypeFacts, BeforeEnd
  <2> QED
    BY <1>1, <2>1, <2>2 DEF Places, NULL
<1>6. ASSUME phase = "bsets"
      PROVE  place \in Nat /\ place <= Node.written
  <2>1. place \in {NULL} \cup Places(Node.bsets)
    BY <1>1, <1>6 DEF TypeOK
  <2>2. /\ Node.written \in Nat
        /\ \A i \in 1..Len(Node.bsets) :
             Node.bsets[i].at \in Nat /\ Node.bsets[i].at <= Node.written
    <3>1. BsetsApart(Node)
      BY <1>1, <1>2 DEF Node, Type
    <3> QED
      BY <3>1 DEF BsetsApart
  <2> QED
    BY <2>1, <2>2 DEF Places, NULL
<1>7. ASSUME phase \notin {"sections", "entries", "bsets"}
      PROVE  place \in Nat
  BY <1>1, <1>7 DEF TypeOK, NULL
<1> QED
  BY <1>1, <1>3, <1>4, <1>5, <1>6, <1>7

\* What is left, phase by phase.
LEMMA LeftValue ==
  /\ phase = "header" => Left = Round + 1
  /\ phase = "sections" => Left = Round - place
  /\ phase = "entries" => Left = image.clean + Written + 4 - place
  /\ phase = "node" => Left = Written + 3
  /\ phase = "bsets" => Left = Node.written + 2 - place
  /\ phase = "root" => Left = 1
  /\ phase \in Final => Left = 0
BY DEF Left, Final

\* A step leaves less to do for the btree, or begins the next one.
LEMMA StepCloser ==
  ASSUME OpenInv, Next
  PROVE  /\ image' = image /\ Left \in Nat
         /\ \/ nth' = nth /\ Left' \in Nat /\ Left' < Left
            \/ nth < Len(Order) /\ nth' = nth + 1 /\ Left' = Round /\ Left > 0
<1>1. /\ image.u64s \in Nat /\ image.clean \in Nat /\ Written \in Nat /\ Round \in Nat
      /\ Node.written \in 0..Written /\ place \in Nat
      /\ phase = "sections" => place <= SbHeader + image.u64s
      /\ phase = "entries" => place <= image.clean
      /\ phase = "bsets" => place <= Node.written
  BY WithinEnds DEF Round, SbHeader
<1>2. image' = image /\ Written' = Written /\ Round' = Round
  BY DEF Next, OpenFails, OpenForeign, ReadSuperblock, PassField, FindClean, NoClean, PassEntry,
     FindRoot, NoRoot, ReadNode, NoNode, StrayPointer, VisitBset, EnterKeys, BsetsEnd, MergeDies,
     OpenEnds, Written, Round
<1>3. Left \in Nat /\ (phase \notin Final => Left > 0)
  <2>1. phase \in Phase
    BY TypeFacts DEF OpenInv
  <2>2. Round >= SbHeader + image.u64s + 5
    BY <1>1 DEF Round, SbHeader
  <2> QED
    BY <1>1, <2>1, <2>2, LeftValue DEF Phase, Final, SbHeader
<1>4. CASE \/ OpenFails \/ OpenForeign \/ NoClean \/ NoRoot
           \/ NoNode \/ StrayPointer \/ EnterKeys \/ MergeDies \/ OpenEnds
  <2>1. phase \notin Final /\ nth' = nth /\ phase' \in Final
    <3>1. ASSUME OpenEnds PROVE Outcome[image.search] \in Final
      BY <3>1 DEF OpenEnds, OpenInv, TypeOK, IsImage, Outcome, Final
    <3> QED
      BY <1>4, <3>1 DEF OpenFails, OpenForeign, NoClean, NoRoot, NoNode, StrayPointer, EnterKeys,
         MergeDies, OpenEnds, Goto, Final
  <2>2. Left' = 0
    BY <2>1 DEF Left, Final
  <2> QED
    BY <1>2, <1>3, <2>1, <2>2
<1>5. CASE ReadSuperblock \/ FindClean \/ FindRoot \/ ReadNode
  <2>1. /\ nth' = nth /\ place' = 0 /\ Node' = Node
        /\ \/ phase = "header" /\ phase' = "sections"
           \/ phase = "sections" /\ phase' = "entries"
           \/ phase = "entries" /\ phase' = "node"
           \/ phase = "node" /\ phase' = "bsets"
    BY <1>5 DEF ReadSuperblock, FindClean, FindRoot, ReadNode, Goto, NULL, Node, Type
  <2>2. Round = SbHeader + image.u64s + image.clean + Written + 5 /\ Node.written' = Node.written
    BY <2>1 DEF Round
  <2>3. /\ phase' = "sections" => Left' = Round
        /\ phase' = "entries" => Left' = image.clean + Written + 4
        /\ phase' = "node" => Left' = Written + 3
        /\ phase' = "bsets" => Left' = Node.written + 2
    BY <1>1, <1>2, <2>1, <2>2 DEF Left
  <2>4. Left' \in Nat /\ Left' < Left
    BY <1>1, <2>1, <2>2, <2>3, LeftValue DEF SbHeader
  <2> QED
    BY <1>2, <1>3, <2>1, <2>4
<1>6. CASE PassField
  <2>1. /\ nth' = nth /\ phase = "sections" /\ phase' = "sections"
        /\ place' = NextField /\ NextField # NULL /\ TypeOK
    BY <1>6 DEF PassField, OpenInv
  <2>2. place \in {NULL} \cup Places(image.sections)
    BY <2>1 DEF TypeOK
  <2>3. /\ Laid(image.sections, SbHeader, SbHeader + image.u64s)
        /\ image.u64s \in Int /\ image.u64s <= SbHeader + image.u64s
    BY <2>1, TypeFacts DEF SbHeader
  <2>4. PICK k \in 1..Len(image.sections) :
          /\ NextField = image.sections[k].at /\ NextField < image.u64s
          /\ \A j \in 1..Len(image.sections) : image.sections[j].at <= place <=> j < k
    BY <2>1, <2>2, <2>3, SiblingFacts DEF NextField
  <2>5. NextField \in Nat /\ ~(NextField <= place)
    <3>1. k \in Nat
      BY <2>3 DEF Laid
    <3> QED
      BY <2>3, <2>4, <3>1 DEF Laid
  <2>6. Left' = Round - NextField
    BY <1>2, <2>1 DEF Left
  <2>7. Left' \in Nat /\ Left' < Left
    <3>1. NextField < Round
      <4>1. NextField < image.u64s
        BY <2>4
      <4> QED
        BY <1>1, <2>5, <4>1 DEF Round, SbHeader
    <3> QED
      BY <1>1, <2>1, <2>5, <2>6, <3>1, LeftValue
  <2> QED
    BY <1>2, <1>3, <2>1, <2>7
<1>7. CASE PassEntry
  <2>1. /\ nth' = nth /\ phase = "entries" /\ phase' = "entries"
        /\ place' = NextEntry /\ NextEntry # NULL /\ TypeOK
    BY <1>7 DEF PassEntry, OpenInv
  <2>2. place \in {NULL} \cup Places(image.entries)
    BY <2>1 DEF TypeOK
  <2>3. /\ Laid(image.entries, CleanHeader, image.clean)
        /\ image.clean \in Int /\ image.clean <= image.clean
    BY <1>1, <2>1, TypeFacts
  <2>4. PICK k \in 1..Len(image.entries) :
          /\ NextEntry = image.entries[k].at /\ NextEntry < image.clean
          /\ \A j \in 1..Len(image.entries) : image.entries[j].at <= place <=> j < k
    BY <1>1, <2>1, <2>2, <2>3, SiblingFacts DEF NextEntry
  <2>5. NextEntry \in Nat /\ ~(NextEntry <= place)
    <3>1. k \in Nat
      BY <2>3 DEF Laid
    <3> QED
      BY <2>3, <2>4, <3>1 DEF Laid
  <2>6. Left' = image.clean + Written + 4 - NextEntry
    BY <1>2, <2>1 DEF Left
  <2>7. Left' \in Nat /\ Left' < Left
    <3>1. NextEntry < image.clean
      BY <2>4
    <3> QED
      BY <1>1, <2>1, <2>5, <2>6, <3>1, LeftValue
  <2> QED
    BY <1>2, <1>3, <2>1, <2>7
<1>8. CASE VisitBset
  <2>1. /\ nth' = nth /\ phase = "bsets" /\ phase' = "bsets"
        /\ place' = NextBset /\ NextBset < Node.written /\ Node' = Node
    BY <1>8 DEF VisitBset, Node, Type
  <2>2. NextBset \in Nat /\ place < NextBset
    <3>1. place = NULL => NextBset = NodeHeader
      BY DEF NextBset
    <3> QED
      BY <2>1, <3>1, NextBsetFacts DEF NULL, NodeHeader
  <2>3. Left' = Node.written + 2 - NextBset
    BY <2>1 DEF Left
  <2>4. Left' \in Nat /\ Left' < Left
    BY <1>1, <2>1, <2>2, <2>3, LeftValue
  <2> QED
    BY <1>2, <1>3, <2>1, <2>4
<1>9. CASE BsetsEnd
  <2>1. nth \in 1..3 /\ Len(Order) = 3 /\ phase = "bsets" /\ place' = 0 /\ Left >= 2
    BY <1>1, <1>9, TypeFacts, OrderFacts, LeftValue DEF BsetsEnd, OpenInv, Goto, NULL
  <2>2. CASE nth < Len(Order)
    <3>1. nth' = nth + 1 /\ phase' = "sections"
      BY <1>9, <2>2 DEF BsetsEnd, Goto
    <3> QED
      BY <1>1, <1>2, <1>3, <2>1, <2>2, <3>1 DEF Left
  <2>3. CASE ~(nth < Len(Order))
    <3>1. nth' = nth /\ phase' = "root"
      BY <1>9, <2>3 DEF BsetsEnd, Goto
    <3> QED
      BY <1>2, <1>3, <2>1, <3>1 DEF Left
  <2> QED
    BY <2>2, <2>3
<1> QED
  BY <1>4, <1>5, <1>6, <1>7, <1>8, <1>9 DEF Next

\* No walk of Bcachefs_open goes round in circles, whatever sizes it has read: a
\* natural number falls with each step, so that an open comes back or the process
\* dies.
THEOREM OpenComesCloser == Spec => [][ToGo' < ToGo /\ ToGo \in Nat]_vars
<1>1. OpenInv /\ Next => ToGo' < ToGo /\ ToGo \in Nat
  <2> SUFFICES ASSUME OpenInv, Next PROVE ToGo' < ToGo /\ ToGo \in Nat
    OBVIOUS
  <2>1. nth \in 1..3 /\ Len(Order) = 3 /\ Round \in Nat /\ Round' = Round
    <3>1. nth \in 1..3 /\ Len(Order) = 3
      BY TypeFacts, OrderFacts DEF OpenInv
    <3>2. Round \in Nat
      BY WithinEnds DEF Round, SbHeader
    <3> QED
      BY <3>1, <3>2, StepCloser DEF Round, Written
  <2>2. /\ Left \in Nat
        /\ \/ nth' = nth /\ Left' \in Nat /\ Left' < Left
           \/ nth < 3 /\ nth' = nth + 1 /\ Left' = Round /\ Left > 0
    BY <2>1, StepCloser
  <2>3. ToGo = (3 - nth) * Round + Left /\ ToGo' = (3 - nth') * Round + Left'
    BY <2>1 DEF ToGo
  <2> HIDE DEF Left, Round, ToGo
  <2>4. nth = 1 \/ nth = 2 \/ nth = 3
    BY <2>1
  <2> QED
    BY <2>1, <2>2, <2>3, <2>4
<1>2. OpenInv /\ [Next]_vars => [ToGo' < ToGo /\ ToGo \in Nat]_vars
  BY <1>1
<1> QED
  BY <1>2, OpenInvariant, PTL DEF Spec
=============================================================================
