--------------------------- MODULE IterMemoryProofs ---------------------------
(***************************************************************************)
(* Proofs about the memory behind an open image, for any number of btrees, *)
(* levels and clients.  The invariant says of every block whose it is and  *)
(* at which level, and that the heap is what the owners have: that no      *)
(* block has two owners and no pointer dangles then follows.               *)
(***************************************************************************)
EXTENDS IterMemory, SequenceTheorems, TLAPS

Place(u, d, holds) == {[of |-> u, level |-> d, holds |-> holds, no |-> n] : n \in {0, 1}}

\* A root's iterator, before it is read and after.
RootShape(it, t) ==
  \/ it = CLEAN
  \/ /\ it.self = NULL
     /\ it.node = [of |-> "begin", level |-> t, holds |-> "node", no |-> 0]
     /\ it.keys = [of |-> "begin", level |-> t, holds |-> "keys", no |-> 0]
     /\ it.into = it.node /\ it.btree_ptr = sb

\* An iterator of user u, at level d.
LinkShape(it, u, d) ==
  /\ it.self \in Place(u, d, "self")
  /\ it.node \in Place(u, d, "node") \cup {NULL}
  /\ it.keys \in Place(u, d, "keys") \cup {NULL}
  /\ it.into = it.node /\ it.bkey \in {NULL, it.node}

Shaped ==
  /\ \A t \in 1..Trees : RootShape(begin[t], t)
  /\ \A u \in Users : \A d \in 1..Len(chain[u]) : LinkShape(chain[u][d], u, d)

Linked ==
  \A u \in Users : \A d \in 1..Len(chain[u]) :
    IF d = 1 THEN chain[u][d].btree_ptr \in {NULL, sb} \/ stage \in {"closed", "crashed"}
    ELSE chain[u][d].btree_ptr = chain[u][d - 1].node

Accounted ==
  {b \in heap : ~IsKcursors(b)} =
         ({sb} \ {NULL}) \cup (UNION {Owned(begin[t]) : t \in 1..Trees})
           \cup (UNION {OwnedIn(chain[u]) : u \in Users})

\* Every merge behind an iterator has left its array of cursors.
ArraysLeft ==
  /\ \A t \in 1..Trees : Left(begin[t], 1)
  /\ \A u \in Users : \A d \in 1..Len(chain[u]) : Left(chain[u][d], d)

RecordsKept ==
  \A u \in Users :
    made[u] # NULL => chain[u] # <<>> /\ made[u] = Deepest(chain[u])

Calls ==
  /\ active \in 0..Len(chain[Search]) /\ (active > 0 <=> running = Search)
  /\ running \in Users \cup {None}
  /\ active > 0 => made[Search] = NULL /\ stage \in {"root", "open"}

Typed ==
  /\ stage \in {"new", "trees", "root", "open", "closed", "crashed"}
  /\ sb \in {NULL, Superblock} /\ heap \subseteq Blocks
  /\ begin \in [1..Trees -> Iterator]
  /\ chain \in [Users -> Seq(Iterator)]
  /\ \A u \in Users : \A d \in 1..Len(chain[u]) :
       /\ chain[u][d].type = chain[u][1].type
       /\ chain[u][1].type # 0 => d <= Levels[chain[u][1].type]
  /\ made \in [Users -> Blocks \cup {NULL}]

Staged ==
  /\ stage = "new" => sb = NULL /\ \A t \in 1..Trees : begin[t] = CLEAN
  /\ stage \in {"new", "trees"} => \A u \in Users : chain[u] = <<>>
  /\ stage = "trees" => sb = Superblock
  /\ stage \in {"root", "open"} => sb # NULL

MemInv ==
  /\ Typed /\ Calls /\ Shaped /\ Linked /\ Accounted /\ ArraysLeft /\ RecordsKept
  /\ Staged

-----------------------------------------------------------------------------
(* Blocks and their owners *)

\* A block's name tells whose it is and at which level.
LEMMA Names ==
  /\ NULL \notin Blocks /\ NULL # Superblock /\ Superblock \in Blocks /\ ~IsKcursors(Superblock)
  /\ \A t \in 0..Trees, d \in Nat :
       Kcursors(t, d) \in Blocks /\ IsKcursors(Kcursors(t, d)) /\ Kcursors(t, d) # NULL
  /\ \A u \in Users, d \in Nat, holds \in {"self", "node", "keys"} :
       \A b \in Place(u, d, holds) :
         /\ b \in Blocks /\ b # NULL /\ b # Superblock
         /\ b.of = u /\ b.of # "begin" /\ b.level = d /\ b.holds = holds /\ ~IsKcursors(b)
  /\ \A t \in 1..Trees, holds \in {"node", "keys"} :
       \A b : b = [of |-> "begin", level |-> t, holds |-> holds, no |-> 0] =>
          /\ b \in Blocks /\ b # NULL /\ b # Superblock
          /\ b.of = "begin" /\ b.level = t /\ b.holds = holds /\ ~IsKcursors(b)
<1>1. \A u \in Users : u \notin {"sb", "begin", "kcursors", "NULL"}
  BY TreesAssumption DEF Users
<1>2. \A b \in Blocks : b.of # "NULL"
  BY <1>1 DEF Blocks
<1>3. NULL.of = "NULL" /\ Superblock.of = "sb" /\ Superblock \in Blocks
  BY DEF NULL, Superblock, Blocks
<1>4. ASSUME NEW u \in Users, NEW d \in Nat, NEW holds \in {"self", "node", "keys"},
             NEW b \in Place(u, d, holds)
      PROVE  b \in Blocks /\ b.of = u /\ b.level = d /\ b.holds = holds
  BY DEF Place, Blocks
<1>5. ASSUME NEW t \in 1..Trees, NEW holds \in {"node", "keys"},
             NEW b, b = [of |-> "begin", level |-> t, holds |-> holds, no |-> 0]
      PROVE  b \in Blocks /\ b.of = "begin" /\ b.level = t /\ b.holds = holds
  BY <1>5 DEF Blocks
<1>6. "begin" # "sb" /\ "begin" # "NULL" /\ "begin" # "kcursors" /\ "sb" # "kcursors"
  OBVIOUS
<1>7. \A t \in 0..Trees, d \in Nat : Kcursors(t, d) \in Blocks /\ Kcursors(t, d).of = "kcursors"
  BY DEF Kcursors, Blocks
<1>8. "kcursors" # "NULL"
  OBVIOUS
<1> QED
  BY <1>1, <1>2, <1>3, <1>4, <1>5, <1>6, <1>7, <1>8 DEF IsKcursors

\* What an iterator of a user owns, by name.
LEMMA LinkOwns ==
  ASSUME NEW u \in Users, NEW d \in Nat, NEW it, LinkShape(it, u, d)
  PROVE  /\ \A b \in Owned(it) : /\ b \in Blocks /\ b # NULL /\ b # Superblock
                                 /\ b.of = u /\ b.of # "begin" /\ b.level = d
                                 /\ ~IsKcursors(b)
         /\ it.node # NULL => it.node \in Owned(it)
         /\ it.node \in Blocks \cup {NULL}
<1>1. \A b \in Owned(it) : b # NULL /\ \E holds \in {"self", "node", "keys"} : b \in Place(u, d, holds)
  BY DEF Owned, LinkShape
<1>2. \A b \in Owned(it) : /\ b \in Blocks /\ b # NULL /\ b # Superblock
                           /\ b.of = u /\ b.of # "begin" /\ b.level = d
                           /\ ~IsKcursors(b)
  BY <1>1, Names
<1>3. it.node # NULL => it.node \in Owned(it)
  BY DEF Owned
<1> QED
  BY <1>2, <1>3

\* What the iterator of a root owns, by name.
LEMMA RootOwns ==
  ASSUME NEW t \in 1..Trees, NEW it, RootShape(it, t)
  PROVE  /\ \A b \in Owned(it) : /\ b \in Blocks /\ b # NULL /\ b # Superblock
                                 /\ b.of = "begin" /\ b.level = t /\ ~IsKcursors(b)
         /\ it.into # NULL => it.into \in Owned(it)
         /\ it.node = NULL => Owned(it) = {}
         /\ it.btree_ptr \in {NULL, sb}
<1>1. CASE it = CLEAN
  BY <1>1 DEF CLEAN, Owned
<1>2. CASE it # CLEAN
  <2>1. /\ it.self = NULL
        /\ it.node = [of |-> "begin", level |-> t, holds |-> "node", no |-> 0]
        /\ it.keys = [of |-> "begin", level |-> t, holds |-> "keys", no |-> 0]
        /\ it.into = it.node /\ it.btree_ptr = sb
    BY <1>2 DEF RootShape
  <2>2. /\ it.node \in Blocks /\ it.node # NULL /\ it.node # Superblock
        /\ it.node.of = "begin" /\ it.node.level = t /\ ~IsKcursors(it.node)
        /\ it.keys \in Blocks /\ it.keys # NULL /\ it.keys # Superblock
        /\ it.keys.of = "begin" /\ it.keys.level = t /\ ~IsKcursors(it.keys)
    BY <2>1, Names
  <2>3. Owned(it) = {it.node, it.keys}
    BY <2>1, <2>2 DEF Owned
  <2> QED
    BY <2>1, <2>2, <2>3
<1> QED
  BY <1>1, <1>2

\* What is on the heap, block by block, bar the arrays of cursors.
LEMMA OnHeap ==
  ASSUME Typed, Accounted, NEW b
  PROVE  b \in heap /\ ~IsKcursors(b) <=>
                        \/ b = sb /\ sb # NULL
                        \/ \E t \in 1..Trees : b \in Owned(begin[t])
                        \/ \E u \in Users : \E d \in 1..Len(chain[u]) : b \in Owned(chain[u][d])
<1>1. \A u \in Users : DOMAIN chain[u] = 1..Len(chain[u])
  BY LenProperties DEF Typed
<1> QED
  BY <1>1 DEF Accounted, OwnedIn

\* The properties follow.
LEMMA InvType == MemInv => TypeOK
BY DEF MemInv, Typed, Calls, TypeOK

\* Every block has one owner.
LEMMA InvOwned == MemInv => OwnedOnce
<1> SUFFICES ASSUME MemInv PROVE OwnedOnce
  OBVIOUS
<1>1. Typed /\ Shaped /\ Accounted
  BY DEF MemInv
<1>2. \A u \in Users : Len(chain[u]) \in Nat /\ u # "begin"
  BY <1>1, LenProperties, TreesAssumption DEF Typed, Users
<1>3. \A t \in 1..Trees :
        \A b \in Owned(begin[t]) : b # Superblock /\ b # NULL /\ b.of = "begin" /\ b.level = t
  BY <1>1, RootOwns DEF Shaped
<1>4. \A u \in Users : \A d \in 1..Len(chain[u]) :
        \A b \in Owned(chain[u][d]) :
           b # Superblock /\ b # NULL /\ b.of = u /\ b.of # "begin" /\ b.level = d
  BY <1>1, <1>2, LinkOwns DEF Shaped
<1>5. \A o \in Owners : \/ o[1] = "begin" /\ o[2] \in 1..Trees /\ o = <<"begin", o[2]>>
                        \/ o[1] \in Users /\ o[2] \in 1..Len(chain[o[1]]) /\ o = <<o[1], o[2]>>
  BY DEF Owners
<1>6. ASSUME NEW o \in Owners, NEW b \in OwnedBy(o)
      PROVE  b # Superblock /\ b # NULL /\ o = <<b.of, b.level>>
  <2>1. CASE o[1] = "begin"
    BY <1>2, <1>3, <1>5, <1>6, <2>1 DEF OwnedBy
  <2>2. CASE o[1] # "begin"
    BY <1>4, <1>5, <1>6, <2>2 DEF OwnedBy
  <2> QED
    BY <2>1, <2>2
<1>7. \A o, p \in Owners : o # p => OwnedBy(o) \cap OwnedBy(p) = {}
  BY <1>6
<1>8. \A o \in Owners : sb \notin OwnedBy(o)
  BY <1>1, <1>6 DEF Typed
<1>9. \A b : b \in UNION {OwnedBy(o) : o \in Owners} <=>
               \/ \E t \in 1..Trees : b \in Owned(begin[t])
               \/ \E u \in Users : \E d \in 1..Len(chain[u]) : b \in Owned(chain[u][d])
  <2> TAKE b
  <2>1. ASSUME NEW o \in Owners, b \in OwnedBy(o)
        PROVE  \/ \E t \in 1..Trees : b \in Owned(begin[t])
               \/ \E u \in Users : \E d \in 1..Len(chain[u]) : b \in Owned(chain[u][d])
    BY <1>2, <1>5, <2>1 DEF OwnedBy
  <2>2. ASSUME NEW t \in 1..Trees, b \in Owned(begin[t])
        PROVE  \E o \in Owners : b \in OwnedBy(o)
    <3>1. <<"begin", t>> \in Owners /\ OwnedBy(<<"begin", t>>) = Owned(begin[t])
      BY DEF Owners, OwnedBy
    <3> QED
      BY <2>2, <3>1
  <2>3. ASSUME NEW u \in Users, NEW d \in 1..Len(chain[u]), b \in Owned(chain[u][d])
        PROVE  \E o \in Owners : b \in OwnedBy(o)
    <3>1. <<u, d>> \in Owners /\ OwnedBy(<<u, d>>) = Owned(chain[u][d])
      BY <1>2 DEF Owners, OwnedBy
    <3> QED
      BY <2>3, <3>1
  <2> QED
    BY <2>1, <2>2, <2>3
<1>10. {b \in heap : ~IsKcursors(b)} = ({sb} \ {NULL}) \cup UNION {OwnedBy(o) : o \in Owners}
  BY <1>1, <1>9, OnHeap
<1> QED
  BY <1>7, <1>8, <1>10 DEF OwnedOnce, MemInv, ArraysLeft

\* What is pointed at is on the heap.
LEMMA InvLive == MemInv => PointersLive
<1> SUFFICES ASSUME MemInv PROVE PointersLive
  OBVIOUS
<1>1. Typed /\ Shaped /\ Linked /\ Accounted /\ RecordsKept
  BY DEF MemInv
<1>2. Live(sb)
  BY <1>1, OnHeap DEF Live
<1>3. ASSUME NEW t \in 1..Trees
      PROVE  Live(begin[t].into) /\ Live(begin[t].btree_ptr)
  <2>1. RootShape(begin[t], t)
    BY <1>1 DEF Shaped
  <2> QED
    BY <1>1, <1>2, <2>1, RootOwns, OnHeap DEF Live
<1>4. ASSUME NEW u \in Users, NEW d \in 1..Len(chain[u])
      PROVE  /\ Live(chain[u][d].node) /\ Live(chain[u][d].into) /\ Live(chain[u][d].bkey)
             /\ d \in Nat
  <2>1. d \in Nat /\ LinkShape(chain[u][d], u, d)
    BY <1>1, LenProperties DEF Shaped, Typed
  <2>2. chain[u][d].node # NULL => chain[u][d].node \in Owned(chain[u][d])
    BY <2>1, LinkOwns
  <2>3. Live(chain[u][d].node)
    BY <1>1, <2>2, OnHeap DEF Live
  <2> QED
    BY <2>1, <2>3 DEF LinkShape, Live
<1>5. ASSUME NEW u \in Users, NEW d \in 1..Len(chain[u])
      PROVE  Live(chain[u][d].btree_ptr) \/ (d = 1 /\ stage \in {"closed", "crashed"})
  <2>1. CASE d = 1
    BY <1>1, <1>2, <2>1 DEF Linked, Live
  <2>2. CASE d # 1
    <3>1. d - 1 \in 1..Len(chain[u]) /\ chain[u][d].btree_ptr = chain[u][d - 1].node
      BY <1>1, <1>4, <2>2, LenProperties DEF Linked, Typed
    <3> QED
      BY <1>4, <3>1
  <2> QED
    BY <2>1, <2>2
<1>6. ASSUME NEW u \in Users PROVE Live(made[u])
  <2>1. CASE made[u] = NULL
    BY <2>1 DEF Live
  <2>2. CASE made[u] # NULL
    <3>1. chain[u] # <<>> /\ made[u] = chain[u][Len(chain[u])].node
      BY <1>1, <2>2 DEF RecordsKept, Deepest
    <3>2. Len(chain[u]) \in 1..Len(chain[u])
      BY <1>1, <3>1, LenProperties, EmptySeq DEF Typed
    <3> QED
      BY <1>4, <3>1, <3>2
  <2> QED
    BY <2>1, <2>2
<1> QED
  BY <1>2, <1>3, <1>4, <1>5, <1>6 DEF PointersLive

-----------------------------------------------------------------------------
(* Steps that change the iterators of one user *)

\* An iterator that stays, bar the key that it looks at.
Stays(old, new) ==
  /\ new \in Iterator /\ new.type = old.type
  /\ new.self = old.self /\ new.node = old.node /\ new.keys = old.keys
  /\ new.into = old.into /\ new.btree_ptr = old.btree_ptr
  /\ new.bkey \in {old.bkey, old.into}

\* One that is new at level d of user u, below the iterators of old.
Hangs(it, u, d, old) ==
  /\ it \in Iterator /\ LinkShape(it, u, d)
  /\ IF d = 1 THEN it.btree_ptr \in {NULL, sb}
     ELSE /\ it.btree_ptr = old[d - 1].node /\ it.type = old[1].type
          /\ old[1].type # 0 => d <= Levels[old[1].type]

\* The iterators of user u stay down to level d, those below are freed, and there
\* may be a new one below.
Replaces(u, d) ==
  /\ d \in 0..Len(chain[u])
  /\ chain' \in [Users -> Seq(Iterator)]
  /\ \A v \in Users \ {u} : chain'[v] = chain[v]
  /\ Len(chain'[u]) \in {d, d + 1}
  /\ \A i \in 1..d : Stays(chain[u][i], chain'[u][i])
  /\ Len(chain'[u]) = d + 1 => Hangs(chain'[u][d + 1], u, d + 1, chain[u])
  /\ \A b : ~IsKcursors(b) =>
       (b \in heap' <=>
          \/ b \in heap /\ ~ \E i \in (d + 1)..Len(chain[u]) : b \in Owned(chain[u][i])
          \/ Len(chain'[u]) = d + 1 /\ b \in Owned(chain'[u][d + 1]))
  /\ \A b : IsKcursors(b) => (b \in heap => b \in heap') /\ (b \in heap' => b \in Blocks)
  /\ Len(chain'[u]) = d + 1 =>
       (chain'[u][d + 1].type # 0 => Kcursors(chain'[u][d + 1].type, d + 1) \in heap')

\* Such a step of a call.
Changes(u, d) ==
  /\ Replaces(u, d)
  /\ \A v \in Users \ {u} : made'[v] = made[v]
  /\ made' \in [Users -> Blocks \cup {NULL}]
  /\ made'[u] # NULL => chain'[u] # <<>> /\ made'[u] = Deepest(chain'[u])
  /\ sb' = sb /\ begin' = begin /\ Calls'
  /\ stage' \in {"root", "open", "closed", "crashed"}
  /\ stage \in {"closed", "crashed"} => stage' \in {"closed", "crashed"}
  /\ stage' \in {"root", "open"} => sb # NULL

\* A step that changes the iterators of one user only keeps the invariant.
LEMMA Changed ==
  ASSUME MemInv, NEW u \in Users, NEW d, Changes(u, d)
  PROVE  MemInv'
<1>1. Typed /\ Shaped /\ Linked /\ Accounted /\ ArraysLeft /\ RecordsKept /\ Staged
  BY DEF MemInv
<1>2. /\ d \in Nat /\ d <= Len(chain[u]) /\ Len(chain[u]) \in Nat
      /\ \A v \in Users \ {u} : chain'[v] = chain[v] /\ made'[v] = made[v]
      /\ Len(chain'[u]) \in {d, d + 1}
      /\ sb' = sb /\ begin' = begin
  BY <1>1, LenProperties DEF Changes, Replaces, Typed
<1>3. \A v \in Users : Len(chain[v]) \in Nat /\ Len(chain'[v]) \in Nat
  BY <1>1, LenProperties DEF Changes, Replaces, Typed
<1>4. \A i \in 1..d : /\ i \in 1..Len(chain[u]) /\ Stays(chain[u][i], chain'[u][i])
                      /\ Owned(chain'[u][i]) = Owned(chain[u][i])
  BY <1>2 DEF Changes, Replaces, Stays, Owned
<1>5. \A i \in 1..Len(chain'[u]) :
        i \in 1..d \/ (i = d + 1 /\ Len(chain'[u]) = d + 1 /\ Hangs(chain'[u][i], u, i, chain[u]))
  BY <1>2 DEF Changes, Replaces
<1>6. Shaped'
  <2>1. ASSUME NEW t \in 1..Trees PROVE RootShape(begin[t], t)'
    BY <1>1, <1>2 DEF Shaped, RootShape, CLEAN
  <2>2. ASSUME NEW v \in Users, NEW i \in 1..Len(chain'[v])
        PROVE  LinkShape(chain'[v][i], v, i)
    <3>1. CASE v # u
      BY <1>1, <1>2, <3>1 DEF Shaped
    <3>2. CASE v = u /\ i \in 1..d
      <4>1. LinkShape(chain[u][i], u, i)
        BY <1>1, <1>4, <3>2 DEF Shaped
      <4> QED
        BY <1>4, <3>2, <4>1 DEF LinkShape, Stays
    <3>3. CASE v = u /\ i \notin 1..d
      BY <1>5, <3>3 DEF Hangs
    <3> QED
      BY <3>1, <3>2, <3>3
  <2>3. ASSUME NEW v \in Users, NEW i \in 1..Len(chain'[v])
        PROVE  LinkShape(chain[v][i], v, i)'
    BY <2>2, <2>3 DEF LinkShape, Place
  <2> QED
    BY <2>1, <2>3 DEF Shaped
<1>7. Linked'
  <2> SUFFICES ASSUME NEW v \in Users, NEW i \in 1..Len(chain'[v])
               PROVE  IF i = 1 THEN \/ chain'[v][i].btree_ptr \in {NULL, sb'}
                                    \/ stage' \in {"closed", "crashed"}
                      ELSE chain'[v][i].btree_ptr = chain'[v][i - 1].node
    BY DEF Linked
  <2>1. stage \in {"closed", "crashed"} => stage' \in {"closed", "crashed"}
    BY DEF Changes, Replaces
  <2>2. CASE v # u
    BY <1>1, <1>2, <2>1, <2>2 DEF Linked
  <2>3. CASE v = u /\ i \in 1..d
    <3>1. IF i = 1 THEN chain[u][i].btree_ptr \in {NULL, sb} \/ stage \in {"closed", "crashed"}
          ELSE chain[u][i].btree_ptr = chain[u][i - 1].node
      BY <1>1, <1>4, <2>3 DEF Linked
    <3>2. i # 1 => i - 1 \in 1..d
      BY <1>2, <2>3
    <3> QED
      BY <1>2, <1>4, <2>1, <2>3, <3>1, <3>2 DEF Stays
  <2>4. CASE v = u /\ i \notin 1..d
    <3>1. i = d + 1 /\ Hangs(chain'[u][i], u, i, chain[u])
      BY <1>5, <2>4
    <3>2. i # 1 => i - 1 \in 1..d
      BY <1>2, <3>1
    <3> QED
      BY <1>2, <1>4, <2>4, <3>1, <3>2 DEF Hangs, Stays
  <2> QED
    BY <2>2, <2>3, <2>4
<1>8. ASSUME NEW b
      PROVE  b \in heap' /\ ~IsKcursors(b) <=>
                             \/ b = sb' /\ sb' # NULL
                             \/ \E t \in 1..Trees : b \in Owned(begin'[t])
                             \/ \E v \in Users : \E i \in 1..Len(chain'[v]) : b \in Owned(chain'[v][i])
  <2> DEFINE freed == \E i \in (d + 1)..Len(chain[u]) : b \in Owned(chain[u][i])
             fresh == Len(chain'[u]) = d + 1 /\ b \in Owned(chain'[u][d + 1])
             mine  == \E i \in 1..d : b \in Owned(chain[u][i])
             other == \/ b = sb /\ sb # NULL
                      \/ \E t \in 1..Trees : b \in Owned(begin[t])
                      \/ \E v \in Users \ {u} : \E i \in 1..Len(chain[v]) : b \in Owned(chain[v][i])
  <2>1. ~IsKcursors(b) => (b \in heap' <=> (b \in heap /\ ~freed) \/ fresh)
    BY DEF Changes, Replaces
  <2>2. b \in heap /\ ~IsKcursors(b) <=> other \/ mine \/ freed
    <3>1. \A i : i \in 1..Len(chain[u]) <=> i \in 1..d \/ i \in (d + 1)..Len(chain[u])
      BY <1>2
    <3> QED
      BY <1>1, <3>1, OnHeap
  <2>3. \A v \in Users : \A i \in 1..Len(chain[v]) :
          b \in Owned(chain[v][i]) =>
            b # Superblock /\ b # NULL /\ b.of = v /\ b.of # "begin" /\ b.level = i
    BY <1>1, <1>3, LinkOwns DEF Shaped
  <2>4. \A t \in 1..Trees : b \in Owned(begin[t]) => b.of = "begin"
    BY <1>1, RootOwns DEF Shaped
  <2>5. freed => b # Superblock /\ b # NULL /\ b.of = u /\ b.of # "begin" /\ b.level > d
    BY <1>2, <2>3
  <2>6. freed => ~other /\ ~mine
    BY <1>1, <1>2, <2>3, <2>4, <2>5 DEF Typed
  <2>7. mine \/ fresh <=> \E i \in 1..Len(chain'[u]) : b \in Owned(chain'[u][i])
    <3>1. \A i : i \in 1..Len(chain'[u]) <=> i \in 1..d \/ (i = d + 1 /\ Len(chain'[u]) = d + 1)
      BY <1>2
    <3> QED
      BY <1>4, <3>1
  <2>8. other \/ mine \/ fresh <=>
          \/ b = sb' /\ sb' # NULL
          \/ \E t \in 1..Trees : b \in Owned(begin'[t])
          \/ \E v \in Users : \E i \in 1..Len(chain'[v]) : b \in Owned(chain'[v][i])
    BY <1>2, <2>7
  <2>9. fresh => ~IsKcursors(b)
    <3>1. fresh => LinkShape(chain'[u][d + 1], u, d + 1) /\ d + 1 \in Nat
      BY <1>2 DEF Changes, Replaces, Hangs
    <3> QED
      BY <3>1, LinkOwns
  <2> HIDE DEF freed, fresh, mine, other
  <2> QED
    BY <2>1, <2>2, <2>6, <2>8, <2>9
<1>9. Accounted'
  <2>1. \A v \in Users : DOMAIN chain'[v] = 1..Len(chain'[v])
    BY LenProperties DEF Changes, Replaces
  <2> QED
    BY <1>8, <2>1 DEF Accounted, OwnedIn
<1>10. Typed'
  <2>1. heap' \subseteq Blocks
    <3> SUFFICES ASSUME NEW b \in heap' PROVE b \in Blocks
      OBVIOUS
    <3>1. CASE b \in heap
      BY <1>1, <3>1 DEF Typed
    <3>2. CASE b \notin heap /\ ~IsKcursors(b)
      <4>1. LinkShape(chain'[u][d + 1], u, d + 1) /\ b \in Owned(chain'[u][d + 1])
        BY <3>2 DEF Changes, Replaces, Hangs
      <4>2. d + 1 \in Nat
        BY <1>2
      <4> QED
        BY <4>1, <4>2, LinkOwns
    <3>3. CASE IsKcursors(b)
      BY <3>3 DEF Changes, Replaces
    <3> QED
      BY <3>1, <3>2, <3>3
  <2>2. ASSUME NEW v \in Users, NEW i \in 1..Len(chain'[v])
        PROVE  /\ chain'[v][i].type = chain'[v][1].type
               /\ chain'[v][1].type # 0 => i <= Levels[chain'[v][1].type]
    <3>1. CASE v # u
      BY <1>1, <1>2, <3>1 DEF Typed
    <3>2. CASE v = u /\ i \in 1..d
      <4>1. 1 \in 1..d
        BY <1>2, <3>2
      <4>2. /\ chain[u][i].type = chain[u][1].type
            /\ chain[u][1].type # 0 => i <= Levels[chain[u][1].type]
        BY <1>1, <1>4, <3>2 DEF Typed
      <4>3. chain'[u][i].type = chain[u][i].type /\ chain'[u][1].type = chain[u][1].type
        BY <1>4, <3>2, <4>1 DEF Stays
      <4> QED
        BY <3>2, <4>2, <4>3
    <3>3. CASE v = u /\ i \notin 1..d
      <4>1. i = d + 1 /\ Hangs(chain'[u][i], u, i, chain[u])
        BY <1>5, <3>3
      <4>2. CASE d = 0
        <5>1. i = 1 /\ chain'[u][1].type \in 0..Trees
          BY <4>1, <4>2 DEF Hangs, Iterator
        <5>2. chain'[u][1].type # 0 => Levels[chain'[u][1].type] \in Nat \ {0}
          BY <5>1, TreesAssumption
        <5> QED
          BY <3>3, <5>1, <5>2
      <4>3. CASE d # 0
        <5>1. 1 \in 1..d /\ i # 1
          BY <1>2, <4>1, <4>3
        <5>2. chain'[u][1].type = chain[u][1].type
          BY <1>4, <5>1 DEF Stays
        <5> QED
          BY <3>3, <4>1, <5>1, <5>2 DEF Hangs
      <4> QED
        BY <4>2, <4>3
    <3> QED
      BY <3>1, <3>2, <3>3
  <2> QED
    BY <1>1, <1>2, <2>1, <2>2 DEF Typed, Changes, Replaces
<1>11. RecordsKept'
  <2> SUFFICES ASSUME NEW v \in Users, made'[v] # NULL
               PROVE  chain'[v] # <<>> /\ made'[v] = Deepest(chain'[v])
    BY DEF RecordsKept, Deepest
  <2>1. CASE v = u
    BY <2>1 DEF Changes, Replaces
  <2>2. CASE v # u
    BY <1>1, <1>2, <2>2 DEF RecordsKept
  <2> QED
    BY <2>1, <2>2
<1>12. Staged'
  BY <1>2 DEF Staged, Changes
<1>13. Calls'
  BY DEF Changes, Replaces
<1>14. ArraysLeft'
  <2>1. \A t, i : Kcursors(t, i) \in heap => Kcursors(t, i) \in heap'
    <3>1. \A t, i : IsKcursors(Kcursors(t, i))
      BY DEF IsKcursors, Kcursors
    <3> QED
      BY <3>1 DEF Changes, Replaces
  <2>2. \A t \in 1..Trees : Left(begin[t], 1)'
    BY <1>1, <1>2, <2>1 DEF ArraysLeft, Left
  <2>3. ASSUME NEW v \in Users, NEW i \in 1..Len(chain'[v])
        PROVE  chain'[v][i].type # 0 => Kcursors(chain'[v][i].type, i) \in heap'
    <3>1. CASE v # u
      BY <1>1, <1>2, <2>1, <3>1 DEF ArraysLeft, Left
    <3>2. CASE v = u /\ i \in 1..d
      BY <1>1, <1>4, <2>1, <3>2 DEF ArraysLeft, Left, Stays
    <3>3. CASE v = u /\ i \notin 1..d
      BY <1>5, <3>3 DEF Changes, Replaces
    <3> QED
      BY <3>1, <3>2, <3>3
  <2> QED
    BY <2>2, <2>3 DEF ArraysLeft, Left
<1> QED
  BY <1>6, <1>7, <1>9, <1>10, <1>11, <1>12, <1>13, <1>14 DEF MemInv

\* malloc, as far as the proof goes: the block has its owner's name.
LEMMA NewFacts ==
  ASSUME NEW u \in Users, NEW d \in Nat, NEW holds \in {"self", "node", "keys"}
  PROVE  New(u, d, holds) \in Place(u, d, holds) /\ New(u, d, holds) \in Blocks
<1>1. New(u, d, holds) \in Place(u, d, holds)
  BY DEF New, Place
<1> QED
  BY <1>1, Names

\* The copy of a root's iterator, and the iterator of a child.
LEMMA CopyHangs ==
  ASSUME MemInv, NEW u \in Users, NEW t \in 1..Trees, NEW old
  PROVE  /\ Hangs(Copy(u, begin[t]), u, 1, old)
         /\ Left(Copy(u, begin[t]), 1)
<1> DEFINE it == Copy(u, begin[t])
<1>1. Typed /\ RootShape(begin[t], t)
  BY DEF MemInv, Shaped
<1>2. begin[t].type \in 0..Trees /\ begin[t].btree_ptr \in Blocks \cup {NULL}
  BY <1>1 DEF Typed, Iterator
<1>3. begin[t].btree_ptr \in {NULL, sb}
  BY <1>1, RootOwns
<1>4. \A holds \in {"self", "node", "keys"} :
        New(u, 1, holds) \in Place(u, 1, holds) /\ New(u, 1, holds) \in Blocks
  BY NewFacts
<1>5. /\ it.type = begin[t].type /\ it.self = New(u, 1, "self") /\ it.node = New(u, 1, "node")
      /\ it.keys \in {NULL, New(u, 1, "keys")} /\ it.into = New(u, 1, "node") /\ it.bkey = NULL
      /\ it.btree_ptr = begin[t].btree_ptr
  BY DEF Copy
<1>6. it \in Iterator
  BY <1>2, <1>4 DEF Copy, Iterator
<1> HIDE DEF it
<1>7. LinkShape(it, u, 1)
  BY <1>4, <1>5 DEF LinkShape
<1>8. Left(begin[t], 1)
  BY DEF MemInv, ArraysLeft
<1> QED
  BY <1>3, <1>5, <1>6, <1>7, <1>8 DEF Hangs, it, Left

\* The child that Bcachefs_next_iter makes belongs to the user and the level below.
LEMMA ChildHangs ==
  ASSUME MemInv, NEW u \in Users, NEW d \in 1..Len(chain[u]), ~Leaf(chain[u], d)
  PROVE  Hangs(Child(u, chain[u], d), u, d + 1, chain[u])
<1> DEFINE it == Child(u, chain[u], d)
<1>1. Typed /\ Len(chain[u]) \in Nat /\ d \in Nat /\ d + 1 # 1
  BY LenProperties DEF MemInv, Typed
<1>2. /\ chain[u][d] \in Iterator
      /\ chain[u][d].type = chain[u][1].type
      /\ chain[u][1].type # 0 => d <= Levels[chain[u][1].type]
  BY <1>1, ElementOfSeq DEF Typed
<1>3. chain[u][d].type \in 0..Trees /\ chain[u][d].node \in Blocks \cup {NULL}
  BY <1>2 DEF Iterator
<1>4. \A holds \in {"self", "node", "keys"} :
        New(u, d + 1, holds) \in Place(u, d + 1, holds) /\ New(u, d + 1, holds) \in Blocks
  BY <1>1, NewFacts
<1>5. /\ it.type = chain[u][d].type /\ it.self = New(u, d + 1, "self")
      /\ it.node = New(u, d + 1, "node") /\ it.keys = New(u, d + 1, "keys")
      /\ it.into = New(u, d + 1, "node") /\ it.bkey = NULL
      /\ it.btree_ptr = chain[u][d].node
  BY DEF Child
<1>6. it \in Iterator
  BY <1>3, <1>4 DEF Child, Iterator
<1>7. chain[u][1].type # 0 => d + 1 <= Levels[chain[u][1].type]
  <2>1. chain[u][1].type # 0 => Levels[chain[u][1].type] \in Nat
    BY <1>2, <1>3, TreesAssumption
  <2> QED
    BY <1>1, <1>2, <2>1 DEF Leaf
<1> HIDE DEF it
<1>8. LinkShape(it, u, d + 1)
  BY <1>4, <1>5 DEF LinkShape
<1>9. d + 1 - 1 = d
  BY <1>1
<1> QED
  BY <1>1, <1>2, <1>5, <1>6, <1>7, <1>8, <1>9 DEF Hangs, it

\* Looking at a key leaves the iterators as they are otherwise.
LEMMA AtStays ==
  ASSUME MemInv, NEW u \in Users, NEW d \in 1..Len(chain[u])
  PROVE  /\ At(chain[u], d) \in Seq(Iterator) /\ Len(At(chain[u], d)) = Len(chain[u])
         /\ \A i \in 1..Len(chain[u]) : Stays(chain[u][i], At(chain[u], d)[i])
         /\ At(chain[u], d)[Len(chain[u])].node = chain[u][Len(chain[u])].node
<1> DEFINE new == [chain[u][d] EXCEPT !.bkey = chain[u][d].into]
           all == [i \in 1..Len(chain[u]) |-> IF i = d THEN new ELSE chain[u][i]]
<1>1. chain[u] \in Seq(Iterator) /\ Len(chain[u]) \in Nat
  BY LenProperties DEF MemInv, Typed
<1>2. /\ DOMAIN chain[u] = 1..Len(chain[u])
      /\ \A i \in 1..Len(chain[u]) : chain[u][i] \in Iterator
  BY <1>1, LenProperties, ElementOfSeq
<1>3. new \in Iterator /\ Stays(chain[u][d], new)
  BY <1>2 DEF Iterator, Stays
<1>4. \A i \in 1..Len(chain[u]) : Stays(chain[u][i], chain[u][i])
  BY <1>2 DEF Stays
<1> HIDE DEF new
<1>5. At(chain[u], d) = all
  <2>1. At(chain[u], d) = [chain[u] EXCEPT ![d] = new]
    BY DEF At, new
  <2>2. chain[u] = [i \in 1..Len(chain[u]) |-> chain[u][i]]
    BY <1>1, <1>2, LenProperties
  <2> QED
    BY <1>2, <2>1, <2>2
<1>6. all \in [1..Len(chain[u]) -> Iterator] /\ \A i \in 1..Len(chain[u]) : Stays(chain[u][i], all[i])
  BY <1>2, <1>3, <1>4
<1> HIDE DEF all
<1>7. all \in Seq(Iterator) /\ Len(all) = Len(chain[u])
  BY <1>1, <1>6
<1>8. Len(chain[u]) \in 1..Len(chain[u])
  BY <1>1
<1> QED
  BY <1>5, <1>6, <1>7, <1>8 DEF Stays

\* What Bcachefs_iter_fini frees.
LEMMA FiniFrees ==
  ASSUME MemInv, NEW u \in Users, NEW d \in 1..(Len(chain[u]) + 1), NEW b
  PROVE  b \in Fini(chain[u], d) <=> \E i \in d..Len(chain[u]) : b \in Owned(chain[u][i])
<1> DEFINE n == Len(chain[u])
           sub == SubSeq(chain[u], d, n)
<1>1. chain[u] \in Seq(Iterator) /\ n \in Nat /\ d \in Nat /\ d <= n + 1 /\ d >= 1
  BY LenProperties DEF MemInv, Typed
<1>2. \A i \in d..n : chain[u][i] \in Iterator
  BY <1>1, ElementOfSeq
<1> HIDE DEF n
<1>3. /\ sub \in Seq(Iterator) /\ Len(sub) = IF d <= n THEN n - d + 1 ELSE 0
      /\ \A i \in 1..(n - d + 1) : sub[i] = chain[u][d + i - 1]
  BY <1>1, <1>2, SubSeqProperties
<1> HIDE DEF sub
<1>4. DOMAIN sub = 1..(n - d + 1)
  BY <1>1, <1>3, LenProperties
<1>5. b \in OwnedIn(sub) <=> \E i \in 1..(n - d + 1) : b \in Owned(chain[u][d + i - 1])
  BY <1>3, <1>4 DEF OwnedIn
<1>6. (\E i \in 1..(n - d + 1) : b \in Owned(chain[u][d + i - 1]))
        <=> \E i \in d..n : b \in Owned(chain[u][i])
  <2>1. \A i \in d..n : i - d + 1 \in 1..(n - d + 1) /\ d + (i - d + 1) - 1 = i
    BY <1>1
  <2>2. \A i \in 1..(n - d + 1) : d + i - 1 \in d..n
    BY <1>1
  <2> QED
    BY <2>1, <2>2
<1> QED
  BY <1>5, <1>6 DEF Fini, n, sub

\* A step that frees the iterators below level d and may hang a new one there.
LEMMA BecomesReplaces ==
  ASSUME MemInv, NEW u \in Users, NEW d \in 0..Len(chain[u]), NEW below, NEW left,
         NEW these \in Seq(Iterator), d <= Len(these),
         \A i \in 1..d : Stays(chain[u][i], these[i]),
         below = <<>> \/ \E it : below = <<it>> /\ Hangs(it, u, d + 1, chain[u]),
         \A b \in left : IsKcursors(b) /\ b \in Blocks,
         \A it : below = <<it>> /\ it.type # 0 =>
                   \/ Kcursors(it.type, d + 1) \in heap
                   \/ Kcursors(it.type, d + 1) \in left,
         Becomes(u, these, d, below, left)
  PROVE  Replaces(u, d) /\ Len(chain'[u]) = d + Len(below)
<1> DEFINE kept == SubSeq(these, 1, d)
<1>1. chain \in [Users -> Seq(Iterator)] /\ Len(chain[u]) \in Nat /\ d \in Nat /\ Len(these) \in Nat
  BY LenProperties DEF MemInv, Typed
<1>2. kept \in Seq(Iterator) /\ Len(kept) = d /\ \A i \in 1..d : kept[i] = these[i]
  <2>1. \A i \in 1..d : these[i] \in Iterator
    BY <1>1, ElementOfSeq
  <2>2. /\ kept \in Seq(Iterator) /\ Len(kept) = IF 1 <= d THEN d - 1 + 1 ELSE 0
        /\ \A i \in 1..(d - 1 + 1) : kept[i] = these[1 + i - 1]
    BY <1>1, <2>1, SubSeqProperties
  <2> QED
    BY <1>1, <2>2
<1> HIDE DEF kept
<1>3. /\ below \in Seq(Iterator) /\ Len(below) \in {0, 1}
      /\ Len(below) = 1 => Hangs(below[1], u, d + 1, chain[u]) /\ OwnedIn(below) = Owned(below[1])
      /\ Len(below) = 0 => OwnedIn(below) = {}
  <2>1. CASE below = <<>>
    BY <2>1 DEF OwnedIn
  <2>2. ASSUME NEW it, below = <<it>>, Hangs(it, u, d + 1, chain[u])
        PROVE  /\ below \in Seq(Iterator) /\ Len(below) = 1 /\ below[1] = it
               /\ DOMAIN below = {1}
    BY <2>2 DEF Hangs
  <2> QED
    BY <2>1, <2>2 DEF OwnedIn
<1> DEFINE both == kept \o below
<1>4. /\ both \in Seq(Iterator) /\ Len(both) = d + Len(below)
      /\ \A i \in 1..(d + Len(below)) : both[i] = IF i <= d THEN kept[i] ELSE below[i - d]
  <2>1. below \in Seq(Iterator) /\ kept \in Seq(Iterator) /\ Len(kept) = d
    BY <1>2, <1>3
  <2>2. /\ both \in Seq(Iterator) /\ Len(both) = Len(kept) + Len(below)
        /\ \A i \in 1..(Len(kept) + Len(below)) :
             both[i] = IF i <= Len(kept) THEN kept[i] ELSE below[i - Len(kept)]
    BY <2>1, ConcatProperties
  <2> HIDE DEF both
  <2> QED
    BY <2>1, <2>2
<1>5. chain' = [chain EXCEPT ![u] = both]
  BY DEF Becomes, kept
<1> HIDE DEF both
<1>6. /\ chain' \in [Users -> Seq(Iterator)] /\ chain'[u] = both
      /\ \A v \in Users \ {u} : chain'[v] = chain[v]
  BY <1>1, <1>4, <1>5
<1>7. Len(chain'[u]) \in {d, d + 1} /\ Len(chain'[u]) = d + Len(below)
  <2>1. Len(below) = 0 \/ Len(below) = 1
    BY <1>3
  <2>2. Len(chain'[u]) = d + Len(below)
    BY <1>4, <1>6
  <2> DEFINE n == Len(below)
             m == Len(chain'[u])
  <2>3. (n = 0 \/ n = 1) /\ m = d + n /\ d \in Nat
    BY <1>1, <2>1, <2>2
  <2> HIDE DEF n, m
  <2>4. m \in {d, d + 1}
    BY <2>3
  <2> QED
    BY <2>2, <2>4 DEF m
<1>8. \A i \in 1..d : Stays(chain[u][i], chain'[u][i])
  <2>1. ASSUME NEW i \in 1..d PROVE chain'[u][i] = these[i]
    <3>1. i <= d /\ i \in 1..(d + Len(below))
      BY <1>1, <1>3
    <3>2. both[i] = kept[i]
      BY <1>4, <3>1
    <3> QED
      BY <1>2, <1>6, <3>2
  <2> QED
    BY <2>1
<1>9. Len(chain'[u]) = d + 1 =>
        /\ Len(below) = 1 /\ chain'[u][d + 1] = below[1]
        /\ Hangs(chain'[u][d + 1], u, d + 1, chain[u])
  <2>1. ASSUME Len(below) = 1 PROVE chain'[u][d + 1] = below[1]
    BY <1>1, <1>4, <1>6, <2>1
  <2> QED
    BY <1>1, <1>3, <1>7, <2>1
<1>10. ASSUME NEW b, ~IsKcursors(b)
       PROVE  b \in heap' <=>
                \/ b \in heap /\ ~ \E i \in (d + 1)..Len(chain[u]) : b \in Owned(chain[u][i])
                \/ Len(chain'[u]) = d + 1 /\ b \in Owned(chain'[u][d + 1])
  <2>1. d + 1 \in 1..(Len(chain[u]) + 1)
    BY <1>1
  <2>2. b \in Fini(chain[u], d + 1)
          <=> \E i \in (d + 1)..Len(chain[u]) : b \in Owned(chain[u][i])
    BY <2>1, FiniFrees
  <2>3. b \in OwnedIn(below) <=> Len(chain'[u]) = d + 1 /\ b \in Owned(chain'[u][d + 1])
    BY <1>1, <1>3, <1>7, <1>9
  <2> QED
    BY <1>10, <2>2, <2>3 DEF Becomes
<1>11. ASSUME NEW b, IsKcursors(b)
       PROVE  /\ b \in heap' <=> b \in heap \cup left
              /\ b \in heap' => b \in Blocks
  <2>1. b \notin Fini(chain[u], d + 1)
    <3>1. /\ d + 1 \in 1..(Len(chain[u]) + 1)
          /\ \A i \in (d + 1)..Len(chain[u]) : i \in Nat /\ i \in 1..Len(chain[u])
      BY <1>1
    <3>2. ASSUME NEW i \in (d + 1)..Len(chain[u]), b \in Owned(chain[u][i]) PROVE FALSE
      <4>1. LinkShape(chain[u][i], u, i)
        BY <3>1 DEF MemInv, Shaped
      <4> QED
        BY <1>11, <3>1, <3>2, <4>1, LinkOwns
    <3> QED
      BY <3>1, <3>2, FiniFrees
  <2>2. b \notin OwnedIn(below)
    <3>1. CASE Len(below) = 1
      <4>1. LinkShape(below[1], u, d + 1) /\ d + 1 \in Nat
        BY <1>1, <1>3, <3>1 DEF Hangs
      <4> QED
        BY <1>3, <1>11, <3>1, <4>1, LinkOwns
    <3> QED
      BY <1>3, <3>1
  <2>3. b \in heap' <=> b \in heap \cup left
    BY <2>1, <2>2 DEF Becomes
  <2> QED
    BY <2>3 DEF MemInv, Typed
<1>12. Len(chain'[u]) = d + 1 =>
         (chain'[u][d + 1].type # 0 => Kcursors(chain'[u][d + 1].type, d + 1) \in heap')
  <2> SUFFICES ASSUME Len(chain'[u]) = d + 1, chain'[u][d + 1].type # 0
               PROVE  Kcursors(chain'[u][d + 1].type, d + 1) \in heap'
    OBVIOUS
  <2>0. Len(below) = 1 /\ Len(<<>>) = 0
    BY <1>9
  <2>1. PICK it : below = <<it>>
    <3>1. CASE below = <<>>
      BY <2>0, <3>1
    <3>2. CASE \E it : below = <<it>> /\ Hangs(it, u, d + 1, chain[u])
      BY <3>2
    <3> QED
      BY <3>1, <3>2
  <2>2. chain'[u][d + 1] = it
    BY <1>9, <2>1
  <2>3. Kcursors(it.type, d + 1) \in heap \/ Kcursors(it.type, d + 1) \in left
    BY <2>1, <2>2
  <2>4. IsKcursors(Kcursors(it.type, d + 1))
    BY DEF IsKcursors, Kcursors
  <2> QED
    BY <1>11, <2>2, <2>3, <2>4
<1> QED
  BY <1>6, <1>7, <1>8, <1>9, <1>10, <1>11, <1>12 DEF Replaces

\* A step that only frees, and one that hangs the copy of a root.
LEMMA FreesReplaces ==
  ASSUME MemInv, NEW u \in Users, NEW d \in 0..Len(chain[u]),
         NEW these \in Seq(Iterator), d <= Len(these),
         \A i \in 1..d : Stays(chain[u][i], these[i]),
         Becomes(u, these, d, <<>>, {})
  PROVE  Replaces(u, d) /\ Len(chain'[u]) = d + Len(<<>>)
<1> DEFINE below == <<>>
           left == {}
<1>1. below = <<>> /\ \A it : below # <<it>>
  OBVIOUS
<1>2. \A b \in left : IsKcursors(b) /\ b \in Blocks
  OBVIOUS
<1>3. Becomes(u, these, d, below, left)
  OBVIOUS
<1> HIDE DEF below, left
<1>4. Replaces(u, d) /\ Len(chain'[u]) = d + Len(below)
  BY <1>1, <1>2, <1>3, BecomesReplaces
<1> QED
  BY <1>1, <1>4

LEMMA CopyReplaces ==
  ASSUME MemInv, NEW u \in Users, NEW it, Hangs(it, u, 1, chain[u]), Left(it, 1),
         Becomes(u, <<>>, 0, <<it>>, {})
  PROVE  Replaces(u, 0) /\ Len(chain'[u]) = 1
<1> DEFINE left == {}
           these == <<>>
<1>1. \A x : <<it>> = <<x>> => x = it
  OBVIOUS
<1>2. \A b \in left : IsKcursors(b) /\ b \in Blocks
  OBVIOUS
<1>3. 0 + 1 = 1 /\ Len(<<it>>) = 1 /\ Len(<<>>) = 0 /\ <<>> \in Seq(Iterator) /\ \A i \in 1..0 : FALSE
  OBVIOUS
<1>4. 0 \in 0..Len(chain[u])
  BY LenProperties DEF MemInv, Typed
<1>5. \A x : <<it>> = <<x>> /\ x.type # 0 => Kcursors(x.type, 0 + 1) \in heap
  BY <1>1, <1>3 DEF Left
<1>6. \E x : <<it>> = <<x>> /\ Hangs(x, u, 0 + 1, chain[u])
  BY <1>3
<1>7. /\ these \in Seq(Iterator) /\ 0 <= Len(these)
      /\ \A i \in 1..0 : Stays(chain[u][i], these[i])
      /\ Becomes(u, these, 0, <<it>>, left)
  BY <1>3
<1> HIDE DEF these, left
<1>8. Replaces(u, 0) /\ Len(chain'[u]) = 0 + Len(<<it>>)
  BY <1>2, <1>4, <1>5, <1>6, <1>7, BecomesReplaces
<1> QED
  BY <1>3, <1>8

\* A step that reads a child: the array of its merge is on the heap.
LEMMA DescendsReplaces ==
  ASSUME MemInv, NEW u \in Users, NEW d \in 1..Len(chain[u]), ~Leaf(chain[u], d),
         Descends(u, chain[u], d)
  PROVE  Replaces(u, d) /\ Len(chain'[u]) = d + 1
<1> DEFINE it == Child(u, chain[u], d)
           these == At(chain[u], d)
           left == {Kcursors(chain[u][d].type, d + 1)}
<1>1. Becomes(u, these, d, <<it>>, left)
  BY DEF Descends
<1>2. chain[u] \in Seq(Iterator) /\ Len(chain[u]) \in Nat /\ d + 1 \in Nat
  BY LenProperties DEF MemInv, Typed
<1>3. chain[u][d].type \in 0..Trees
  <2>1. chain[u][d] \in Iterator
    BY <1>2, ElementOfSeq
  <2> QED
    BY <2>1 DEF Iterator
<1>4. Hangs(it, u, d + 1, chain[u]) /\ it.type = chain[u][d].type
  BY ChildHangs DEF Child
<1>5. /\ these \in Seq(Iterator) /\ Len(these) = Len(chain[u])
      /\ \A i \in 1..Len(chain[u]) : Stays(chain[u][i], these[i])
  BY AtStays
<1>6. \A b \in left : IsKcursors(b) /\ b \in Blocks
  BY <1>2, <1>3, Names
<1>7. \A x : <<it>> = <<x>> /\ x.type # 0 => Kcursors(x.type, d + 1) \in left
  <2>1. \A x : <<it>> = <<x>> => x.type = chain[u][d].type
    BY <1>4
  <2> QED
    BY <2>1
<1> HIDE DEF it, these, left
<1>8. d \in 0..Len(chain[u]) /\ d <= Len(these) /\ \A i \in 1..d : Stays(chain[u][i], these[i])
  BY <1>2, <1>5
<1>9. Replaces(u, d) /\ Len(chain'[u]) = d + Len(<<it>>)
  BY <1>1, <1>4, <1>5, <1>6, <1>7, <1>8, BecomesReplaces
<1>10. Len(<<it>>) = 1
  OBVIOUS
<1> QED
  BY <1>9, <1>10

\* A step that allocates and frees nothing.
LEMMA LooksReplaces ==
  ASSUME MemInv, NEW u \in Users, heap' = heap,
         \/ chain' = chain
         \/ \E d \in 1..Len(chain[u]) : chain' = [chain EXCEPT ![u] = At(chain[u], d)]
  PROVE  /\ Replaces(u, Len(chain[u])) /\ Len(chain'[u]) = Len(chain[u])
         /\ chain[u] # <<>> => chain'[u] # <<>> /\ Deepest(chain'[u]) = Deepest(chain[u])
<1>1. chain \in [Users -> Seq(Iterator)] /\ Len(chain[u]) \in Nat
  BY LenProperties DEF MemInv, Typed
<1>2. /\ chain' \in [Users -> Seq(Iterator)] /\ Len(chain'[u]) = Len(chain[u])
      /\ \A v \in Users \ {u} : chain'[v] = chain[v]
      /\ \A i \in 1..Len(chain[u]) : Stays(chain[u][i], chain'[u][i])
  <2>1. CASE chain' = chain
    <3>1. \A i \in 1..Len(chain[u]) : chain[u][i] \in Iterator
      BY <1>1, ElementOfSeq
    <3> QED
      BY <1>1, <2>1, <3>1 DEF Stays
  <2>2. ASSUME NEW d \in 1..Len(chain[u]), chain' = [chain EXCEPT ![u] = At(chain[u], d)]
        PROVE  <1>2!:
    BY <1>1, <2>2, AtStays
  <2> QED
    BY <2>1, <2>2
<1>3. \A b : b \in heap' <=>
        \/ b \in heap /\ ~ \E i \in (Len(chain[u]) + 1)..Len(chain[u]) : b \in Owned(chain[u][i])
        \/ Len(chain'[u]) = Len(chain[u]) + 1 /\ b \in Owned(chain'[u][Len(chain[u]) + 1])
  BY <1>1, <1>2
<1>4. chain[u] # <<>> => Len(chain[u]) \in 1..Len(chain[u]) /\ chain'[u] # <<>>
  BY <1>1, <1>2, EmptySeq
<1>5. chain[u] # <<>> => Deepest(chain'[u]) = Deepest(chain[u])
  BY <1>2, <1>4 DEF Stays, Deepest
<1>6. Len(chain'[u]) # Len(chain[u]) + 1 /\ heap \subseteq Blocks
  BY <1>1, <1>2 DEF MemInv, Typed
<1> QED
  BY <1>1, <1>2, <1>3, <1>4, <1>5, <1>6 DEF Replaces

-----------------------------------------------------------------------------
(* Opening and closing *)

\* Reading the superblock allocates it, once.
LEMMA ReadSuperblockKeeps ==
  ASSUME MemInv, ReadSuperblock
  PROVE  MemInv'
<1>1. Typed /\ Calls /\ Shaped /\ Accounted /\ ArraysLeft /\ RecordsKept /\ Staged
  BY DEF MemInv
<1>2. /\ stage = "new" /\ sb = NULL /\ sb' = Superblock /\ stage' = "trees"
      /\ \A t \in 1..Trees : begin[t] = CLEAN
      /\ \A u \in Users : chain[u] = <<>>
      /\ UNCHANGED <<begin, chain, running, active, made>>
      /\ heap' = heap \cup {Superblock}
  BY <1>1 DEF ReadSuperblock, Staged
<1>3. \A u \in Users : Len(chain[u]) = 0
  BY <1>2, EmptySeq
<1>4. Typed'
  BY <1>1, <1>2, Names DEF Typed
<1>5. Shaped' /\ Linked'
  BY <1>1, <1>2, <1>3 DEF Shaped, Linked, RootShape
<1>6. Accounted'
  <2>1. ({sb} \ {NULL}) = {} /\ ({sb'} \ {NULL}) = {Superblock}
    BY <1>2, Names
  <2>2. {b \in heap' : ~IsKcursors(b)} = {b \in heap : ~IsKcursors(b)} \cup {Superblock}
    BY <1>2, Names
  <2> QED
    BY <1>1, <1>2, <2>1, <2>2 DEF Accounted
<1>7. Calls'
  BY <1>1, <1>2 DEF Calls
<1>8. RecordsKept' /\ Staged'
  BY <1>1, <1>2, Names DEF RecordsKept, Staged
<1>9. ArraysLeft'
  BY <1>1, <1>2 DEF ArraysLeft, Left
<1> QED
  BY <1>4, <1>5, <1>6, <1>7, <1>8, <1>9 DEF MemInv

\* Reading the root of a btree gives it the iterator all others are copied from.
LEMMA ReadRootKeeps ==
  ASSUME MemInv, ReadRoot
  PROVE  MemInv'
<1>1. Typed /\ Calls /\ Shaped /\ Linked /\ Accounted /\ ArraysLeft /\ RecordsKept /\ Staged
  BY DEF MemInv
<1>2. PICK t \in Unread :
        /\ stage = "trees"
        /\ begin' = [begin EXCEPT ![t] =
             [type |-> t, self |-> NULL, node |-> New("begin", t, "node"),
              keys |-> New("begin", t, "keys"), into |-> New("begin", t, "node"),
              bkey |-> NULL, btree_ptr |-> sb]]
        /\ heap' = heap \cup Owned(begin'[t]) \cup {Kcursors(t, 1)}
        /\ UNCHANGED <<stage, sb, chain, running, active, made>>
  BY DEF ReadRoot
<1>3. t \in 1..Trees /\ begin[t].node = NULL /\ Owned(begin[t]) = {}
  BY <1>1, RootOwns DEF Unread, Shaped
<1>4. \A u \in Users : chain[u] = <<>> /\ Len(chain[u]) = 0
  BY <1>1, <1>2, EmptySeq DEF Staged
<1>5. ASSUME NEW holds \in {"node", "keys"}
      PROVE  New("begin", t, holds) = [of |-> "begin", level |-> t, holds |-> holds, no |-> 0]
  <2> DEFINE b == [of |-> "begin", level |-> t, holds |-> holds, no |-> 0]
  <2> HIDE DEF b
  <2>1. b # Superblock /\ b # NULL /\ b.of = "begin" /\ b.level = t /\ ~IsKcursors(b)
    BY <1>3, Names DEF b
  <2>2. \A r \in 1..Trees : \A x \in Owned(begin[r]) : x.level = r
    BY <1>1, RootOwns DEF Shaped
  <2>3. b \notin heap
    BY <1>1, <1>3, <1>4, <2>1, <2>2, OnHeap DEF Typed
  <2> QED
    BY <2>3 DEF New, b
<1> DEFINE it == [type |-> t, self |-> NULL,
                  node |-> [of |-> "begin", level |-> t, holds |-> "node", no |-> 0],
                  keys |-> [of |-> "begin", level |-> t, holds |-> "keys", no |-> 0],
                  into |-> [of |-> "begin", level |-> t, holds |-> "node", no |-> 0],
                  bkey |-> NULL, btree_ptr |-> sb]
<1>6. RootShape(it, t) /\ it \in Iterator
  <2>1. \A holds \in {"node", "keys"} :
          [of |-> "begin", level |-> t, holds |-> holds, no |-> 0] \in Blocks
    BY <1>3, Names
  <2>2. sb \in Blocks \cup {NULL} /\ t \in 0..Trees
    BY <1>1, <1>3, Names DEF Typed
  <2>3. it \in Iterator
    BY <2>1, <2>2 DEF Iterator
  <2> QED
    BY <2>3 DEF RootShape
<1>7. begin' = [begin EXCEPT ![t] = it]
  BY <1>2, <1>5
<1> HIDE DEF it
<1>8. /\ begin' \in [1..Trees -> Iterator] /\ begin'[t] = it
      /\ \A r \in 1..Trees \ {t} : begin'[r] = begin[r]
  BY <1>1, <1>3, <1>6, <1>7 DEF Typed
<1>9. Shaped' /\ Linked'
  <2>1. \A r \in 1..Trees : RootShape(begin'[r], r)
    BY <1>1, <1>6, <1>8 DEF Shaped
  <2>2. \A r \in 1..Trees : RootShape(begin[r], r)'
    BY <1>2, <2>1 DEF RootShape, CLEAN
  <2> QED
    BY <1>2, <1>4, <2>2 DEF Shaped, Linked
<1>10. Accounted'
  <2>1. UNION {Owned(begin'[r]) : r \in 1..Trees}
          = (UNION {Owned(begin[r]) : r \in 1..Trees}) \cup Owned(begin'[t])
    BY <1>3, <1>8
  <2>2. \A b \in Owned(begin'[t]) : ~IsKcursors(b)
    BY <1>3, <1>6, <1>8, RootOwns
  <2>3. {b \in heap' : ~IsKcursors(b)} = {b \in heap : ~IsKcursors(b)} \cup Owned(begin'[t])
    BY <1>2, <2>2 DEF IsKcursors, Kcursors
  <2> QED
    BY <1>1, <1>2, <2>1, <2>3 DEF Accounted
<1>11. Typed'
  <2>1. Owned(begin'[t]) \subseteq Blocks
    BY <1>3, <1>6, <1>8, RootOwns
  <2>2. Kcursors(t, 1) \in Blocks
    BY <1>3, Names
  <2> QED
    BY <1>1, <1>2, <1>8, <2>1, <2>2 DEF Typed
<1>12. Calls' /\ RecordsKept' /\ Staged'
  BY <1>1, <1>2 DEF Calls, RecordsKept, Staged
<1>13. ArraysLeft'
  <2>1. ASSUME NEW r \in 1..Trees PROVE Left(begin[r], 1)'
    <3>1. CASE r = t
      BY <1>2, <1>8, <3>1 DEF Left, it
    <3>2. CASE r # t
      BY <1>1, <1>2, <1>8, <3>2 DEF ArraysLeft, Left
    <3> QED
      BY <3>1, <3>2
  <2> QED
    BY <1>2, <1>4, <2>1 DEF ArraysLeft
<1> QED
  BY <1>9, <1>10, <1>11, <1>12, <1>13 DEF MemInv

\* Closing frees the superblock, the roots and the search, and nothing of a client.
LEMMA ClosedKeeps ==
  ASSUME MemInv, Closed(begin)
  PROVE  MemInv'
<1>1. Typed /\ Calls /\ Shaped /\ Linked /\ Accounted /\ ArraysLeft /\ RecordsKept /\ Staged
  BY DEF MemInv
<1>2. /\ stage' = "closed" /\ sb' = NULL /\ active' = 0 /\ running' = None
      /\ begin' = [t \in 1..Trees |-> CLEAN]
      /\ chain' = [chain EXCEPT ![Search] = <<>>]
      /\ made' = [made EXCEPT ![Search] = NULL]
      /\ heap' = heap \ ({sb} \cup OwnedIn(begin) \cup Fini(chain[Search], 1))
  BY DEF Closed
<1>3. Search \in Users /\ None # Search /\ None \notin Users
  BY TreesAssumption DEF Users
<1>4. /\ chain' \in [Users -> Seq(Iterator)] /\ chain'[Search] = <<>> /\ Len(chain'[Search]) = 0
      /\ \A u \in Users \ {Search} : chain'[u] = chain[u] /\ made'[u] = made[u]
      /\ made'[Search] = NULL /\ made' \in [Users -> Blocks \cup {NULL}]
      /\ \A u \in Users : \A d \in 1..Len(chain'[u]) : u # Search /\ d \in 1..Len(chain[u])
  <2>1. /\ chain' \in [Users -> Seq(Iterator)] /\ chain'[Search] = <<>> /\ Len(chain'[Search]) = 0
        /\ \A u \in Users \ {Search} : chain'[u] = chain[u] /\ made'[u] = made[u]
        /\ made'[Search] = NULL /\ made' \in [Users -> Blocks \cup {NULL}]
    BY <1>1, <1>2, <1>3, EmptySeq DEF Typed
  <2>2. \A d \in 1..Len(chain'[Search]) : FALSE
    BY <2>1
  <2> QED
    BY <2>1, <2>2
<1>5. CLEAN \in Iterator /\ Owned(CLEAN) = {}
  <2>1. CLEAN \in Iterator
    BY TreesAssumption DEF CLEAN, Iterator
  <2>2. CLEAN.self = NULL /\ CLEAN.node = NULL /\ CLEAN.keys = NULL
    BY DEF CLEAN
  <2> QED
    BY <2>1, <2>2 DEF Owned
<1>6. \A u \in Users : Len(chain[u]) \in Nat /\ Len(chain'[u]) \in Nat
  BY <1>1, <1>4, LenProperties DEF Typed
<1>7. ASSUME NEW b
      PROVE  b \in heap' /\ ~IsKcursors(b) <=>
               \E u \in Users : \E d \in 1..Len(chain'[u]) : b \in Owned(chain'[u][d])
  <2> DEFINE root == \E t \in 1..Trees : b \in Owned(begin[t])
             found == \E d \in 1..Len(chain[Search]) : b \in Owned(chain[Search][d])
             client == \E u \in Users \ {Search} : \E d \in 1..Len(chain[u]) : b \in Owned(chain[u][d])
  <2>1. b \in OwnedIn(begin) <=> root
    BY <1>1 DEF OwnedIn, Typed
  <2>2. b \in Fini(chain[Search], 1) <=> found
    BY <1>3, <1>6, FiniFrees
  <2>3. b \in heap /\ ~IsKcursors(b) <=> (b = sb /\ sb # NULL) \/ root \/ found \/ client
    BY <1>1, <1>3, OnHeap
  <2>4. root => b.of = "begin"
    BY <1>1, RootOwns DEF Shaped
  <2>5. found => b.of = Search
    BY <1>1, <1>3, <1>6, LinkOwns DEF Shaped
  <2>6. client => b.of # Search /\ b.of # "begin" /\ b # NULL /\ b # Superblock
    BY <1>1, <1>6, LinkOwns DEF Shaped
  <2>7. client <=> \E u \in Users : \E d \in 1..Len(chain'[u]) : b \in Owned(chain'[u][d])
    BY <1>3, <1>4
  <2>8. client => b # sb
    BY <1>1, <2>6 DEF Typed
  <2> HIDE DEF root, found, client
  <2> QED
    BY <1>2, <2>1, <2>2, <2>3, <2>4, <2>5, <2>6, <2>7, <2>8
<1>8. Accounted'
  <2>1. \A u \in Users : DOMAIN chain'[u] = 1..Len(chain'[u])
    BY <1>4, LenProperties
  <2>2. UNION {Owned(begin'[t]) : t \in 1..Trees} = {}
    BY <1>2, <1>5
  <2>3. {b \in heap' : ~IsKcursors(b)} = UNION {OwnedIn(chain'[u]) : u \in Users}
    BY <1>7, <2>1 DEF OwnedIn
  <2> QED
    BY <1>2, <2>2, <2>3 DEF Accounted
<1>9. Shaped'
  <2>1. \A t \in 1..Trees : RootShape(begin[t], t)'
    BY <1>2 DEF RootShape, CLEAN
  <2>2. \A u \in Users : \A d \in 1..Len(chain'[u]) : LinkShape(chain'[u][d], u, d)
    BY <1>1, <1>4 DEF Shaped
  <2>3. \A u \in Users : \A d \in 1..Len(chain'[u]) : LinkShape(chain[u][d], u, d)'
    BY <2>2 DEF LinkShape, Place
  <2> QED
    BY <2>1, <2>3 DEF Shaped
<1>10. Linked'
  <2> SUFFICES ASSUME NEW u \in Users, NEW d \in 1..Len(chain'[u]), d # 1
               PROVE  chain'[u][d].btree_ptr = chain'[u][d - 1].node
    BY <1>2 DEF Linked
  <2>1. u # Search
    BY <1>4
  <2> QED
    BY <1>1, <1>4, <2>1 DEF Linked
<1>11. Typed'
  <2>1. begin' \in [1..Trees -> Iterator]
    BY <1>2, <1>5
  <2>2. heap' \subseteq Blocks
    BY <1>1, <1>2 DEF Typed
  <2>3. \A u \in Users : \A d \in 1..Len(chain'[u]) :
          /\ chain'[u][d].type = chain'[u][1].type
          /\ chain'[u][1].type # 0 => d <= Levels[chain'[u][1].type]
    <3> SUFFICES ASSUME NEW u \in Users, NEW d \in 1..Len(chain'[u])
                 PROVE  /\ chain'[u][d].type = chain'[u][1].type
                        /\ chain'[u][1].type # 0 => d <= Levels[chain'[u][1].type]
      OBVIOUS
    <3>1. chain'[u] = chain[u] /\ d \in 1..Len(chain[u])
      BY <1>4
    <3> QED
      BY <1>1, <3>1 DEF Typed
  <2> QED
    BY <1>2, <1>4, <2>1, <2>2, <2>3 DEF Typed
<1>12. RecordsKept'
  BY <1>1, <1>4 DEF RecordsKept, Deepest
<1>13. Calls' /\ Staged'
  BY <1>2, <1>3, <1>4 DEF Calls, Staged
<1>14. ASSUME NEW t \in 0..Trees, NEW d \in Nat, Kcursors(t, d) \in heap
       PROVE  Kcursors(t, d) \in heap'
  <2> DEFINE b == Kcursors(t, d)
  <2>1. IsKcursors(b) /\ b # NULL /\ b # Superblock
    BY Names
  <2>2. b \notin OwnedIn(begin)
    <3>1. \A r \in 1..Trees : b \notin Owned(begin[r])
      BY <1>1, <2>1, RootOwns DEF Shaped
    <3> QED
      BY <1>1, <3>1 DEF OwnedIn, Typed
  <2>3. b \notin Fini(chain[Search], 1)
    <3>1. \A i \in 1..Len(chain[Search]) : b \notin Owned(chain[Search][i])
      BY <1>1, <1>3, <1>6, <2>1, LinkOwns DEF Shaped
    <3>2. 1 \in 1..(Len(chain[Search]) + 1)
      BY <1>3, <1>6
    <3> HIDE DEF b
    <3>3. b \in Fini(chain[Search], 1) <=> \E i \in 1..Len(chain[Search]) : b \in Owned(chain[Search][i])
      BY <1>3, <3>2, FiniFrees
    <3> QED
      BY <3>1, <3>3
  <2> QED
    BY <1>1, <1>2, <1>14, <2>1, <2>2, <2>3 DEF Typed
<1>15. ArraysLeft'
  <2>1. \A t \in 1..Trees : Left(begin[t], 1)'
    BY <1>2 DEF Left, CLEAN
  <2>2. ASSUME NEW u \in Users, NEW d \in 1..Len(chain'[u])
        PROVE  chain'[u][d].type # 0 => Kcursors(chain'[u][d].type, d) \in heap'
    <3>1. chain'[u] = chain[u] /\ d \in 1..Len(chain[u]) /\ d \in Nat
      BY <1>4, <1>6
    <3>2. chain[u][d].type \in 0..Trees
      <4>1. chain[u][d] \in Iterator
        BY <1>1, <3>1, ElementOfSeq DEF Typed
      <4> QED
        BY <4>1 DEF Iterator
    <3> QED
      BY <1>1, <1>14, <3>1, <3>2 DEF ArraysLeft, Left
  <2> QED
    BY <2>1, <2>2 DEF ArraysLeft, Left
<1> QED
  BY <1>8, <1>9, <1>10, <1>11, <1>12, <1>13, <1>15 DEF MemInv

-----------------------------------------------------------------------------
(* Searches *)

\* A search step changes the iterators of the search and nothing else that is
\* allocated.
LEMMA SearchKeeps ==
  ASSUME MemInv, NEW d, Replaces(Search, d), Calls',
         sb' = sb /\ begin' = begin,
         made' = made \/ \E b : made' = [made EXCEPT ![Search] = b],
         made'[Search] \in Blocks \cup {NULL},
         made'[Search] # NULL => chain'[Search] # <<>> /\ made'[Search] = Deepest(chain'[Search]),
         stage \in {"trees", "root", "open"}, stage' \in {"root", "open"}
  PROVE  MemInv'
<1>1. Search \in Users /\ made \in [Users -> Blocks \cup {NULL}]
  BY DEF Users, MemInv, Typed
<1>2. sb # NULL
  <2>1. stage \in {"trees", "root", "open"} => sb # NULL
    BY Names DEF MemInv, Staged
  <2> QED
    BY <2>1
<1>3. /\ made' \in [Users -> Blocks \cup {NULL}]
      /\ \A v \in Users \ {Search} : made'[v] = made[v]
  BY <1>1
<1>4. Changes(Search, d)
  BY <1>2, <1>3 DEF Changes
<1> QED
  BY <1>1, <1>4, Changed

\* At first the iterator of the search is of no btree.
LEMMA OpenIterKeeps ==
  ASSUME MemInv, OpenIter
  PROVE  MemInv'
<1> DEFINE it == [CLEAN EXCEPT !.self = New(Search, 1, "self")]
<1>1. Typed /\ Calls /\ RecordsKept /\ Staged /\ Search \in Users
  BY DEF MemInv, Users
<1>2. /\ stage = "trees" /\ stage' = "root"
      /\ chain' = [chain EXCEPT ![Search] = <<it>>]
      /\ heap' = heap \cup OwnedIn(chain'[Search])
      /\ UNCHANGED <<sb, begin, running, active, made>>
  BY DEF OpenIter
<1>3. chain[Search] = <<>> /\ Len(chain[Search]) = 0
  BY <1>1, <1>2, EmptySeq DEF Staged
<1>4. /\ it \in Iterator /\ it.self = New(Search, 1, "self") /\ it.node = NULL /\ it.keys = NULL
      /\ it.into = NULL /\ it.bkey = NULL /\ it.btree_ptr = NULL /\ it.type = 0
  <2>1. New(Search, 1, "self") \in Blocks
    BY <1>1, NewFacts
  <2> QED
    BY <2>1, TreesAssumption DEF CLEAN, Iterator
<1> HIDE DEF it
<1>5. Hangs(it, Search, 1, chain[Search])
  <2>1. New(Search, 1, "self") \in Place(Search, 1, "self")
    BY <1>1, NewFacts
  <2> QED
    BY <1>4, <2>1 DEF Hangs, LinkShape
<1>6. /\ <<it>> \in Seq(Iterator) /\ Len(<<it>>) = 1 /\ <<it>>[1] = it /\ DOMAIN <<it>> = {1}
  BY <1>4
<1>7. /\ chain' \in [Users -> Seq(Iterator)] /\ chain'[Search] = <<it>>
      /\ \A v \in Users \ {Search} : chain'[v] = chain[v]
  BY <1>1, <1>2, <1>6 DEF Typed
<1>8. OwnedIn(chain'[Search]) = Owned(it)
  BY <1>6, <1>7 DEF OwnedIn
<1>9. Len(chain'[Search]) = 1 /\ chain'[Search][1] = it
  BY <1>6, <1>7
<1>10. Replaces(Search, 0)
  <2>1. \A i \in 1..0 : FALSE
    OBVIOUS
  <2>2. 0 + 1 = 1 /\ 0 \in 0..0
    OBVIOUS
  <2>3. \A b \in Owned(it) : ~IsKcursors(b) /\ b \in Blocks
    BY <1>1, <1>5, <2>2, LinkOwns DEF Hangs
  <2>4. heap' = heap \cup Owned(it) /\ heap \subseteq Blocks
    BY <1>1, <1>2, <1>8 DEF Typed
  <2> QED
    BY <1>3, <1>4, <1>5, <1>7, <1>9, <2>1, <2>2, <2>3, <2>4 DEF Replaces
<1>11. made[Search] = NULL
  BY <1>1, <1>3 DEF RecordsKept
<1>12. active = 0 /\ running # Search
  <2>1. ~(active > 0) /\ active \in 0..0
    BY <1>1, <1>2, <1>3 DEF Calls
  <2> QED
    BY <1>1, <2>1 DEF Calls
<1>13. Calls'
  BY <1>1, <1>2, <1>9, <1>12 DEF Calls
<1> QED
  BY <1>2, <1>10, <1>11, <1>13, SearchKeeps

\* A search begins at the iterator it keeps for its btree, or at a new one.
LEMMA FindBeginsKeeps ==
  ASSUME MemInv, FindBegins
  PROVE  MemInv'
<1>1. PICK t \in 1..Trees :
        /\ stage = "open" \/ stage = "root"
        /\ Becomes(Search, <<>>, 0, <<Copy(Search, begin[t])>>, {})
        /\ running' = Search /\ active' = 1
        /\ made' = [made EXCEPT ![Search] = NULL]
        /\ UNCHANGED <<stage, sb, begin>>
  BY DEF FindBegins
<1>2. Search \in Users /\ Len(chain[Search]) \in Nat /\ made \in [Users -> Blocks \cup {NULL}]
  BY LenProperties DEF MemInv, Typed, Users
<1> DEFINE it == Copy(Search, begin[t])
<1>3. Hangs(it, Search, 1, chain[Search]) /\ Left(it, 1)
  BY <1>2, CopyHangs
<1> HIDE DEF it
<1>4. Becomes(Search, <<>>, 0, <<it>>, {})
  BY <1>1 DEF it
<1>5. Replaces(Search, 0) /\ Len(chain'[Search]) = 1
  BY <1>2, <1>3, <1>4, CopyReplaces
<1>6. made'[Search] = NULL
  BY <1>1, <1>2
<1>7. Calls'
  BY <1>1, <1>2, <1>5, <1>6 DEF Calls
<1> QED
  BY <1>1, <1>5, <1>6, <1>7, SearchKeeps

\* During a search there is no record yet, and the level is one of its iterators.
LEMMA Searching ==
  ASSUME MemInv, active > 0
  PROVE  /\ active \in 1..Len(chain[Search]) /\ active \in Nat /\ Len(chain[Search]) \in Nat
         /\ Search \in Users /\ running = Search /\ stage \in {"root", "open"}
         /\ made[Search] = NULL /\ None # Search /\ None \notin Users
BY LenProperties, TreesAssumption DEF MemInv, Calls, Typed, Users

\* It frees what an earlier search left below, and reads a child.
LEMMA FindDescendsKeeps ==
  ASSUME MemInv, FindDescends
  PROVE  MemInv'
<1>1. /\ active > 0 /\ ~Leaf(chain[Search], active)
      /\ Descends(Search, chain[Search], active)
      /\ active' = active + 1
      /\ UNCHANGED <<stage, sb, begin, running, made>>
  BY DEF FindDescends, its
<1>2. /\ active \in 1..Len(chain[Search]) /\ active \in Nat /\ Len(chain[Search]) \in Nat
      /\ Search \in Users /\ running = Search /\ stage \in {"root", "open"}
      /\ made[Search] = NULL
  BY <1>1, Searching
<1>3. Replaces(Search, active) /\ Len(chain'[Search]) = active + 1
  BY <1>1, <1>2, DescendsReplaces
<1>4. Calls'
  BY <1>1, <1>2, <1>3 DEF Calls
<1> QED
  BY <1>1, <1>2, <1>3, <1>4, SearchKeeps

\* It stops at a key and leaves its iterators for the next search.
LEMMA FindStopsKeeps ==
  ASSUME MemInv, FindStops
  PROVE  MemInv'
<1> DEFINE these == At(its, active)
<1>1. /\ active > 0 /\ Becomes(Search, these, active, <<>>, {})
      /\ active' = active - 1 /\ running' = IF active = 1 THEN None ELSE Search
      /\ UNCHANGED <<stage, sb, begin, made>>
  BY DEF FindStops, FindReturns, its
<1>2. /\ active \in 1..Len(chain[Search]) /\ active \in Nat /\ Len(chain[Search]) \in Nat
      /\ Search \in Users /\ running = Search /\ stage \in {"root", "open"}
      /\ made[Search] = NULL /\ None # Search
  BY <1>1, Searching
<1>3. /\ these \in Seq(Iterator) /\ Len(these) = Len(chain[Search])
      /\ \A i \in 1..Len(chain[Search]) : Stays(chain[Search][i], these[i])
  BY <1>2, AtStays DEF its
<1> HIDE DEF these
<1>4. /\ active \in 0..Len(chain[Search]) /\ active <= Len(these) /\ Len(<<>>) = 0
      /\ \A i \in 1..active : Stays(chain[Search][i], these[i])
  BY <1>2, <1>3
<1>5. Replaces(Search, active) /\ Len(chain'[Search]) = active + Len(<<>>)
  BY <1>1, <1>2, <1>3, <1>4, FreesReplaces
<1>6. Calls'
  BY <1>1, <1>2, <1>4, <1>5 DEF Calls
<1> QED
  BY <1>1, <1>2, <1>5, <1>6, SearchKeeps

\* It gives up below a node and goes back to the parent.
LEMMA FindMissesKeeps ==
  ASSUME MemInv, FindMisses
  PROVE  MemInv'
<1>1. /\ active > 0
      /\ active' = active - 1 /\ running' = IF active = 1 THEN None ELSE Search
      /\ UNCHANGED <<stage, sb, begin, chain, made, heap>>
  BY DEF FindMisses, FindReturns
<1>2. /\ active \in 1..Len(chain[Search]) /\ active \in Nat /\ Len(chain[Search]) \in Nat
      /\ Search \in Users /\ running = Search /\ stage \in {"root", "open"}
      /\ made[Search] = NULL /\ None # Search
  BY <1>1, Searching
<1>3. Replaces(Search, Len(chain[Search]))
  BY <1>1, <1>2, LooksReplaces
<1>4. Calls'
  BY <1>1, <1>2 DEF Calls
<1> QED
  BY <1>1, <1>2, <1>3, <1>4, SearchKeeps

\* The record points into the node of the last iterator, which is the leaf's.
LEMMA FindHitsKeeps ==
  ASSUME MemInv, FindHits
  PROVE  MemInv'
<1>1. /\ active > 0
      /\ chain' = [chain EXCEPT ![Search] = At(chain[Search], active)]
      /\ made' = [made EXCEPT ![Search] = Deepest(chain[Search])]
      /\ active' = 0 /\ running' = None /\ stage' \in {stage, "open"}
      /\ UNCHANGED <<sb, begin, heap>>
  BY DEF FindHits, its
<1>2. /\ active \in 1..Len(chain[Search]) /\ active \in Nat /\ Len(chain[Search]) \in Nat
      /\ Search \in Users /\ running = Search /\ stage \in {"root", "open"}
      /\ None # Search
  BY <1>1, Searching
<1>3. /\ Replaces(Search, Len(chain[Search])) /\ Len(chain'[Search]) = Len(chain[Search])
      /\ chain[Search] # <<>> =>
           chain'[Search] # <<>> /\ Deepest(chain'[Search]) = Deepest(chain[Search])
  BY <1>1, <1>2, LooksReplaces
<1>4. chain[Search] # <<>> /\ Deepest(chain[Search]) \in Blocks \cup {NULL}
  <2>1. chain[Search] # <<>> /\ Len(chain[Search]) \in 1..Len(chain[Search])
    BY <1>2, EmptySeq
  <2>2. chain[Search][Len(chain[Search])] \in Iterator
    BY <1>2, <2>1, ElementOfSeq DEF MemInv, Typed
  <2> QED
    BY <2>1, <2>2 DEF Deepest, Iterator
<1>5. made'[Search] = Deepest(chain[Search])
  BY <1>1, <1>2 DEF MemInv, Typed
<1>6. Calls'
  BY <1>1, <1>2, <1>3 DEF Calls
<1> QED
  BY <1>1, <1>2, <1>3, <1>4, <1>5, <1>6, SearchKeeps

-----------------------------------------------------------------------------
(* Iterations *)

\* A client's step changes its own iterators and its own record.
LEMMA ClientKeeps ==
  ASSUME MemInv, NEW c \in Clients, NEW d, Replaces(c, d),
         running \in {None, c}, running' \in {None, c}, active' = active,
         sb' = sb /\ begin' = begin,
         stage \in {"open", "closed"}, stage' \in {stage, "crashed"},
         made' = made \/ \E b : made' = [made EXCEPT ![c] = b],
         made'[c] \in Blocks \cup {NULL},
         made'[c] # NULL => chain'[c] # <<>> /\ made'[c] = Deepest(chain'[c])
  PROVE  MemInv'
<1>1. /\ c \in Users /\ Search \in Users /\ c # Search /\ None # Search
      /\ made \in [Users -> Blocks \cup {NULL}] /\ active \in 0..Len(chain[Search])
      /\ active > 0 <=> running = Search
      /\ stage \in {"root", "open"} => sb # NULL
  BY TreesAssumption DEF Users, MemInv, Typed, Calls, Staged
<1>2. /\ made' \in [Users -> Blocks \cup {NULL}]
      /\ \A v \in Users \ {c} : made'[v] = made[v]
  BY <1>1
<1>3. chain'[Search] = chain[Search]
  BY <1>1 DEF Replaces
<1>4. Calls'
  BY <1>1, <1>3 DEF Calls
<1>5. Changes(c, d)
  BY <1>1, <1>2, <1>4 DEF Changes
<1> QED
  BY <1>1, <1>5, Changed

\* What the actions of a client have in common.
LEMMA Iterating ==
  ASSUME MemInv, NEW c \in Clients, Iterates(c)
  PROVE  /\ c \in Users /\ stage \in {"open", "closed"} /\ running \in {None, c}
         /\ chain[c] # <<>> /\ chain[c] \in Seq(Iterator) /\ Depth(c) = Len(chain[c])
         /\ Len(chain[c]) \in Nat /\ Len(chain[c]) \in 1..Len(chain[c])
         /\ made \in [Users -> Blocks \cup {NULL}]
         /\ Deepest(chain[c]) \in Blocks \cup {NULL}
<1>1. /\ c \in Users /\ stage \in {"open", "closed"} /\ running \in {None, c}
      /\ chain[c] # <<>> /\ chain[c] \in Seq(Iterator) /\ Depth(c) = Len(chain[c])
      /\ made \in [Users -> Blocks \cup {NULL}]
  BY DEF Iterates, MemInv, Typed, Users, Depth
<1>2. Len(chain[c]) \in Nat /\ Len(chain[c]) \in 1..Len(chain[c])
  BY <1>1, LenProperties, EmptySeq
<1>3. chain[c][Len(chain[c])] \in Iterator
  BY <1>1, <1>2, ElementOfSeq
<1> QED
  BY <1>1, <1>2, <1>3 DEF Deepest, Iterator

\* An iteration begins at a copy of the root.
LEMMA IterBeginsKeeps ==
  ASSUME MemInv, NEW c \in Clients, IterBegins(c)
  PROVE  MemInv'
<1>1. PICK t \in 1..Trees :
        /\ stage = "open" /\ running = None /\ chain[c] = <<>>
        /\ Becomes(c, <<>>, 0, <<Copy(c, begin[t])>>, {})
        /\ UNCHANGED <<stage, sb, begin, running, active, made>>
  BY DEF IterBegins
<1>2. c \in Users /\ Len(chain[c]) \in Nat /\ made[c] = NULL
  BY <1>1, LenProperties DEF MemInv, Typed, Users, RecordsKept
<1> DEFINE it == Copy(c, begin[t])
<1>3. Hangs(it, c, 1, chain[c]) /\ Left(it, 1)
  BY <1>2, CopyHangs
<1> HIDE DEF it
<1>4. Becomes(c, <<>>, 0, <<it>>, {})
  BY <1>1 DEF it
<1>5. Replaces(c, 0)
  BY <1>2, <1>3, <1>4, CopyReplaces
<1> QED
  BY <1>1, <1>2, <1>5, ClientKeeps

\* A key of a leaf is returned and nothing allocated.
LEMMA IterYieldsKeeps ==
  ASSUME MemInv, NEW c \in Clients, IterYields(c)
  PROVE  MemInv'
<1>1. /\ Iterates(c) /\ chain' = [chain EXCEPT ![c] = At(chain[c], Depth(c))]
      /\ made' = [made EXCEPT ![c] = Deepest(chain[c])] /\ running' = None
      /\ UNCHANGED <<stage, sb, begin, active, heap>>
  BY DEF IterYields
<1>2. /\ c \in Users /\ stage \in {"open", "closed"} /\ running \in {None, c}
      /\ chain[c] # <<>> /\ Depth(c) = Len(chain[c])
      /\ Len(chain[c]) \in 1..Len(chain[c])
      /\ made \in [Users -> Blocks \cup {NULL}]
      /\ Deepest(chain[c]) \in Blocks \cup {NULL}
  BY <1>1, Iterating
<1>3. /\ Replaces(c, Len(chain[c]))
      /\ chain'[c] # <<>> /\ Deepest(chain'[c]) = Deepest(chain[c])
  BY <1>1, <1>2, LooksReplaces
<1>4. made'[c] = Deepest(chain[c])
  BY <1>1, <1>2
<1> QED
  BY <1>1, <1>2, <1>3, <1>4, ClientKeeps

\* A child node is read.
LEMMA IterDescendsKeeps ==
  ASSUME MemInv, NEW c \in Clients, IterDescends(c)
  PROVE  MemInv'
<1>1. /\ Iterates(c) /\ ~Leaf(chain[c], Depth(c))
      /\ Descends(c, chain[c], Depth(c))
      /\ made' = [made EXCEPT ![c] = NULL] /\ running' = c
      /\ UNCHANGED <<stage, sb, begin, active>>
  BY DEF IterDescends
<1>2. /\ c \in Users /\ stage \in {"open", "closed"} /\ running \in {None, c}
      /\ Depth(c) = Len(chain[c]) /\ Len(chain[c]) \in 1..Len(chain[c])
      /\ made \in [Users -> Blocks \cup {NULL}]
  BY <1>1, Iterating
<1>3. Replaces(c, Depth(c))
  BY <1>1, <1>2, DescendsReplaces
<1>4. made'[c] = NULL
  BY <1>1, <1>2
<1> QED
  BY <1>1, <1>2, <1>3, <1>4, ClientKeeps

\* A child node is not read, and what was made for it freed.
LEMMA IterDescendFailsKeeps ==
  ASSUME MemInv, NEW c \in Clients, IterDescendFails(c)
  PROVE  MemInv'
<1>1. /\ Iterates(c) /\ chain' = [chain EXCEPT ![c] = At(chain[c], Depth(c))]
      /\ made' = [made EXCEPT ![c] = NULL] /\ running' = None
      /\ UNCHANGED <<stage, sb, begin, active, heap>>
  BY DEF IterDescendFails
<1>2. /\ c \in Users /\ stage \in {"open", "closed"} /\ running \in {None, c}
      /\ Depth(c) = Len(chain[c]) /\ Len(chain[c]) \in 1..Len(chain[c])
      /\ made \in [Users -> Blocks \cup {NULL}]
  BY <1>1, Iterating
<1>3. Replaces(c, Len(chain[c]))
  BY <1>1, <1>2, LooksReplaces
<1>4. made'[c] = NULL
  BY <1>1, <1>2
<1> QED
  BY <1>1, <1>2, <1>3, <1>4, ClientKeeps

\* The null pointer is that of the superblock; the iterators are as they were.
LEMMA IterCrashesKeeps ==
  ASSUME MemInv, NEW c \in Clients, IterCrashes(c)
  PROVE  MemInv'
<1>1. /\ Iterates(c) /\ stage' = "crashed"
      /\ UNCHANGED <<sb, begin, chain, running, active, made, heap>>
  BY DEF IterCrashes
<1>2. /\ c \in Users /\ stage \in {"open", "closed"} /\ running \in {None, c}
      /\ made \in [Users -> Blocks \cup {NULL}]
  BY <1>1, Iterating
<1>3. Replaces(c, Len(chain[c]))
  BY <1>1, <1>2, LooksReplaces
<1>4. /\ made[c] \in Blocks \cup {NULL}
      /\ made'[c] # NULL => chain'[c] # <<>> /\ made'[c] = Deepest(chain'[c])
  BY <1>1, <1>2 DEF MemInv, RecordsKept
<1> QED
  BY <1>1, <1>2, <1>3, <1>4, ClientKeeps

\* At the end of a node its iterator is freed.
LEMMA IterPopsKeeps ==
  ASSUME MemInv, NEW c \in Clients, IterPops(c)
  PROVE  MemInv'
<1>1. /\ Iterates(c) /\ Depth(c) > 1
      /\ Becomes(c, chain[c], Depth(c) - 1, <<>>, {})
      /\ made' = [made EXCEPT ![c] = NULL] /\ running' = c
      /\ UNCHANGED <<stage, sb, begin, active>>
  BY DEF IterPops
<1>2. /\ c \in Users /\ stage \in {"open", "closed"} /\ running \in {None, c}
      /\ chain[c] \in Seq(Iterator) /\ Depth(c) = Len(chain[c]) /\ Len(chain[c]) \in Nat
      /\ made \in [Users -> Blocks \cup {NULL}]
  BY <1>1, Iterating
<1>3. \A i \in 1..Len(chain[c]) : Stays(chain[c][i], chain[c][i])
  <2>1. \A i \in 1..Len(chain[c]) : chain[c][i] \in Iterator
    BY <1>2, ElementOfSeq
  <2> QED
    BY <2>1 DEF Stays
<1>4. /\ Depth(c) - 1 \in 0..Len(chain[c]) /\ Depth(c) - 1 <= Len(chain[c])
      /\ \A i \in 1..(Depth(c) - 1) : Stays(chain[c][i], chain[c][i])
  BY <1>1, <1>2, <1>3
<1>5. Replaces(c, Depth(c) - 1)
  BY <1>1, <1>2, <1>4, FreesReplaces
<1>6. made'[c] = NULL
  BY <1>1, <1>2
<1> QED
  BY <1>1, <1>2, <1>5, <1>6, ClientKeeps

\* The end of the iteration is reached.
LEMMA IterEndsKeeps ==
  ASSUME MemInv, NEW c \in Clients, IterEnds(c)
  PROVE  MemInv'
<1>1. /\ Iterates(c) /\ made' = [made EXCEPT ![c] = NULL] /\ running' = None
      /\ UNCHANGED <<stage, sb, begin, chain, active, heap>>
  BY DEF IterEnds
<1>2. /\ c \in Users /\ stage \in {"open", "closed"} /\ running \in {None, c}
      /\ made \in [Users -> Blocks \cup {NULL}]
  BY <1>1, Iterating
<1>3. Replaces(c, Len(chain[c]))
  BY <1>1, <1>2, LooksReplaces
<1>4. made'[c] = NULL
  BY <1>1, <1>2
<1> QED
  BY <1>1, <1>2, <1>3, <1>4, ClientKeeps

\* An iterator is released, with all that hangs from it.
LEMMA IterReleasedKeeps ==
  ASSUME MemInv, NEW c \in Clients, IterReleased(c)
  PROVE  MemInv'
<1>1. /\ Iterates(c) /\ Becomes(c, <<>>, 0, <<>>, {})
      /\ made' = [made EXCEPT ![c] = NULL]
      /\ UNCHANGED <<stage, sb, begin, running, active>>
  BY DEF IterReleased
<1>2. /\ c \in Users /\ stage \in {"open", "closed"} /\ running \in {None, c}
      /\ Len(chain[c]) \in Nat /\ made \in [Users -> Blocks \cup {NULL}]
  BY <1>1, Iterating
<1>3. /\ <<>> \in Seq(Iterator) /\ 0 <= Len(<<>>) /\ 0 \in 0..Len(chain[c])
      /\ \A i \in 1..0 : Stays(chain[c][i], <<>>[i])
  BY <1>2
<1>4. Replaces(c, 0)
  BY <1>1, <1>2, <1>3, FreesReplaces
<1>5. made'[c] = NULL
  BY <1>1, <1>2
<1> QED
  BY <1>1, <1>2, <1>4, <1>5, ClientKeeps

-----------------------------------------------------------------------------
(* The theorems *)

\* At first nothing is allocated.
LEMMA InitHolds == Init => MemInv
<1> SUFFICES ASSUME Init PROVE MemInv
  OBVIOUS
<1>1. /\ stage = "new" /\ sb = NULL /\ begin = [t \in 1..Trees |-> CLEAN]
      /\ chain = [u \in Users |-> <<>>] /\ running = None /\ active = 0
      /\ made = [u \in Users |-> NULL] /\ heap = {}
  BY DEF Init
<1>2. Search \in Users /\ None # Search
  BY TreesAssumption DEF Users
<1>3. \A u \in Users : chain[u] = <<>> /\ Len(chain[u]) = 0 /\ DOMAIN chain[u] = {}
  BY <1>1
<1>4. CLEAN \in Iterator
  BY TreesAssumption DEF CLEAN, Iterator
<1>5. Owned(CLEAN) = {}
  <2>1. CLEAN.self = NULL /\ CLEAN.node = NULL /\ CLEAN.keys = NULL
    BY DEF CLEAN
  <2> QED
    BY <2>1 DEF Owned
<1>6. Typed
  <2>1. chain \in [Users -> Seq(Iterator)]
    BY <1>1
  <2> QED
    BY <1>1, <1>3, <1>4, <2>1 DEF Typed
<1>7. Calls
  BY <1>1, <1>2, <1>3 DEF Calls
<1>8. Shaped /\ Linked
  BY <1>1, <1>3 DEF Shaped, Linked, RootShape
<1>9. Accounted
  <2>1. UNION {Owned(begin[t]) : t \in 1..Trees} = {}
    BY <1>1, <1>5
  <2>2. UNION {OwnedIn(chain[u]) : u \in Users} = {}
    BY <1>3 DEF OwnedIn
  <2> QED
    BY <1>1, <2>1, <2>2 DEF Accounted
<1>10. RecordsKept /\ Staged
  BY <1>1 DEF RecordsKept, Staged
<1>11. ArraysLeft
  BY <1>1, <1>3 DEF ArraysLeft, Left, CLEAN
<1> QED
  BY <1>6, <1>7, <1>8, <1>9, <1>10, <1>11 DEF MemInv

\* Every step keeps the invariant.
LEMMA StepKeeps ==
  ASSUME MemInv, Next
  PROVE  MemInv'
<1>1. CASE Open
  <2>1. CASE ReadSuperblock
    BY <2>1, ReadSuperblockKeeps
  <2>2. CASE ReadRoot
    BY <2>2, ReadRootKeeps
  <2>3. CASE OpenIter
    BY <2>3, OpenIterKeeps
  <2>4. CASE ReadSuperblockFails \/ ReadRootFails \/ OpenFails
    BY <2>4, ClosedKeeps DEF ReadSuperblockFails, ReadRootFails, OpenFails
  <2> QED
    BY <1>1, <2>1, <2>2, <2>3, <2>4 DEF Open
<1>2. CASE Close
  BY <1>2, ClosedKeeps DEF Close
<1>3. CASE Find
  BY <1>3, FindBeginsKeeps, FindDescendsKeeps, FindStopsKeeps, FindMissesKeeps, FindHitsKeeps
     DEF Find
<1>4. ASSUME NEW c \in Clients, Iterate(c) PROVE MemInv'
  BY <1>4, IterBeginsKeeps, IterYieldsKeeps, IterDescendsKeeps, IterDescendFailsKeeps,
     IterCrashesKeeps, IterPopsKeeps, IterEndsKeeps, IterReleasedKeeps DEF Iterate
<1> QED
  BY <1>1, <1>2, <1>3, <1>4 DEF Next

\* So does a step that changes nothing.
LEMMA StutterKeeps ==
  ASSUME MemInv, UNCHANGED vars
  PROVE  MemInv'
BY DEF vars, MemInv, Typed, Calls, Shaped, Linked, Accounted, ArraysLeft, Left, RecordsKept, Staged, RootShape,
       LinkShape, Place, Owned, OwnedIn, Deepest, CLEAN

\* The invariant holds however an image is opened, searched, iterated and closed.
THEOREM MemoryInvariant == Spec => []MemInv
<1>1. Init => MemInv
  BY InitHolds
<1>2. MemInv /\ [Next]_vars => MemInv'
  BY StepKeeps, StutterKeeps
<1> QED
  BY <1>1, <1>2, PTL DEF Spec

\* The iterators of a user go down one btree, no further than its leaves.
THEOREM MemoryTypeCorrect == Spec => []TypeOK
BY MemoryInvariant, InvType, PTL

\* No pointer of an iterator or of a record dangles while it can be used.
THEOREM PointersAlwaysLive == Spec => []PointersLive
BY MemoryInvariant, InvLive, PTL

\* Whatever is allocated has one owner, bar the arrays of cursors: those of the
\* nodes that are held have none and stay, nothing else leaks, and nothing is freed
\* twice.
THEOREM AlwaysOwnedOnce == Spec => []OwnedOnce
BY MemoryInvariant, InvOwned, PTL
=============================================================================
