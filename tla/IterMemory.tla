------------------------------ MODULE IterMemory ------------------------------
(***************************************************************************)
(* The memory behind an open image: the superblock, the iterator of each   *)
(* btree's root, the iterators of a search, and those of the clients that  *)
(* iterate.  An iterator owns a copy of its node and an array of pointers  *)
(* to the keys in it; it is reached from its parent's, whose node holds    *)
(* the pointer it was read by.  A block of memory is named for its place   *)
(* and numbered: what an action allocates was free before the action, so   *)
(* that a pointer to what it frees dangles in the state behind it.         *)
(***************************************************************************)
EXTENDS Integers, Sequences, FiniteSets

CONSTANTS
  Trees,      \* number of btrees, opened one after the other
  Levels,     \* levels of each btree; its nodes at that level are leaves
  Empty,      \* btrees whose keys are all deleted
  Clients,    \* whoever iterates
  Search,     \* whoever looks up
  None

ASSUME TreesAssumption ==
  /\ Trees \in Nat \ {0}
  /\ Levels \in [1..Trees -> Nat \ {0}]
  /\ Empty \subseteq {t \in 1..Trees : Levels[t] = 1}
  /\ Search \notin Clients /\ None \notin Clients \cup {Search}
  /\ {"sb", "begin", "kcursors", "NULL"} \cap (Clients \cup {Search}) = {}

VARIABLES
  stage,      \* how far the image is opened, or closed
  sb,         \* the superblock
  begin,      \* the iterators of the roots
  chain,      \* of each user, its iterator and those below, by next_it
  running,    \* the user whose call it is, or None
  active,     \* the level at which the search looks, 0 between searches
  made,       \* of each user, the node its last record points into
  heap        \* blocks that are allocated

vars == <<stage, sb, begin, chain, running, active, made, heap>>

Users == Clients \cup {Search}

\* The place of a block: whose it is, at which level, and what it holds.  The
\* array of cursors of a merge belongs to nobody once the merge returns: those
\* left by the nodes of a btree at one level go by one name.
Blocks ==
  [of: {"sb"}, no: {0}]
    \cup [of: {"begin"}, level: 1..Trees, holds: {"node", "keys"}, no: {0}]
    \cup [of: Users, level: Nat, holds: {"self", "node", "keys"}, no: {0, 1}]
    \cup [of: {"kcursors"}, type: 0..Trees, level: Nat]
Kcursors(type, d) == [of |-> "kcursors", type |-> type, level |-> d]
NULL == [of |-> "NULL"]

\* Bcachefs_iterator: its own block, its node, its array of keys; and the blocks
\* that the keys, the current key and btree_ptr point into.
Iterator ==
  [type: 0..Trees, self: Blocks \cup {NULL}, node: Blocks \cup {NULL}, keys: Blocks \cup {NULL},
   into: Blocks \cup {NULL}, bkey: Blocks \cup {NULL}, btree_ptr: Blocks \cup {NULL}]
CLEAN == [type |-> 0, self |-> NULL, node |-> NULL, keys |-> NULL, into |-> NULL, bkey |-> NULL,
          btree_ptr |-> NULL]

Owned(it) == {it.self, it.node, it.keys} \ {NULL}
OwnedIn(its) == UNION {Owned(its[d]) : d \in DOMAIN its}

\* malloc
New(u, d, holds) ==
  LET block(no) == [of |-> u, level |-> d, holds |-> holds, no |-> no]
  IN IF block(0) \in heap THEN block(1) ELSE block(0)
Superblock == [of |-> "sb", no |-> 0]

Init == /\ stage = "new"
        /\ sb = NULL
        /\ begin = [t \in 1..Trees |-> CLEAN]
        /\ chain = [u \in Users |-> <<>>]
        /\ running = None
        /\ active = 0
        /\ made = [u \in Users |-> NULL]
        /\ heap = {}

\* Bcachefs_iter_fini, from a level downwards.
Fini(its, d) == OwnedIn(SubSeq(its, d, Len(its)))

-----------------------------------------------------------------------------
(* Opening and closing *)

\* Bcachefs_close, and what is left of it after an opening that failed.
Closed(its) ==
  /\ stage' = "closed"
  /\ begin' = [t \in 1..Trees |-> CLEAN]
  /\ chain' = [chain EXCEPT ![Search] = <<>>]
  /\ made' = [made EXCEPT ![Search] = NULL]
  /\ active' = 0 /\ running' = None
  /\ sb' = NULL
  /\ heap' = heap \ ({sb} \cup OwnedIn(its) \cup Fini(chain[Search], 1))

\* The superblock is read in two steps, the second time as long as it is.
ReadSuperblock ==
  /\ stage = "new"
  /\ stage' = "trees"
  /\ sb' = Superblock
  /\ heap' = heap \cup {Superblock}
  /\ UNCHANGED <<begin, chain, running, active, made>>

ReadSuperblockFails == stage = "new" /\ Closed(begin)

Unread == {t \in 1..Trees : begin[t].node = NULL}

\* Bcachefs_iter_reinit of a clean iterator: the node is read and its bsets are
\* merged.  The merge frees its array of bsets and leaves that of its cursors.
ReadRoot ==
  \E t \in Unread :
    /\ stage = "trees" /\ \A u \in Unread : t <= u
    /\ begin' = [begin EXCEPT ![t] =
         [type |-> t, self |-> NULL, node |-> New("begin", t, "node"),
          keys |-> New("begin", t, "keys"), into |-> New("begin", t, "node"),
          bkey |-> NULL, btree_ptr |-> sb]]
    /\ heap' = heap \cup Owned(begin'[t]) \cup {Kcursors(t, 1)}
    /\ UNCHANGED <<stage, sb, chain, running, active, made>>

\* A root that cannot be read leaves its node allocated, for close to free.
ReadRootFails == stage = "trees" /\ Unread # {} /\ Closed(begin)

\* Bcachefs_iter of no btree, in which the first search puts its own.
OpenIter ==
  /\ stage = "trees" /\ Unread = {}
  /\ stage' = "root"
  /\ chain' = [chain EXCEPT ![Search] = <<[CLEAN EXCEPT !.self = New(Search, 1, "self")]>>]
  /\ heap' = heap \cup OwnedIn(chain'[Search])
  /\ UNCHANGED <<sb, begin, running, active, made>>

\* There is no root inode, or it has no hash seed.
OpenFails ==
  /\ stage = "root" /\ running = None /\ chain[Search][1].type # 0
  /\ Closed(begin)

Close == stage = "open" /\ running = None /\ Closed(begin)

-----------------------------------------------------------------------------
(* Iterators *)

\* Bcachefs_iter_minimal_copy: the keys of the copy point into its own node.
\* An iterator without keys has no array.
SlipCopy(u, it) ==
  [type |-> it.type, self |-> New(u, 1, "self"), node |-> New(u, 1, "node"),
   keys |-> IF it.type \in Empty THEN NULL ELSE New(u, 1, "keys"),
   into |-> it.node, bkey |-> NULL, btree_ptr |-> it.btree_ptr]
Copy(u, it) ==
  [type |-> it.type, self |-> New(u, 1, "self"), node |-> New(u, 1, "node"),
   keys |-> IF it.type \in Empty THEN NULL ELSE New(u, 1, "keys"),
   into |-> New(u, 1, "node"), bkey |-> NULL, btree_ptr |-> it.btree_ptr]

\* Bcachefs_next_iter: the pointer is a key's value in the node above.
Child(u, its, d) ==
  [type |-> its[d].type, self |-> New(u, d + 1, "self"), node |-> New(u, d + 1, "node"),
   keys |-> New(u, d + 1, "keys"), into |-> New(u, d + 1, "node"), bkey |-> NULL,
   btree_ptr |-> its[d].node]

SlipLeaf(its, d) == d > Levels[its[1].type]
Leaf(its, d) == d = Levels[its[1].type]
HasKeys(its, d) == its[d].keys # NULL

\* The iterator looks at one of its keys.
At(its, d) == [its EXCEPT ![d].bkey = its[d].into]

\* Below this level the user has these iterators now, and this is what else was
\* allocated on the way.
Becomes(u, its, d, below, left) ==
  /\ chain' = [chain EXCEPT ![u] = SubSeq(its, 1, d) \o below]
  /\ heap' = (heap \ Fini(chain[u], d + 1)) \cup OwnedIn(below) \cup left

\* Reading a child merges its bsets, which leaves an array of cursors.
Descends(u, its, d) ==
  Becomes(u, At(its, d), d, <<Child(u, its, d)>>, {Kcursors(its[d].type, d + 1)})

\* The node that a record points into: the one of the last iterator.
Deepest(its) == its[Len(its)].node

-----------------------------------------------------------------------------
(* Searches: Bcachefs_find_extent, _inode, _dirent *)

its == chain[Search]

FindBegins ==
  \E t \in 1..Trees :
    /\ running = None /\ (stage = "open" \/ (stage = "root" /\ its[1].type = 0))
    /\ Becomes(Search, <<>>, 0, <<Copy(Search, begin[t])>>, {})
    /\ running' = Search /\ active' = 1
    /\ made' = [made EXCEPT ![Search] = NULL]
    /\ UNCHANGED <<stage, sb, begin>>

\* A level has found nothing: the level above goes on, or the search ends.
FindReturns ==
  /\ active' = active - 1
  /\ running' = IF active = 1 THEN None ELSE Search

\* The iterator of the child looked at before is freed first.
SlipFindDescends ==
  /\ active > 0 /\ ~Leaf(its, active)
  /\ chain' = [chain EXCEPT ![Search] =
                 At(SubSeq(its, 1, active), active) \o <<Child(Search, its, active)>>]
  /\ heap' = heap \cup Owned(Child(Search, its, active))
                  \cup {Kcursors(its[active].type, active + 1)}
  /\ active' = active + 1
  /\ UNCHANGED <<stage, sb, begin, running, made>>
FindDescends ==
  /\ active > 0 /\ ~Leaf(its, active)
  /\ Descends(Search, its, active)
  /\ active' = active + 1
  /\ UNCHANGED <<stage, sb, begin, running, made>>

\* The key is in front of the child, or the child cannot be read.
FindStops ==
  /\ active > 0 /\ ~Leaf(its, active)
  /\ Becomes(Search, At(its, active), active, <<>>, {})
  /\ FindReturns
  /\ UNCHANGED <<stage, sb, begin, made>>

\* A level has no such key; its iterator stays until the level above goes on.
FindMisses ==
  /\ active > 0
  /\ FindReturns
  /\ UNCHANGED <<stage, sb, begin, chain, made, heap>>

\* A record is made of the key.  The first search is the one for the root inode,
\* which must have a hash seed for the image to be open.
FindHits ==
  /\ active > 0 /\ Leaf(its, active) /\ HasKeys(its, active)
  /\ chain' = [chain EXCEPT ![Search] = At(its, active)]
  /\ made' = [made EXCEPT ![Search] = Deepest(its)]
  /\ active' = 0 /\ running' = None
  /\ stage' \in {stage, "open"}
  /\ UNCHANGED <<sb, begin, heap>>

-----------------------------------------------------------------------------
(* Iterations *)

IterBegins(c) ==
  \E t \in 1..Trees :
    /\ stage = "open" /\ running = None /\ chain[c] = <<>>
    /\ Becomes(c, <<>>, 0, <<Copy(c, begin[t])>>, {})
    /\ UNCHANGED <<stage, sb, begin, running, active, made>>

Iterates(c) == stage \in {"open", "closed"} /\ running \in {None, c} /\ chain[c] # <<>>
Depth(c) == Len(chain[c])

\* A value is returned, and the record made of it.
IterYields(c) ==
  /\ Iterates(c) /\ Leaf(chain[c], Depth(c)) /\ HasKeys(chain[c], Depth(c))
  /\ chain' = [chain EXCEPT ![c] = At(chain[c], Depth(c))]
  /\ made' = [made EXCEPT ![c] = Deepest(chain[c])]
  /\ running' = None
  /\ UNCHANGED <<stage, sb, begin, active, heap>>

IterDescends(c) ==
  /\ Iterates(c) /\ sb # NULL /\ ~Leaf(chain[c], Depth(c))
  /\ Descends(c, chain[c], Depth(c))
  /\ made' = [made EXCEPT ![c] = NULL]
  /\ running' = c
  /\ UNCHANGED <<stage, sb, begin, active>>

\* The child cannot be read: what was allocated for it is freed.
IterDescendFails(c) ==
  /\ Iterates(c) /\ sb # NULL /\ ~Leaf(chain[c], Depth(c))
  /\ chain' = [chain EXCEPT ![c] = At(chain[c], Depth(c))]
  /\ made' = [made EXCEPT ![c] = NULL]
  /\ running' = None
  /\ UNCHANGED <<stage, sb, begin, active, heap>>

\* After close the size of a node is read from a superblock that is NULL.
IterCrashes(c) ==
  /\ Iterates(c) /\ sb = NULL /\ ~Leaf(chain[c], Depth(c))
  /\ stage' = "crashed"
  /\ UNCHANGED <<sb, begin, chain, running, active, made, heap>>

\* The child is done.
IterPops(c) ==
  /\ Iterates(c) /\ Depth(c) > 1
  /\ Becomes(c, chain[c], Depth(c) - 1, <<>>, {})
  /\ made' = [made EXCEPT ![c] = NULL]
  /\ running' = c
  /\ UNCHANGED <<stage, sb, begin, active>>

\* The root is done: NULL is returned, now and whenever asked again.
IterEnds(c) ==
  /\ Iterates(c) /\ Depth(c) = 1
  /\ made' = [made EXCEPT ![c] = NULL]
  /\ running' = None
  /\ UNCHANGED <<stage, sb, begin, chain, active, heap>>

\* Bcachefs_iter_fini and free, after any call.
IterReleased(c) ==
  /\ Iterates(c) /\ running = None
  /\ Becomes(c, <<>>, 0, <<>>, {})
  /\ made' = [made EXCEPT ![c] = NULL]
  /\ UNCHANGED <<stage, sb, begin, running, active>>

Open == ReadSuperblock \/ ReadSuperblockFails \/ ReadRoot \/ ReadRootFails \/ OpenIter \/ OpenFails
Find == FindBegins \/ FindDescends \/ FindStops \/ FindMisses \/ FindHits
Iterate(c) ==
  \/ IterBegins(c) \/ IterYields(c) \/ IterDescends(c) \/ IterDescendFails(c)
  \/ IterCrashes(c) \/ IterPops(c) \/ IterEnds(c) \/ IterReleased(c)

Next == Open \/ Close \/ Find \/ \E c \in Clients : Iterate(c)

Spec == Init /\ [][Next]_vars

-----------------------------------------------------------------------------
(* Properties *)

\* The iterators of a user go down one btree, from its root no further than its
\* leaves, and a search is at one of them.
TypeOK ==
  /\ stage \in {"new", "trees", "root", "open", "closed", "crashed"}
  /\ sb \in {NULL, Superblock} /\ heap \subseteq Blocks
  /\ begin \in [1..Trees -> Iterator]
  /\ chain \in [Users -> Seq(Iterator)]
  /\ \A u \in Users : \A d \in 1..Len(chain[u]) :
       /\ chain[u][d].type = chain[u][1].type
       /\ chain[u][1].type # 0 => d <= Levels[chain[u][1].type]
  /\ active \in 0..Len(chain[Search]) /\ (active > 0 <=> running = Search)
  /\ running \in Users \cup {None}
  /\ made \in [Users -> Blocks \cup {NULL}]

\* No pointer of an iterator or of a record dangles, whatever was searched,
\* iterated, released and closed, bar the root's btree_ptr after close, which is
\* read again only for the place of inline data.
Live(b) == b \in heap \cup {NULL}
PointersLive ==
  /\ Live(sb)
  /\ \A t \in 1..Trees : Live(begin[t].into) /\ Live(begin[t].btree_ptr)
  /\ \A u \in Users :
       /\ Live(made[u])
       /\ \A d \in 1..Len(chain[u]) :
            /\ Live(chain[u][d].into) /\ Live(chain[u][d].bkey)
            /\ Live(chain[u][d].btree_ptr) \/ (d = 1 /\ stage \in {"closed", "crashed"})

\* Of what is allocated, all but the arrays of cursors is owned, by one iterator
\* and in one place: nothing else is lost, nothing is freed that is in use, and
\* nothing is freed twice.  The array of every node that is held, and of every
\* root whose copy is, is still allocated, though no pointer leads to it: each
\* node that is read loses one, and neither fini nor close gives it back.
IsKcursors(b) == b.of = "kcursors"
Owners == {<<"begin", t>> : t \in 1..Trees}
            \cup UNION {{<<u, d>> : d \in 1..Len(chain[u])} : u \in Users}
OwnedBy(o) == IF o[1] = "begin" THEN Owned(begin[o[2]]) ELSE Owned(chain[o[1]][o[2]])
Left(it, d) == it.type # 0 => Kcursors(it.type, d) \in heap
OwnedOnce ==
  /\ {b \in heap : ~IsKcursors(b)} = ({sb} \ {NULL}) \cup UNION {OwnedBy(o) : o \in Owners}
  /\ \A o, p \in Owners : o # p => OwnedBy(o) \cap OwnedBy(p) = {}
  /\ \A o \in Owners : sb \notin OwnedBy(o)
  /\ \A t \in 1..Trees : Left(begin[t], 1)
  /\ \A u \in Users : \A d \in 1..Len(chain[u]) : Left(chain[u][d], d)
=============================================================================
