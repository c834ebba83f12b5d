------------------------------- MODULE MCCursors -------------------------------
(***************************************************************************)
(* Every tree of three entries with two names.  In the plain ones the last *)
(* file's extents vary, some of them old versions of others, names         *)
(* collide, and an entry cannot be read.                                   *)
(***************************************************************************)
EXTENDS Cursors, FiniteSets

Nodes == 2..4
Names == {1, 2}

\* Entries by inode: a parent is the root or a smaller directory.
Trees ==
  {t \in [Nodes -> [parent: 1..3, name: Names, type: {"dir", "file", "other"}]] :
     /\ \A n \in Nodes :
          /\ t[n].parent < n
          /\ t[n].parent # RootInode => t[t[n].parent].type = "dir"
          /\ \A m \in Nodes \ {n} : <<t[n].parent, t[n].name>> # <<t[m].parent, t[m].name>>
     /\ Cardinality({n \in Nodes : t[n].type = "other"}) <= 1}

\* Extents of a file, in sectors of two bytes: one behind the other in the image
\* or not, with a hole before, between, or without any.
X(offset, from, size) ==
  [inode |-> 0, file_offset |-> 2 * offset, offset |-> 2 * from, size |-> 2 * size,
   end |-> 2 * (offset + size)]

\* Three bytes or two in the node, which lie at no sector.
Inline(size) == [inode |-> 0, file_offset |-> 0, offset |-> 101, size |-> size, end |-> 4]

\* An extent of two sectors of which the first was written again, with the old
\* version; one of three of which the second was; one whose second half lies under
\* a new extent; one that became shorter; one that lies all under a new one.
Duplicates ==
  { <<X(0, 20, 1), X(1, 11, 1), X(0, 10, 2)>>,
    <<X(0, 10, 1), X(1, 20, 1), X(2, 12, 1), X(0, 10, 3)>>,
    <<X(0, 10, 1), X(0, 10, 2), X(1, 20, 2)>>,
    <<X(0, 20, 1), X(0, 10, 2)>>,
    <<X(1, 10, 1), X(0, 20, 3), X(3, 30, 1)>> }

Layouts ==
  { <<>>, <<X(0, 10, 2), X(2, 12, 1)>>, <<X(0, 10, 1), X(1, 20, 2), X(3, 22, 1)>>,
    <<X(0, 20, 1), X(1, 10, 1)>>, <<X(1, 10, 1), X(2, 20, 1)>>,
    <<X(0, 10, 1), X(2, 11, 1), X(3, 12, 1)>>,
    <<Inline(3)>>, <<Inline(2)>>, <<Inline(3), X(2, 10, 1)>> } \cup Duplicates

\* Files end within their last sector.
SizeOf(layout) ==
  IF layout = <<>> THEN 0
  ELSE Last(layout).file_offset + (IF Last(layout).offset = 101 THEN Last(layout).size
                                   ELSE Last(layout).size - 1)
Concat(lists) == FoldLeft(LAMBDA a, b : a \o b, <<>>, lists)

\* Inode numbers grow downwards in the tree, or upwards.
Down(n) == n
Up(n) == IF n = RootInode THEN n ELSE 6 - n

\* Names 1 and 3 have one hash: who comes second is filed behind the first.
MCHash == <<10, 20, 10>>
HashIn(t, n) ==
  IF t[n].name = 3 /\ \E m \in Nodes : t[m].parent = t[n].parent /\ t[m].name = 1
    THEN MCHash[3] + 1 ELSE MCHash[t[n].name]

ImageOf(t, layout, Number(_)) ==
  LET LayoutOf(n) == IF n = 4 THEN layout ELSE <<X(0, 30 + n, 1)>>
      Dirent(n) == [parent |-> Number(t[n].parent), inode |-> Number(n), type |-> t[n].type,
                    name |-> t[n].name, hash |-> HashIn(t, n)]
      Before(a, b) == a.parent < b.parent \/ (a.parent = b.parent /\ a.hash < b.hash)
      Lower(a, b) == a.inode < b.inode
      Of(n) == [i \in 1..Len(LayoutOf(n)) |-> [LayoutOf(n)[i] EXCEPT !.inode = Number(n)]]
      Regular == {n \in Nodes : t[n].type = "file"}
      ByNumber == SetToSortSeq(Regular, LAMBDA a, b : Number(a) < Number(b))
  IN [dirents |-> SetToSortSeq({Dirent(n) : n \in Nodes}, Before),
      inodes |-> SetToSortSeq(
        {[inode |-> Number(n), size |-> IF n \in Regular THEN SizeOf(LayoutOf(n)) ELSE 0] : n \in 1..4}, Lower),
      extents |-> Concat([i \in 1..Len(ByNumber) |-> Of(ByNumber[i])]),
      unread |-> {}]

\* A directory, and in it or in a directory of its own a file, whose extents vary.
IsPlain(t) ==
  /\ t[2].type = "dir" /\ t[4].type = "file" /\ t[4].parent # RootInode
  /\ t[3].type # "other" /\ (t[3].type = "dir" => t[3].parent = 2)

Thrice == <<X(0, 10, 1), X(1, 20, 2), X(3, 22, 1)>>
Colliding(t) == [n \in Nodes |-> IF t[n].name = 2 THEN [t[n] EXCEPT !.name = 3] ELSE t[n]]
Damaged(whole) ==
  {[whole EXCEPT !.unread = {e}] :
     e \in ToSet(whole.dirents) \cup {i \in ToSet(whole.inodes) : i.inode # RootInode}
            \cup ToSet(whole.extents)}

PlainTrees == {t \in Trees : IsPlain(t)}
MCImages ==
  {ImageOf(t, Thrice, Down) : t \in Trees}
    \cup UNION {{ImageOf(t, layout, Down), ImageOf(t, layout, Up)} :
                   t \in PlainTrees, layout \in Layouts}
    \cup UNION {Damaged(ImageOf(t, Thrice, Down)) : t \in PlainTrees}
    \cup {ImageOf(Colliding(t), Thrice, Down) : t \in PlainTrees}
MCPaths == [absolute: BOOLEAN, parts: {<<>>, <<1>>, <<2>>, <<3>>, <<1, 2>>}]
=============================================================================
