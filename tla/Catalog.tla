-------------------------------- MODULE Catalog --------------------------------
(***************************************************************************)
(* What a mount answers about the names, inodes and extents of its image:  *)
(* each answer comes from one search or one iteration of a btree, which    *)
(* BtreeFind and BtreeIter describe.  Nodes may be unreadable: a search    *)
(* does not find what they hold, an iteration gives a zeroed struct for    *)
(* it.  Offsets count bytes.  A path is [absolute, parts].  A definition   *)
(* Slip... is a slip in the one that follows it, for mutation testing; no  *)
(* specification uses it.                                                  *)
(***************************************************************************)
EXTENDS Sectors, Sequences, SequencesExt

CONSTANTS
  None,         \* Python's None
  Hash          \* the place in a directory that a name is hashed to

ASSUME HashAssumption == \A name \in DOMAIN Hash : name # 0 /\ Hash[name] \in Nat

RootInode == 1
Root == [parent |-> RootInode, inode |-> RootInode, type |-> "dir", name |-> 0, hash |-> 0]

DirentEntry ==
  [parent: Nat, inode: Nat, type: {"dir", "file", "other"}, name: DOMAIN Hash, hash: Nat]
InodeEntry == [inode: Nat \ {0}, size: Nat]
ExtentEntry == [inode: Nat, file_offset: Nat, offset: Nat, size: Nat \ {0}, end: Nat]

\* No answer of a lookup is None.
ASSUME NoneAssumption == None \notin {Root} \cup DirentEntry \cup InodeEntry \cup ExtentEntry

IsDir(dirent) == dirent.type = "dir"
IsFile(dirent) == dirent.type = "file"

\* dirents, inodes and extents are the entries of the three btrees, as the merge
\* delivers them: by parent and hash, by number, by inode, end and size; unread are
\* those in nodes that cannot be read.  Of dirents and inodes there is at most one
\* per position, only directories have entries, the entries of one inode have its
\* type, and the root's inode was read on opening.  A name whose place is taken is
\* filed behind it.  Extents begin at sectors; those of a file may overlap, since
\* the merge takes keys of two sizes for two keys.  The key of an extent ends, at
\* end, behind its data when these are inline.
IsImage(image) ==
  /\ image.dirents \in Seq(DirentEntry)
  /\ image.inodes \in Seq(InodeEntry)
  /\ image.extents \in Seq(ExtentEntry)
  /\ \A i, j \in 1..Len(image.dirents) : i < j =>
       LET a == image.dirents[i]  b == image.dirents[j] IN
       \/ a.parent < b.parent
       \/ a.parent = b.parent /\ a.hash < b.hash /\ a.name # b.name
  /\ \A i \in 1..Len(image.dirents) :
       LET d == image.dirents[i] IN
       /\ d.inode > RootInode /\ d.hash >= Hash[d.name]
       /\ d.parent = RootInode
            \/ \E j \in 1..Len(image.dirents) :
                 image.dirents[j].inode = d.parent /\ IsDir(image.dirents[j])
       /\ \A j \in 1..Len(image.dirents) :
            image.dirents[j].inode = d.inode => image.dirents[j].type = d.type
  /\ \A i, j \in 1..Len(image.inodes) : i < j => image.inodes[i].inode < image.inodes[j].inode
  /\ \A i \in 1..Len(image.extents) :
       LET x == image.extents[i] IN
       x.file_offset % SectorSize = 0 /\ x.file_offset + x.size <= x.end
  /\ \A i, j \in 1..Len(image.extents) : i < j =>
       LET a == image.extents[i]  b == image.extents[j] IN
       \/ a.inode < b.inode
       \/ a.inode = b.inode /\ a.end < b.end
       \/ a.inode = b.inode /\ a.end = b.end /\ a.file_offset > b.file_offset
  /\ \A e \in image.unread : e.inode # RootInode

\* The struct of what a search found, or None.
Found(hits) == IF hits = {} THEN None ELSE CHOOSE e \in hits : TRUE

\* Bcachefs_find_dirent, Bcachefs_find_inode: the entry at one position of the
\* btree, or None.
FindInode(image, inode) ==
  Found({i \in ToSet(image.inodes) \ image.unread : i.inode = inode})

\* The hash needs the seed that the directory's inode holds; the name found is
\* not compared with the one that is asked for.
FindDirent(image, parent, name) ==
  IF FindInode(image, parent) = None THEN None
  ELSE Found({d \in ToSet(image.dirents) \ image.unread : d.parent = parent /\ d.hash = Hash[name]})

\* The sector looked up for an offset: offset / 512 + offset % 512.
Sector(offset) == (offset \div SectorSize) + (offset % SectorSize)

\* Bcachefs_find_extent: keys are in the order of their ends but compared by where
\* they begin.  The scan stops at the first that is not lesser, which is the one
\* looked for or none is; a node that cannot be read stops it up to its end.
FindExtent(image, inode, offset) ==
  LET Place(x) == (IF x \in image.unread THEN x.end ELSE x.file_offset) \div SectorSize
      Lesser(x) == x.inode < inode \/ (x.inode = inode /\ Place(x) < Sector(offset))
      stops == {i \in DOMAIN image.extents :
                  /\ ~Lesser(image.extents[i])
                  /\ \A j \in 1..(i - 1) : Lesser(image.extents[j])}
  IN Found({x \in {image.extents[i] : i \in stops} \ image.unread :
              x.inode = inode /\ Place(x) = Sector(offset)})

\* Bcachefs_iter_next and the struct made of what it returns: a zeroed one for
\* the pointer to a node that cannot be read.
ZeroDirent == [parent |-> 0, inode |-> 0, type |-> "unknown", name |-> 0, hash |-> 0]
ZeroInode == [inode |-> 0, size |-> 0]
ZeroExtent == [inode |-> 0, file_offset |-> 0, offset |-> 0, size |-> 0, end |-> 0]
Items(image, list, zero) ==
  [i \in 1..Len(list) |-> IF list[i] \in image.unread THEN zero ELSE list[i]]

\* BcachefsIterInode and BcachefsIterDirEnt leave out zeroed structs;
\* BcachefsIterExtent does not.
Kept(items) == {e \in ToSet(items) : e.inode # 0}

Dirents(image) == Kept(Items(image, image.dirents, ZeroDirent))
Inodes(image) == Kept(Items(image, image.inodes, ZeroInode))
Extents(image) == Items(image, image.extents, ZeroExtent)

\* Bcachefs._find_dirent: every path starts at the root; the first part that is
\* not there ends the search.
FindFrom(image, from, parts) ==
  LET at[i \in 0..Len(parts)] ==
        IF i = 0 THEN from
        ELSE IF at[i - 1] = None THEN None ELSE FindDirent(image, at[i - 1].inode, parts[i])
  IN at[Len(parts)]
FindPath(image, path) == FindFrom(image, Root, path.parts)

\* Bcachefs._find_extents: each extent is looked up where the one before ended.
Behind(x) == x.file_offset + x.size
Chain(image, inode) ==
  LET n == Len(image.extents)
      run[i \in 0..n] ==
        IF i = 0 THEN <<>>
        ELSE LET offset == IF run[i - 1] = <<>> THEN 0 ELSE Behind(Last(run[i - 1]))
                 next == FindExtent(image, inode, offset)
             IN IF next = None THEN run[i - 1] ELSE Append(run[i - 1], next)
  IN run[n]

\* Bcachefs._find_dirents: the iteration over all dirents is broken off at the
\* first one of a greater directory.
SlipChildren(image, dirent) ==
  LET items == Items(image, image.dirents, ZeroDirent)
      Passes(i) == items[i].inode = 0 \/ items[i].parent = dirent.inode
  IN {d \in Dirents(image) : \E i \in DOMAIN items :
        d = items[i] /\ d.parent = dirent.inode /\ \A j \in 1..(i - 1) : Passes(j)}

Children(image, dirent) ==
  LET items == Items(image, image.dirents, ZeroDirent)
      Passes(i) == items[i].inode = 0 \/ items[i].parent <= dirent.inode
  IN {d \in Dirents(image) : \E i \in DOMAIN items :
        d = items[i] /\ d.parent = dirent.inode /\ \A j \in 1..(i - 1) : Passes(j)}

Opened(inode, size, extents) == [file |-> inode, size |-> size, extents |-> extents]
Raised(exception) == [raises |-> exception]

\* FilesystemMixin.open on a mount: find_inode(None) comes back with a result and
\* an exception set; a file without extents counts as missing.
Open(image, dirent) ==
  IF dirent = None THEN Raised("SystemError")
  ELSE LET inode == FindInode(image, dirent.inode)
           extents == IF inode = None THEN <<>> ELSE Chain(image, inode.inode)
       IN IF extents = <<>> THEN Raised("FileNotFoundError")
          ELSE Opened(inode.inode, inode.size, extents)
=============================================================================
