-------------------------------- MODULE Cursors --------------------------------
(***************************************************************************)
(* Cursor: a directory of the image with the names, inodes and extents of  *)
(* everything below it cached when the cursor was parsed.  A client holds  *)
(* a mount or a cursor and changes directory with cd, from cursor to       *)
(* cursor; every lookup of a cursor must be one of the mount.  A cursor is *)
(* where it stands and what was cached below its base; cursors that cd     *)
(* makes inside the cache share it.  A definition Slip... is a slip in the *)
(* one that follows it, for mutation testing; no specification uses it.    *)
(***************************************************************************)
EXTENDS Catalog

CONSTANTS
  Images,
  Paths,      \* paths that clients use
  Mounted     \* the client's view while it has no cursor

ASSUME ImagesAssumption == \A i \in Images : IsImage(i)
ASSUME PathsAssumption == Paths \subseteq [absolute: BOOLEAN, parts: Seq(DOMAIN Hash)]
ASSUME RaisedAssumption == None \notin {"AttributeError", "KeyError"}

VARIABLES
  image,
  view,     \* Mounted or the cursor
  raised    \* what the last cd raised, or None

vars == <<image, view, raised>>

-----------------------------------------------------------------------------
(* The cache of a cursor parsed at directory base *)

\* Inodes of the directories that Cursor._walk comes through: with each one those
\* of the directories in it.
Directories(base) ==
  LET dirs == {d \in Dirents(image) : IsDir(d)}
      all == {base.inode} \cup {d.inode : d \in dirs}
      IsWalk(S) == base.inode \in S /\ \A d \in dirs : d.parent \in S => d.inode \in S
  IN {i \in all : \A S \in SUBSET all : IsWalk(S) => i \in S}

\* _inodes_tree and _inodes_ls: directories and files, and nothing else.
Cached(base) ==
  {d \in Dirents(image) : d.parent \in Directories(base) /\ (IsDir(d) \/ IsFile(d))}

\* Keys of _extents_map and _inode_map.
Files(c) == {d.inode : d \in {e \in c.entries : IsFile(e)}}

\* _unique_extent_list, from the last extent to the first: one that does not end
\* where the list begins is dropped, one that goes on in the image is merged.
SlipPrepend(list, x) ==
  IF list = <<>> THEN <<x>>
  ELSE IF x.file_offset + x.size # list[1].file_offset THEN list
  ELSE <<[x EXCEPT !.size = @ + list[1].size]>> \o Tail(list)

Prepend(list, x) ==
  IF list = <<>> THEN <<x>>
  ELSE IF x.file_offset + x.size # list[1].file_offset THEN list
  ELSE IF x.offset + x.size # list[1].offset THEN <<x>> \o list
  ELSE <<[x EXCEPT !.size = @ + list[1].size]>> \o Tail(list)

SlipLastOf(list, places) ==
  CHOOSE p \in places : \A q \in places :
    \/ list[p].file_offset < list[q].file_offset
    \/ list[p].file_offset = list[q].file_offset /\ p <= q

\* reversed(sorted(...)): of the extents still to come the one that begins last,
\* and of those that begin at one place, since sorted is stable, the last.
LastOf(list, places) ==
  CHOOSE p \in places : \A q \in places :
    \/ list[q].file_offset < list[p].file_offset
    \/ list[q].file_offset = list[p].file_offset /\ q <= p

CachedExtents(inode) ==
  LET list == Extents(image)
      run[i \in 0..Len(list)] ==
        IF i = 0 THEN [left |-> {p \in DOMAIN list : list[p].inode = inode}, unique |-> <<>>]
        ELSE IF run[i - 1].left = {} THEN run[i - 1]
        ELSE LET p == LastOf(list, run[i - 1].left)
             IN [left |-> run[i - 1].left \ {p}, unique |-> Prepend(run[i - 1].unique, list[p])]
  IN run[Len(list)].unique

\* _inode_map
CachedInode(c, inode) ==
  IF inode \in Files(c) THEN Found({i \in Inodes(image) : i.inode = inode}) ELSE None

-----------------------------------------------------------------------------
(* Lookups of a cursor *)

\* Cursor._find_dirent: an absolute path is only followed when the root is cached.
From(c, path) ==
  IF ~path.absolute \/ c.dirent = Root THEN c.dirent
  ELSE IF RootInode \in c.directories THEN Root ELSE None

SlipEntryHits(c, inode, name) == {d \in c.entries : d.name = name}
EntryHits(c, inode, name) == {d \in c.entries : d.parent = inode /\ d.name = name}

CursorFindPath(c, path) ==
  LET at[i \in 0..Len(path.parts)] ==
        IF i = 0 THEN From(c, path)
        ELSE IF at[i - 1] = None THEN None
        ELSE Found(EntryHits(c, at[i - 1].inode, path.parts[i]))
  IN at[Len(path.parts)]

\* Cursor._find_dirents
CursorChildren(c, dirent) == {d \in c.entries : d.parent = dirent.inode}

\* FilesystemMixin.open on a cursor: what has no cached inode ends in a generator
\* that raises StopIteration.
CursorOpen(c, dirent) ==
  IF dirent = None THEN Raised("RuntimeError")
  ELSE LET inode == CachedInode(c, dirent.inode)
       IN IF inode = None THEN Raised("RuntimeError")
          ELSE IF CachedExtents(inode.inode) = <<>> THEN Raised("FileNotFoundError")
          ELSE Opened(inode.inode, inode.size, CachedExtents(inode.inode))

-----------------------------------------------------------------------------
(* The client *)

CursorAt(base) ==
  [dirent |-> base, base |-> base, directories |-> Directories(base), entries |-> Cached(base)]

Init == /\ image \in Images
        /\ view = Mounted
        /\ raised = None

Enter(cursor) ==
  /\ view' = cursor
  /\ raised' = None
  /\ UNCHANGED image

Fail(exception) == raised' = exception /\ UNCHANGED <<image, view>>

\* An entry of a directory whose own entry cannot be read.
Orphan(d) ==
  d.parent # RootInode /\ ~ \E e \in Dirents(image) : IsDir(e) /\ e.inode = d.parent
HasOrphans == \E d \in Dirents(image) : Orphan(d)

\* Cursor(mount, path): the parse needs a directory, and the directory of every
\* entry of the image.
Parse(path) ==
  LET dirent == FindPath(image, path) IN
  \/ dirent = None /\ Fail("AttributeError")
  \/ dirent # None /\ (HasOrphans \/ ~IsDir(dirent)) /\ Fail("KeyError")
  \/ dirent # None /\ ~HasOrphans /\ IsDir(dirent) /\ Enter(CursorAt(dirent))

MountCd(path) == view = Mounted /\ Parse(path)

\* Cursor.cd: a path in the cache shares it, and a cache without files is taken
\* for none; any other path is looked up from the root by a new mount.
SlipCursorCd(path) ==
  /\ view # Mounted
  /\ LET dirent == CursorFindPath(view, path)
     IN \/ dirent = None /\ Parse(path)
        \/ dirent # None /\ Files(view) = {} /\ Fail("AttributeError")
        \/ dirent # None /\ Files(view) # {} /\ Enter([view EXCEPT !.dirent = dirent])

CursorCd(path) ==
  /\ view # Mounted
  /\ LET asked == IF path.parts = <<>> THEN [path EXCEPT !.absolute = TRUE] ELSE path
         dirent == CursorFindPath(view, asked)
     IN \/ dirent = None /\ Parse(asked)
        \/ dirent # None /\ Files(view) = {} /\ Fail("AttributeError")
        \/ dirent # None /\ Files(view) # {} /\ Enter([view EXCEPT !.dirent = dirent])

Next == \E path \in Paths : MountCd(path) \/ CursorCd(path)
Spec == Init /\ [][Next]_vars

-----------------------------------------------------------------------------
(* Properties *)

\* A mount can look up the name in every directory: it can read the directory's
\* inode, and what is filed under the hash of the name has that name.
Clear(name) ==
  \A d \in {Root} \cup {e \in ToSet(image.dirents) : IsDir(e)} :
    /\ FindInode(image, d.inode) # None
    /\ \A e \in ToSet(image.dirents) :
         e.parent = d.inode => (e.hash = Hash[name] <=> e.name = name)
IsClear(path) == \A name \in ToSet(path.parts) : Clear(name)

\* The mount and a cursor find the same under every path, absolute or relative,
\* bar what is neither a file nor a directory, names that collide and what is in
\* directories whose inode is lost; the only paths a cursor cannot follow are
\* the absolute ones when the root is not in its cache.
LookupsAgree ==
  view # Mounted =>
    \A path \in {p \in Paths : IsClear(p)} :
      LET there == FindFrom(image, IF path.absolute THEN Root ELSE view.dirent, path.parts)
          found == CursorFindPath(view, path)
      IN IF path.absolute /\ view.base # Root THEN found \in {None, there}
         ELSE IF there # None /\ there.type = "other" THEN found = None
         ELSE found = there

\* A directory of the cache has the entries of the image in it, no more no fewer.
ListingsAgree ==
  view # Mounted =>
    \A d \in {view.base} \cup {e \in view.entries : IsDir(e)} :
      CursorChildren(view, d) = {e \in Children(image, d) : IsDir(e) \/ IsFile(e)}

\* The bytes of the image a list of extents says the file is made of.
Bytes(extents) ==
  UNION {{<<extents[i].file_offset + k, extents[i].offset + k>> : k \in 0..(extents[i].size - 1)} :
           i \in 1..Len(extents)}

\* Extents one behind the other from the first byte of a file, and nothing of the
\* file that ends no later than one of them begins where it does or behind.
Tile(tiles, extents) ==
  /\ \E x \in tiles : x.file_offset = 0
  /\ \A x \in tiles : x.file_offset = 0 \/ \E y \in tiles : Behind(y) = x.file_offset
  /\ \A x, y \in tiles : x.file_offset < y.file_offset => Behind(x) <= y.file_offset
  /\ \A x \in tiles : \A y \in extents \ {x} :
       Behind(y) <= x.end => y.file_offset < x.file_offset

\* A file all of which, from its first byte to its last, is in extents that can be
\* read.  Old versions of extents may be among them, longer at the front, as a key
\* that was cut at the front leaves them (merge_sizes); not one that begins where
\* another one does but ends behind it, as a key that was deleted leaves it, nor
\* one inside another: of these the mount and the cursor take different ones.
Solid(inode) ==
  LET extents == {x \in ToSet(image.extents) : x.inode = inode}
  IN /\ extents \cap image.unread = {}
     /\ \E tiles \in SUBSET extents :
          /\ Tile(tiles, extents)
          /\ \E x \in tiles :
               /\ \A y \in extents \ {x} : y.file_offset < x.file_offset
               /\ \A i \in ToSet(image.inodes) : i.inode = inode =>
                    x.file_offset < i.size /\ i.size <= Behind(x)

\* A file without holes opened by a cursor has the bytes it has opened by the
\* mount, though its extents may be other ones and there are old versions of them
\* in the image; what the one opens the other does, unless it is neither file nor
\* directory.
OpensAgree ==
  view # Mounted =>
    \A d \in view.entries :
      LET by_mount == Open(image, d)
          by_cursor == CursorOpen(view, d)
      IN IsFile(d) /\ Solid(d.inode) /\ FindInode(image, d.inode) # None =>
           /\ "file" \in DOMAIN by_mount /\ "file" \in DOMAIN by_cursor
           /\ by_cursor.file = by_mount.file /\ by_cursor.size = by_mount.size
           /\ Bytes(by_cursor.extents) = Bytes(by_mount.extents)

\* What an open of a file without holes hands to the file object is a layout the
\* file object can read: extents in order from 0, none missing, of which the last
\* holds the end of the file.
IsLayout(file) ==
  LET n == Len(file.extents) IN
  /\ \A i \in 1..n :
       file.extents[i].file_offset =
         IF i = 1 THEN 0 ELSE file.extents[i - 1].file_offset + file.extents[i - 1].size
  /\ file.extents[n].file_offset < file.size
  /\ file.size <= file.extents[n].file_offset + file.extents[n].size

OpensLayouts ==
  \A d \in ToSet(image.dirents) :
    Solid(d.inode) =>
      /\ "file" \in DOMAIN Open(image, d) => IsLayout(Open(image, d))
      /\ view # Mounted /\ "file" \in DOMAIN CursorOpen(view, d) => IsLayout(CursorOpen(view, d))

\* cd of an absolute path goes where the mount finds it; of a relative path, to
\* what the cursor has below it, else to what the root has; of no path, to the
\* root.  It fails only when there is no such directory, on a cache without
\* files, or when the directory of some entry of the image is lost.
CdLands ==
  [][\A path \in {p \in Paths : IsClear(p)} :
       view # Mounted /\ CursorCd(path) =>
         LET below == FindFrom(image, view.dirent, path.parts)
             top == FindPath(image, path)
             goal == IF path.parts = <<>> THEN Root
                     ELSE IF path.absolute \/ below = None THEN top
                     ELSE IF below.type = "other" THEN top ELSE below
         IN IF raised' = None THEN view'.dirent = goal
            ELSE goal = None \/ ~IsDir(goal) \/ Files(view) = {} \/ HasOrphans]_vars
=============================================================================
