# Verification of the bcachefs image reader

The program reads cleanly unmounted bcachefs disk images without mounting them
in the kernel. A C library opens an image, merges the keys of btree nodes,
searches and iterates over three btrees (extents, inodes, dirents); a Python
extension module wraps it; a Python layer on top offers mounts, cursors with a
cached directory tree, and file objects. It never writes. What can go wrong is
therefore not lost updates but wrong answers: an old version of a key, a key
skipped, the bytes of another place, a cache that disagrees with the image, an
open image leaked or closed under its reader, a crash on an image that is not
as expected.

This directory holds TLA+ models of these parts, TLC configurations that check
them on small instances, and TLAPS proofs of what matters most for every
instance. `PROJECT.json` lists the runs, the source lines each definition
translates, the hazards the properties are for, and the findings.

    tlc -config BsetMerge.cfg MCBsetMerge      # any run below
    tlapm BsetMergeProofs.tla                  # the proofs of one component

Definitions named `Slip...` are slips a programmer could have made in the
definition that follows them. No specification uses them: they replace it, to
show that a property notices.

## 1. Inventory

Paths are below `src/bcachefs/` unless they start with `src/`.

### Opening an image (`bcachefs.c`, `bcachefs_iterator.c`)
- State: the `Bcachefs` struct: file, superblock, a first iterator per btree,
  the iterator `_iter` reused by every search, the root's inode.
- Operations: `Bcachefs_open`, `Bcachefs_close`, `Bcachefs_iter_reinit`, and the
  walkers `next_sibling`, `next_sb_field`, `next_jset_entry`, `next_btree_ptr`,
  `next_bset`, each driven by sizes it reads from the image.
- Hard: every size leads to the next element; bounds are computed by hand; one
  step of several fails; an image that was not cleanly unmounted.
- Correct when: it opens exactly what it can read, takes the root of the right
  tree, hands the merge all bsets of a node, and always comes back.

### Bset merge (`bcachefs_iterator.c` 325-472)
- State: a cursor per bset, the candidate, the last accepted key, the array
  `iter->keys`.
- Operation: `_Bcachefs_iter_build_bsets_cache`, run once per node read.
- Hard: duplicates and deletions spread over bsets that run out at different
  times; a comparison that aborts; a node without keys.
- Correct when: the array holds exactly the newest live versions, ascending.

### Key unpacking and records (`bcachefs.c` 211-340, `bcachefs_iterator.c` 325-470, 700-800, `utils.c`, `src/libbenzina/bcachefs.c`)
- State: none but the iterator's node and current key.
- Operations: `benz_bch_parse_bkey`, `_buffer`, `_field`, the comparisons of
  packed and of unpacked keys, `Bcachefs_iter_make_extent`, `_inode`, `_dirent`,
  `benz_bch_inode_unpack_size`.
- Hard: fields of any width with an offset; three unpackings that must agree; an
  order that must be the same packed and unpacked; variable-length integers;
  units of bytes, sectors and words; sizes that do not fit.
- Correct when: the numbers are those that were packed.

### Memory of iterators (`bcachefs_iterator.c`, `bcachefs.c` 395-458)
- State: the blocks allocated, and the pointers of iterators into them.
- Operations: open, close, search, `Bcachefs_iter`, `_iter_next`, `_iter_fini`,
  `_iter_minimal_copy`, `_next_iter`.
- Hard: keys are pointers into a node that is copied; a chain of iterators grows
  and shrinks; errors leave half an iterator; close comes in the middle of an
  iteration.
- Correct when: no pointer dangles, and each block is owned once.

### Btree search (`bcachefs_iterator.c` 138-322)
- State: the chain of iterators from the root down, one per level.
- Operations: `find_extent`, `find_inode`, `find_dirent` on
  `_Bcachefs_find_bkey`.
- Hard: recursion into a child and, after a miss, again in the parent; keys
  ordered by their end but searched by their start; reads that fail.
- Correct when: a key is found exactly if it is in the tree, without a scan of
  the whole tree.

### Btree iteration (`bcachefs_iterator.c` 73-122, 516-643)
- State: a chain of iterators, each a copy of its node's keys and an index.
- Operations: `Bcachefs_iter`, `Bcachefs_iter_next`, `Bcachefs_iter_fini`.
- Hard: going down and up again, empty nodes, nodes that cannot be read.
- Correct when: every key comes once, in order, and the end is the end.

### File objects (`bcachefs.py` 100-320)
- State: current extent, offset in it, position in the file; and the position of
  the image's file object, which all the files opened from one mount share.
- Operations: `read`, `read1`, `readall`, `readinto`, `readinto1`, `seek`,
  `tell`, `reset`.
- Hard: three variables for one position; other files moving the shared one;
  extents beyond the size of the file; truncated images; holes.
- Correct when: each file is a stream of its bytes.

### Mounts, cursors and their copies (`bcachefs.py`, `bcachefsmodule.c`)
- State: who refers to which open file; the C file of a mount beside its Python
  file; reference counts; pickled states under way to other processes.
- Operations: mount, umount, close, `__enter__`, `__exit__`, `cd`, `open`,
  pickling, generators, reclamation.
- Hard: any order of these over several objects and processes; one opens again
  what another closed; a reference count that is one too high.
- Correct when: closing one object leaves the others usable, an iteration keeps
  its image, and nothing is left open that nobody can close.

### Lookups and the cursor cache (`bcachefs.py` 631-961)
- State: the maps `_inodes_tree`, `_inodes_ls`, `_inode_map`, `_extents_map` of a
  cursor, and the directory it stands at.
- Operations: `_find_dirent`, `_find_dirents`, `_find_extents`, `open`,
  `scandir`, `walk`, `_parse`, `cd`.
- Hard: the same question answered from the btrees and from the cache; cursors
  that share a cache but stand elsewhere; holes in files; names that collide in
  their hash; entries in nodes that cannot be read.
- Correct when: mount and cursor agree.

### Others
SipHash (`src/libbenzina/siphash.c`), printing, what `src/main.c` prints, the
scripts that make images, packaging. They are pure conversions or input and
output; section 7 says what stands for them.

### How the parts interact

                 lookups and cursor cache ---- mounts and cursors ---- file objects
                    |  parse      | find                                  |
                 iteration      search       (Python above, C below)   image file
                    |             |
                 bset merge  <-- reading a node <-- opening an image
                    |
                 key unpacking --> records of keys

The C functions never release the interpreter's lock, so each is atomic for
Python. A mount owns two open files of the image: the C one, which searches and
iterations read nodes from, and the Python one, which its file objects read
bytes from. An iterator refers to the C object, a file object to the Python
file, a cursor to a Python file of its own. Processes share nothing: objects
reach them by pickling, which carries the file's name and the cache.

## 2. Modules

| module | models | composed with |
|---|---|---|
| `BsetKeys` | keys, their order, bsets of a node, which keys are visible | |
| `NodeView` | abstract: a node delivers its visible keys in order | `BsetKeys` |
| `BsetMerge` | the N-way merge | implements `NodeView` |
| `KeyFormat` | keys as they are packed, unpacked and compared | |
| `InodeSize` | the size of a file out of an inode's packed fields | |
| `Sectors` | the size of a sector, the unit of keys of extents | |
| `Records` | the records made of the keys of a node | `KeyFormat`, `InodeSize`, `Sectors` |
| `Btree` | btrees after the merge, and what is assumed of them | |
| `BtreeFind` | the search | `Btree` |
| `OrderedScan` | abstract: a scan delivers what is to come in order | |
| `BtreeIter` | the iteration | `Btree`, implements `OrderedScan` |
| `ByteStream` | abstract: each open file is a stream of bytes | |
| `FileReader` | the file objects of several processes | implements `ByteStream` |
| `ImageOpen` | `Bcachefs_open` and its walkers | |
| `IterMemory` | what opening, searching and iterating allocate, free and point at | |
| `Mounts` | objects, open files, processes, pickling | |
| `Catalog` | the lookups of a mount, as functions | `Sectors` |
| `Cursors` | cursors: cache, lookups, `cd` | `Catalog` |
| `AnswersProofs` | theorems about `Records` and `Cursors` | both |
| the other `...Proofs` | theorems about the module they are named for | that module |
| `MC...`, `BtreeShapes` | small instances for TLC | |

The modules meet at what one promises and the next assumes. `ImageOpen` shows
that the merge is handed the bsets `BsetMerge` starts from. `NodeView` shows
that a node reads as an ascending sequence, which is what an entry list of
`Btree` is. `FindsExactly` and `ImplementsScan` are what `Catalog` takes a
search and an iteration for: one entry by its position, all entries in order.
`OpensLayouts` shows that the extents an open hands over are the layouts
`FileReader` assumes. `OrderKept` shows that the order in which the merge puts
packed keys is the one in which the search compares unpacked ones, and
`RecordsExact` that extents, inodes and dirents are the ones `Catalog` is given.

### How state and actions correspond to the code

**BsetMerge.** `kcursors`, `best`, `last`, `keys` are the locals of the function
with these names (`best` is both `best` and `bpos`); `kptr` is the bset the inner
`for` is at, counting down, 0 after it. `Skip` is one turn of
`while (!_bkey_packed_less(last, *kptr))`, `Exhausted` the `continue`, `Visit`
the comparison with `best`, `Take` the end of a round with the append unless the
key is deleted, `Finish` the `break`. `Abort` is the `abort()` of the comparison,
enabled exactly where a comparison would be made; `Underflow` the arithmetic on
`num - 1` with no bset. A key is its position, the rest that is compared
(`size` stands for size and version), whether it is live, and how it is packed.

**BtreeFind.** `stack` is the chain `iter`, `iter->next_it`, ... with the local
`pos` of each activation. `Advance` is a turn of the scan; `Descend` is
`Bcachefs_next_iter` and the recursive call, `DescendFails` its failure;
`ReturnNull`, under `ScanEnds` and `Miss`, returns to the caller, which goes on
at `++pos`. That the child of an iterator stays in `next_it` after a miss and is
freed by the next visit is not told apart from freeing it at once.

**BtreeIter.** `stack` is the chain of `next_it`, `pos` the index of the next
entry. One action per way through `Bcachefs_iter_next` at the deepest iterator:
a leaf key, a leaf key without a value (`PassLeaf`: `bch_val` is null and the loop
goes on), a child read, a child not read (whose pointer is returned and made into a
zeroed struct: `Placeholder`), a child finished, the end. `bare` are the keys
without a value, any of those of the tree.

**KeyFormat, InodeSize, Records.** A key has its `fields`, and packed its bytes
`mem`; `ParseBuffer`, `ParseField` and `ParseBkey` are the three ways to get the
fields back, `PackedLess` and `Lesser` the two ways to compare. A byte has
`Base` values, so that words stay small. In `InodeSize` a byte has `ByteBits`
bits and a word `ByteBits` bytes: the lengths of a varint, 1 to `ByteBits` and
the special one of a whole word, are then all there in little. `Scan` is where
the code's `r` is after so many varints; `WordBefore` is `benz_getle64(r, -8)`.
The iterator of `Records` is at `pos` in its node; `MakeExtent`, `MakeInode` and
`MakeDirent` are the three constructors, `Advance` the increment of `pos`. What
the library is to read back is written by definitions of their own: `Pack` puts
the bytes of each field where the format has it, and `IsPacked` says that a key
has these bytes, with room for the fields and each value within its width;
`Varint` is a number's encoding, and `IsEncoded` says that the fields of an inode
are nine of them, one behind the other (`Ends`), whatever follows; the value of an
inode therefore carries the `numbers` that were written, the ninth of which is
the size. `Written` collects what holds of a value in an image: an extent does
not begin before its file and its bytes fit 64 and 32 bits, and a name has the
room it needs.

**IterMemory.** `heap` is the set of blocks, each named by whose it is, the
level and what it holds (the iterator itself, its node, its array of keys).
`chain` has the iterators of each user, `Search` for the one that all lookups
share. `into` is where the pointers of `keys` lead, `bkey` the current key,
`btree_ptr` the pointer the node was read by, which lies in the parent's node
or, for a root, in the superblock. `Kcursors` are the arrays of cursors that the
merges allocate and nobody frees: a merge that returns leaves one behind, and
those left at one level of one btree go by one name, so that the heap stays
finite. One action per step of a call that allocates or frees; `running` keeps a
call together, as the interpreter's lock does. Which key is looked for is left
open, so that a search may stop anywhere.

**FileReader.** `extent_pos`, `extent_read`, `pos` are the attributes; `image_pos`
is the position of `self._file`, per process. A call of `read`, `read1` or
`readall` is not atomic: `self._file.seek` and `self._file.readinto` are two
actions (`SeekImage`, `ReadImage`; `SeekExtent`, `FillExtent`). `ReadImage` makes
all the bookkeeping of `readinto1` and the test of the loop in `readinto`. Bytes
are their offsets in the image, so that a byte of another place shows. Slices
follow Python's rules for negative and large bounds. `seek` and `reset` leave
`extent_read` as the code does.

**ImageOpen.** `place` is the element a walker stands at, `NULL` before the
first, in words from the start of the structure walked; sizes of headers are
those of the structs. `Sibling` is `benz_bch_next_sibling`, with the end each
caller computes. `NextBset` computes the place of the next bset as the code
does; when no bset is there the words may or may not look like an empty
checksum, so that both `EnterKeys` and the end of the walk are possible. An open
builds the cache of each root, so it also sees whether that merge comes back:
`formats` says how the keys of a bset are packed, and `MergeReturns` that what was
collected has keys, all of one format, as `UnmixedNeverAborts` and
`MixedAlwaysAborts` of `BsetMergeProofs` have it; otherwise `MergeDies`. Opening
ends with a search for the root directory, of which only the outcome is kept
(`search`). `phase` ends in
`opened`, `failed` (0 is returned and everything closed), `died` (abort,
assertion or null pointer) or `astray` (memory that is not what it is taken
for; nothing is said of what follows).

**Mounts.** `handles` are the opens of the image, C and Python alike, in the
order they happened; an object refers to them by number. One action per method
that opens, closes or copies. `pinned` are C files of which an iterator was made:
`PyBcachefs_iter` returns the iterator with a reference too many, so it is never
reclaimed, nor is its file. `Drop` is reclamation, and closes what only that
object referred to. `mail` holds every pickled state there ever was, since a
pickle can be loaded any number of times. The field `revoked` of a file is a
ghost, for the properties alone. `Close` of a mount changes nothing, as section 7
explains.

**Catalog, Cursors.** The lookups are functions of the image. A search
(`FindInode`, `FindDirent`) is the set of the readable entries at a position of
the btree, of which there is at most one, and `Found` is the struct made of it
or `None`. Extents of a file may overlap, since the merge delivers a key
rewritten with another size beside the old one (`merge_sizes`), so `FindExtent`
is the scan itself: keys come in the order of their ends and are compared by
where they begin, and the first that is not lesser is the one looked for or none
is. Offsets are bytes and `Sector` is the code's conversion, which is no
division for an offset inside a sector; inline extents end at such an offset.
`Hash` is any function of names to places of a directory; a name whose place is
taken is filed behind, as the writer does, and `FindDirent` compares hashes
alone, as the code does. `image.unread` are the entries in nodes that cannot be
read: a search misses them, an iteration gives a zeroed struct instead
(`Items`), which the Python iterators of inodes and dirents leave out (`Kept`).
Loops are recursive functions over the turns they make: `FindFrom` and
`CursorFindPath` follow the parts of a path, `Chain` is `_find_extents` with a
search per extent, `CachedExtents` the loop of `_unique_extent_list`, one turn
per extent: `LastOf` is the next one of `reversed(sorted(...))`, `Prepend` what
is done with it. `Children` is the iteration that stops at a greater parent: the
entries none of whose predecessors ends it. `Directories` is the least set of
directories that has the base and is closed under `_walk`. A cursor is where it
stands (`dirent`), the directory it was parsed at (`base`), and the directories
and entries cached then; its inodes and extents are functions of the image,
because `_parse` fills the maps once and nothing changes them. `cd` within the
cache makes a cursor with another `dirent` and the same cache.

## 3. Runs

Passing runs:

| run | instance | shows |
|---|---|---|
| `merge` | all nodes of up to three bsets of two keys (resized, deleted, duplicated) and of two bsets of three keys in two packings | `KeysAscending`, `OnlyNewest`, `NothingLost`; a mixed node is never merged to the end (`MixedNeverDone`); `Completes`; `ImplementsView` |
| `find` | all point and extents btrees over five positions, three leaves cut anywhere, two or three levels, every reference, every read may fail | `FindsExactly`, `BoundedDetour`, `Terminates` |
| `iter` | the same trees, any of their keys without a value | `NothingSkipped`, `Terminates`, `ImplementsScan` |
| `file` | two files of a process on three layouts: two extents out of order in the image, one extent, a truncated image | `CursorAgrees`, `ImplementsStreams`, `ReadReturns` |
| `open` | superblocks with the clean section first, in the middle, last or missing; seven entry lists; all nodes of up to three bsets with sizes around a block, without keys or with keys of two formats; unreadable, foreign, truncated files; each outcome of the search for the root directory | `OutcomeFits`, `RootsOwn`, `CollectsAll`, `Terminates` |
| `mounts` | two processes, three objects, five opens | `FilesFollowOwners`, `CopiesIndependent`, `LeaksAreIterated` |
| `cursors` | all trees of three entries with two names, inodes numbered both ways, fourteen extent layouts with holes, inline extents and old versions, two names of one hash, any one entry unreadable; any sequence of `cd` | `LookupsAgree`, `ListingsAgree`, `OpensAgree`, `OpensLayouts`, `CdLands` |
| `decode` | nodes of extents, inline extents, inodes and dirents, packed in three formats or not packed, and a format with a width that is no whole number of bytes | `UnpackingsAgree`, `OrderKept`, `RecordsExact` |
| `memory` | a btree of three levels and an empty one, two clients and the lookups, opening that fails at each step, closing at any time | `PointersLive`, `OwnedOnce` |

Each but `cursors` has its module's `TypeOK`. Runs that find what the code does differently
from what it says:

| run | property | what happens |
|---|---|---|
| `merge_sizes` | `NewestPerPosition` | an extent rewritten with another size is delivered in both versions |
| `open_bsets` | `CollectsEvery` | the bset behind one that ends on a block boundary is skipped |
| `open_clean` | `CleanIsFound` | a clean section that begins in the last 94 words of the sections is not found, and a sound image fails the assertion made for unclean ones: the end of the walk leaves out the header of the superblock |

The passing runs state the same promises under the condition that makes them
true, so that the rest of the behaviour stays checked: `OnlyNewest` compares
versions of a key as the code does; `FindsExactly` excepts straddling keys;
`CollectsAll` excepts bsets that fill their block; `OutcomeFits` asks of an image
that opens that its clean section is within the walk's reach, and lets one beyond
it die (`OutOfReach`); in the `file` run
(`Documented = TRUE`) clients seek inside the file and reset what they have
finished. Section 7 lists what else the conditions of the properties leave out.

Deadlock is not checked in any run: a merge, search, iteration, open or call
that is over is over, and the bound on opens ends every behaviour of `Mounts`.

### Why the bounds are enough

- *merge*: a key conflicts with a newer version, an older one and a neighbour.
  Three bsets give a middle one; two positions and two sizes give every order of
  two keys and a duplicate; bsets run out at different times because they have
  one or two keys.
- *find*, *iter*: five positions over three leaves give empty leaves, full ones,
  leaves that begin and end with a key, extents across each border, and inode
  boundaries (`Span = 3`). The third level gives a return into a parent that has
  more children and into one that has none.
- *file*: two files are enough to move the position under each other; a file of
  two extents, the second reaching beyond its size, has every branch of the
  bookkeeping; reads of 1 and 3 bytes stay in an extent or cross it.
- *open*: a block is one sector of 64 words and bsets have the sizes 0, 1, one
  that fills the first block, one that fills a later block, and one more than a
  block. Nodes mix formats within a bset or between two, the second of which may
  also lie where the walk does not come: then the merge lives. In some
  superblocks the clean section lies in the last 94 words, which the walk leaves
  out; in others enough lies behind it.
- *mounts*: an object, its copy and what was opened from one of them; five opens
  allow two mounts and a cursor. Names of processes and objects are
  interchangeable (symmetry; the run has no liveness property).
- *cursors*: three entries give directories two deep, siblings, and the same
  name in two directories; three extents are needed for a hole before, between
  and behind. Sectors have two bytes, so that an inline extent can end on a
  sector and inside one. Old versions of extents end where a newer one does or
  inside it, or are of the two sorts that section 7 leaves out. Two names with
  one hash and a third give a collision in a directory and none.
- *decode*: a bit per byte (`Base = 2`) gives each field two values beside its
  offset, and wide fields some more; three bits per byte give varints of one, two,
  three and four bytes, a value on each side of each border. Names have lengths
  around the room of one word, of two and of the 255 that a byte can count.
- *memory*: at the third level an iterator has a child and a parent. The empty
  btree has no array of keys. Two clients and the search tell apart who owns
  what.

## 4. Fairness

All actions of the library are steps of a call made by one thread, which runs
until it returns; there is no waiting and no scheduling in the library. So
`BsetMerge`, `BtreeFind`, `BtreeIter` and `ImageOpen` assume weak fairness of
`Next`: a call that has begun goes on. For `BtreeIter` it also means a consumer
that asks for the next item until there is none. In `FileReader` weak fairness is
assumed of `Step(r)` only: a call, once made, runs, but nobody has to make one.
`Mounts`, `Cursors`, `Records` and `IterMemory` are driven by their clients and
assume none.

## 5. Proofs

For every value of the constants that satisfies the assumptions:

**`BsetMergeProofs`** (`NodesAssumption`: nodes are sequences of sorted,
non-empty bsets). `TypeCorrect`, `CacheAscending`, `CacheOnlyNewest`,
`CacheComplete`, `MixedAlwaysAborts`, and `MergeImplementsView`: each step of the
merge is a step of `NodeView` or a stutter. None of these is inductive: an array
that is right so far says nothing of what the cursors will bring. `MergeInv` adds
what the loops keep: keys behind a cursor are not beyond `last`; the cursors the
inner loop has visited are beyond it; `best` is the least of them and from the
newest bset that has it; what is recorded is visible and not beyond `last`, and
whatever is visible and not beyond `last` is recorded. Lemma `BestIsNext` is the
core: at the end of a round nothing lies between `last` and `best`.
`MixedAlwaysAborts` adds `OnePacking`: everything compared so far was packed as
the last accepted key is. `UnmixedNeverAborts` is the other half: the merge of a
node that has keys, all of them packed or all unpacked, never ends by the failed
assertion or in front of an empty array. `MergeComesCloser`: with each step the keys in
front of the cursors, times one more than the bsets, plus the cursors still to
visit in the round, become fewer; each round passes a key (`RoundLess`).

**`BtreeFindProofs`** (`TreesAssumption`, which is `IsTree`; `SpanAssumption`,
`NoNodeAssumption`, `ReferencesAssumption`). `SearchExact` and
`SearchTypeCorrect`, for trees of any height and width and any pattern of
failed reads. The invariant `FindInv` says that, unless a read has failed or a
key straddles, no iterator of the chain has passed an entry with the reference
below it; lemma `RestExcluded` shows that when a scan stops, what it has not
passed cannot hold it either. `DetourBounded` rests on it too: a search goes
down only where an entry begins at or before the reference, so all but the last
of the entries in front of it end before the reference (`DescendBounded`), and
the iterators above stay where they are until it comes back (`DetourStep`).
`SearchComesCloser` bounds the whole search: `Mark` lists the positions of the
chain level by level, each step moves it on in lexicographic order (`Before`), and
the number of lists still to come, one of the finitely many of the tree, falls. A
list has a fixed length because the chain is no deeper than the tree (`Shallow`:
each child is lower than its node).

**`FileReaderProofs`** (`LayoutsAssumption`: files without holes;
`ProcessAssumption`, `NumbersAssumption`; the theorems also assume
`Documented`). `CursorsAgree` and `ReaderTypeCorrect`, for any number of files,
processes, layouts, buffer sizes and truncated images. `CursorInv` adds that a
read of the image that has been seeked for has an extent to read from, and that
the buffer of `readall` is as long as the file. Lemma `LastExtent` is why the two
increments of the extent index in one call agree: the extent that reaches
beyond the size of a file is its last.
`ReaderImplementsStreams` is the refinement of `ByteStream`: whatever the files
of a process do to the position of the image that they share, `read`, `readinto`
and `read1` deliver what follows the last byte delivered, and `readall` the whole
file. A cursor that agrees with itself does not say what is in a buffer, so
`StreamInv` adds what a running call has done: its buffer holds the file from
where the call began up to the cursor, or for `readall` the extents it has
passed; and when the image has been seeked for it, the position is that of the
next byte, which no other file can have moved since. `ExtentsApart` (by a least
counterexample) shows that an offset lies in one extent only, `ReadImageTakes`
and `FillExtentTakes` that what is read belongs where it is put. Each step is
then a `Read`, `Read1`, `ReadAll` or `Seek` of the streams, or a stutter.
`CallsComeCloser` is the part of `ReadReturns` that can be proved: each step of
a call on a file that is in the image lowers a natural number (`ToGo`: the room
and the extents left), and no step of another file raises it.

**`BtreeIterProofs`** (`TreesAssumption`, `PlaceholderAssumption`).
`IterTypeCorrect`, `NothingEverSkipped` and `IterImplementsScan`: for trees of
any height and width, any pattern of failed reads and any keys without a value
each step of the iteration is a step of `OrderedScan` or a stutter.
`NothingSkipped` alone does not say that the next key is the least to come;
`IterInv` adds `DeeperFirst`: what is to come at a level of the chain lies in
front of what is to come at the levels above. `RestFacts` says how taking an
entry splits the rest of a node, `ChainParts` how the deepest iterator splits
the chain; `TakeFacts` combines them, and each action then has a lemma of its
own. `IterationComesCloser` orders what is left in the nodes of the chain in the
same way as `SearchComesCloser`; it falls with each step, so that an iteration
ends, whatever reads fail.

**`ImageOpenProofs`** (`BlockAssumption`; `ImagesAssumption`, which is
`IsImage`). `OpenTypeCorrect`, `OutcomeAlwaysFits`, `RootsAlwaysOwn` and
`AlwaysCollectsAll`, for images of any number of sections, journal entries and
bsets and any size of a block. The code finds the next element by adding the size
of the current one to its place, so the proof begins with where elements lie:
each behind those in front of it (`Apart`, an induction over the set of indexes
that have this property), which gives what the three walks need: the next
place is that of the next element and nothing lies between (`SiblingFacts` for
sections and entries, `RoundFacts` and `NodeFacts` for bsets, whose places are
rounded up to blocks). `OpenInv` adds to the properties what a walk has passed
(`Walked`: no clean section and no root of the btree so far), what the phases
before have shown (`Passed`), what has been collected of each node up to the
current bset (`Collected`), and that the merges so far were given keys of one
format (`Merged`); without these an outcome is only the last test
made, and says nothing about the image. From what a merge was given to what a node
holds leads `FormatsFacts`: the two are the same where all bsets are collected, and
a walk that is cut short still has the first bset. Lemma `Stops` covers the steps that end
an open, and each other action has a lemma of its own. `OpenComesCloser`: what is
left of the words to walk for the current btree (`Left`), plus enough for each
btree to come (`Round`), falls with each step. It rests on each walk's next place
being behind the current one and in front of the end (`WithinEnds`).

**`AnswersProofs`**, on `Records` (`NodesAssumption`, `BaseAssumption`,
`ByteBitsAssumption`, `SectorAssumption`). For every format, whatever its widths
and offsets, every node and every value:
- `OrderAlwaysKept`: two keys of a node whose sums do not wrap are in one order
  packed and unpacked. `ShiftedOrder` is the reason: the first field that
  differs is the same, and differs the same way.
- `UnpackingsAlwaysAgree`: the three unpackings return what was packed. `PlaceIs`
  and `FieldsApart` say where fields lie and that none lies in another;
  `PackedBytes` what is in the bytes of one; `Digits` that a number is the sum of
  its bytes, for each width; `FieldIs` joins them.
- `RecordsTyped` and `RecordsAlwaysExact`, from `RecordOfKey`, the invariant that
  a record, once made, is one of the current key (`OfKey`): by itself what was
  made of a key says nothing of the key the iterator is at. `ExtentExact` and
  `DirentExact` are sums that must not wrap; the room of a name is 7 more than
  a multiple of 8, so below 256 if the name is. `InodeExact` rests on `SizeIs`:
  the scan of the code ends where the varints end (`ScanIs`, `EndsAre`) because
  of the first byte of a varint, plus one, the trailing zeros give the length
  (`LengthRead`, from `OddMultiple`), and the word in front of the end of the
  ninth, shifted, is its value, whatever lies in front of it (`ReadBytes`,
  `VarintRead`). The provers do not know powers with an exponent that is no
  numeral; `PowerType`, `PowerNext` and `PowerSum` get what is needed of 2^n from
  its being the number of subsets of 1 to n.

On `Cursors` (`ImagesAssumption`, which is `IsImage`; `HashAssumption`,
`NoneAssumption`, `PathsAssumption`, `RaisedAssumption`, `SectorAssumption`). For
images of any number of entries, any tree of directories, any paths and any
sequence of `cd`:
- `ClientInvariant`: the cache of a cursor is that of its base, the base is the
  root or a directory of the image, and the cursor stands at an entry of the cache or at
  the base. The other theorems compare this cache with the image.
- `LookupsAlwaysAgree` and `CdAlwaysLands`: `MountWalk` and `CursorWalk` say how a
  lookup goes from one part of the path to the next, `StepsAgree` that one part
  leads mount and cursor to the same entry, `OtherEnds` that what is neither file
  nor directory is the end of a path; `WalksAgree` compares the two along the
  path.
- `ListingsAlwaysAgree`: an entry of a directory comes before the break of the
  iteration, because entries are ordered by their directory (`ChildrenAre`).
- `OpensAlwaysAgree` and `OpensAlwaysLayouts`: a file without holes is covered by
  tiles, extents one behind the other, around which old versions may lie
  (`Tiled`, which a `Solid` file has by `SolidTiles`). What is looked up where a
  tile ends is the tile that begins there, because whatever the scan passes begins
  in front of it (`FindsNext`), and behind the last there is nothing
  (`NothingBehind`); so the chain of lookups has all the tiles of the file and no
  other extent (`ChainIs`). `_unique_extent_list` takes the extent that comes last
  (`LastIs`), which is a tile in front of the list made so far, or an old version
  that does not end where the list begins and is dropped (`GathersNext`); each turn
  keeps the bytes and the layout (`MergedBytes`, `PrependCovers`), so the cached
  list has the bytes of all the tiles and no other (`CachedIs`).

What a recursive function computes is proved in three steps: `Recursion`, that the
function with the equation exists on 0 to n; `UpTo`, that a set of numbers which
has 0 and with each number below n the next has all of them; and then the set of
the numbers for which the claim holds.

**`MountsProofs`** (`NoneAssumption`: `None` is none of the things it stands in
for). `MountsTypeCorrect`, `FilesAlwaysFollow`, `CopiesAlwaysIndependent` and
`OnlyIteratedLeak`, for any number of objects, processes and opens; `MaxHandles`
bounds only what TLC explores, the theorems hold for each of its values.
`MountInv` adds to the four properties `FsApart` (the C file of a mount is never
a file of bytes: what closes one must not revoke a file on the other),
`MountedHasFs`, and `ListingsFromMounts` (a process that dies takes with it every
listing that waits for one of its mounts). The actions are of three sorts, each
with one lemma: `Placed` for those that put a mount or a cursor on new handles,
`Closed` for those that close handles, `Put` for those that open and close
nothing; an action then only has to show that it is of its sort (`Places`,
`Closes`, `Puts`). What makes reclamation safe is in `DropKeeps`: a file of bytes
is closed only when nobody else uses it, a C file only when no iterator keeps it.

**`IterMemoryProofs`** (`TreesAssumption`). `MemoryTypeCorrect`,
`PointersAlwaysLive` and `AlwaysOwnedOnce`, for any number of btrees, levels and
clients. Neither of the last two is inductive: that a freed block has no other
owner needs to know where the others could have theirs. `MemInv` therefore says
that the name of each block tells whose it is and at which level (`Shaped`), that
what a pointer leads to belongs to the level it should (`Linked`), and that the
heap is the union of what owners have (`Accounted`). Blocks of different users or
levels then differ by their names (`Names`). The arrays of cursors are the part of
the heap that nobody owns: `AlwaysOwnedOnce` says that nothing else is lost, and that
the array of each node held is. Every step of a search or an
iteration changes the chain of one user, below a level it keeps: lemma `Changed`
shows once that such a step (`Changes`) keeps the invariant, and each action only
shows that it is one.

All the safety properties of the passing runs are proved. Only model-checked are
the liveness properties (`Completes`, `Terminates`, `ReadReturns`), for which the
prover has no rule. Of each the part without fairness is proved, that a natural
number falls with each step: `MergeComesCloser`, `SearchComesCloser`,
`IterationComesCloser`, `OpenComesCloser` and `CallsComeCloser`. What TLC adds is
that the program does take its next step and that it does not stop halfway. The
findings are counterexamples, which TLC shows.

## 6. Assumptions about images

Images are made by the kernel's tools and the scripts of the repository:
elements of superblock and clean section have positive sizes and follow one
another; bsets are sorted, begin on blocks and end where the node says; a btree
has finitely many nodes, a child lower than its parent; nodes are ordered;
extents begin at sectors; only directories have entries, and all entries of an
inode have its type; inodes are encoded the new way or have no size. In `Btree`,
where a search is judged by the one key it should find, extents do not overlap; in
`Catalog`, where an open is judged by the bytes of a file, they may. Holes,
truncation, missing sections, roots without keys or with keys of two formats, nodes
with checksums, deleted keys, keys without a value in an iteration, old versions of
extents, unreadable nodes, collisions of names and files that are no images are not
assumed away.

The other assumptions on constants are about notation: `None` is not an answer of
a lookup nor an exception, a byte has more than one value, sectors have bytes,
paths are made of names that have a hash. `ByteBits` is at most 9: nine varints
are at least nine bytes, so the word the code reads in front of the end of the
ninth (8 bytes in the code) lies in the fields.

## 7. Known differences, and what is not modelled

The conditions of the passing properties leave out, besides the findings:

- an extent across the border of two nodes, which is not found by its start
  (`bcachefs_iterator.c:188`; `NoStraddling`);
- `reset`, which assigns `_extend_read` and so keeps the offset in the extent
  (`bcachefs.py:150`; `Documented`);
- fields whose width is not 8, 16, 32 or 64 bits, which are read as -1
  (`utils.c:11`), and sums and sizes beyond 64 and 32 bits (`Regular`,
  `Comparable`, `Written`);
- names that fill their key and have no zero byte in the 255 from their start:
  the length is a byte and wraps (`bcachefs_iterator.c:777`; `StrLen < 256`);
- names of one hash in one directory: the one filed first is found for both
  (`bcachefs_iterator.c:308`; `Clear`);
- files with holes, an end that no extent reaches, or an extent in an unreadable
  node (`Solid`);
- files with old versions of extents, which `merge_sizes` delivers, when such a
  version begins where a current extent does and ends behind it, or lies inside
  another extent (`Solid`, `Tile`). There mount and cursor open different bytes:
  after a file of four sectors was replaced by one of two, the search of the mount
  stops at the new extent, whose end comes first, while `_unique_extent_list` takes
  what comes last, the old one (`bcachefs.py:936-943`). `FileReader` says nothing of
  such files, whose extents are no layout;
- an unreadable entry of a directory, which makes every `cd` raise `KeyError`
  while the mount still looks up the rest (`bcachefs.py:888`; `HasOrphans`);
- a bset of a node with checksums behind the first, which is never looked at
  (`bcachefs.c:182`; `summed`);
- the arrays of cursors of the merge, allocated at `bcachefs_iterator.c:402` and never
  freed, one for each node read (`IsKcursors`);
- an iterator asked to go down after `umount`, which uses a null pointer
  (`bcachefs_iterator.c:107`; `IterCrashes`, `Descend`).

One more difference needs no run: `close` of a mount, by its docstring "Close
the disk image. This invalidates all open files objects" (`bcachefs.py:617`),
calls `FilesystemMixin.umount` (`bcachefs.py:618`), which the mixin only
declares by `raise NotImplemented` (`bcachefs.py:448`). That raises `TypeError`
and closes nothing; `umount` and leaving a `with` block do close. In `Mounts`,
`Close` is therefore a step without effect.

Not modelled:

- *Threads*, and handles inherited by `fork`. Two threads that read files of one
  mount interleave between `seek` and `readinto`; the documentation describes
  processes with pickled objects.
- *Failing `malloc`.*
- *SipHash.* Nothing modelled depends on which function it is; `Catalog` takes
  any.
- *Printing*, the output of the example program, argument parsing of the
  extension module, scripts.

## 8. Plan

Done, in this order: the merge, which every answer depends on; search and
iteration; file objects; opening; lifecycle; lookups and cursors; key formats and
records; memory; proofs of all their safety properties; the refinements of
`NodeView`, `OrderedScan` and `ByteStream`; what bounds the steps of each loop.
The plan is complete. What would extend it is a part not modelled so far: two
threads that share a mount.
