------------------------------ MODULE ImageOpen ------------------------------
(***************************************************************************)
(* Bcachefs_open: the superblock is read, its clean section searched for   *)
(* the roots of the three btrees, and the bsets of each root's node are    *)
(* collected for the merge of BsetMerge, of which an open only sees whether*)
(* the process survives it.  Places and sizes count 64-bit words from the  *)
(* start of the structure walked; NULL, place 0, is the null pointer.  A   *)
(* definition Slip... is a slip in the one that follows it, for mutation   *)
(* testing of the properties; no specification uses it.                    *)
(***************************************************************************)
EXTENDS Integers, Sequences

CONSTANTS
  Images,     \* images that are opened
  Block       \* words in a block: a power of two of 512 bytes

ASSUME BlockAssumption == Block \in Nat \ {0}

NULL == 0
SbHeader == 94      \* sizeof(struct bch_sb)
CleanHeader == 3    \* sizeof(struct bch_sb_field_clean)
NodeHeader == 17    \* offset of keys in struct btree_node
BsetHeader == 3     \* sizeof(struct bset)
Csum == 2           \* sizeof(struct bch_csum)

\* The order in which Bcachefs_open initialises the iterators.
Order == <<"extents", "inodes", "dirents">>
Tree == {Order[i] : i \in 1..Len(Order)}

BsetEnd(bset) == bset.at + BsetHeader + bset.u64s
RoundUp(place) == ((place + Block - 1) \div Block) * Block

Section == [at: Nat, size: Nat \ {0}, type: STRING]
JsetEntry == [at: Nat, size: Nat \ {0}, type: STRING, btree: STRING, value: {"none", "used", "unused"}]
\* A key is packed in the format of its node or is not packed at all.
Format == {"local", "current"}
Bset == [at: Nat, u64s: Nat, formats: SUBSET Format]
HasKeys(bset) == bset.u64s > 0

\* What the search for the root directory's inode comes to: it has a hash seed;
\* it has none, is not there, or a node on the way cannot be read; or the merge
\* of such a node ends the process.
Outcome == [seeded |-> "opened", unseeded |-> "failed", dies |-> "died"]

\* Elements of the superblock and of its clean section follow one another; the
\* entries' sizes include their one-word header.
Follow(list, first, end) ==
  /\ \A i \in 1..Len(list) :
       list[i].at = IF i = 1 THEN first ELSE list[i - 1].at + list[i - 1].size
  /\ end = IF list = <<>> THEN first ELSE list[Len(list)].at + list[Len(list)].size

\* A node is written bset by bset, each on the first free block behind its
\* checksum; the node's own header comes before the first.
IsNode(node) ==
  LET n == Len(node.bsets) IN
  /\ node.bsets \in Seq(Bset)
  /\ n > 0 /\ node.bsets[1].at = NodeHeader
  /\ \A i \in 1..n : HasKeys(node.bsets[i]) <=> node.bsets[i].formats # {}
  /\ \A i \in 2..n : node.bsets[i].at = RoundUp(BsetEnd(node.bsets[i - 1])) + Csum
  /\ node.written = RoundUp(BsetEnd(node.bsets[n]))
  /\ node.readable \in BOOLEAN /\ node.summed \in BOOLEAN

IsImage(i) ==
  /\ i.medium \in {"missing", "short", "foreign", "cut", "whole"}
  /\ i.sections \in Seq(Section) /\ i.entries \in Seq(JsetEntry)
  /\ i.u64s \in Nat /\ i.clean \in Nat
  /\ Follow(i.sections, SbHeader, SbHeader + i.u64s)
  /\ \A s, t \in 1..Len(i.sections) :
       i.sections[s].type = "clean" /\ i.sections[t].type = "clean" => s = t
  /\ \A s \in 1..Len(i.sections) : i.sections[s].type = "clean" => i.sections[s].size = i.clean
  /\ Follow(i.entries, CleanHeader, i.clean)
  /\ \A tree \in Tree : IsNode(i.nodes[tree])
  /\ i.search \in DOMAIN Outcome

ASSUME ImagesAssumption == \A i \in Images : IsImage(i)

VARIABLES
  image,
  phase,      \* what the open is doing
  nth,        \* index in Order of the btree whose iterator is initialised
  place,      \* current element of the walk, or NULL before the first
  root,       \* per btree, the journal entry found
  collected   \* per btree, the bsets collected, in order

vars == <<image, phase, nth, place, root, collected>>

Init == /\ image \in Images
        /\ phase = "header"
        /\ nth = 1
        /\ place = NULL
        /\ root = [tree \in Tree |-> NULL]
        /\ collected = [tree \in Tree |-> <<>>]

Type == Order[nth]
Element(list, p) == list[CHOOSE i \in 1..Len(list) : list[i].at = p]

\* benz_bch_next_sibling: the element behind the current one, whose size word
\* tells where that is, or the first one; NULL at or beyond the end.
Sibling(list, first, end) ==
  LET c == IF place = NULL THEN first ELSE place + Element(list, place).size IN
  IF c >= end THEN NULL ELSE c

SlipGoto(next) == phase' = next /\ place' = place
Goto(next) == phase' = next /\ place' = NULL

\* The header cannot be read, or the superblock it announces.
OpenFails ==
  /\ phase = "header" /\ image.medium \in {"missing", "short", "cut"}
  /\ Goto("failed")
  /\ UNCHANGED <<image, nth, root, collected>>

\* get_sb_size is 0 without the magic number: realloc frees the superblock and
\* benz_bch_realloc_sb frees it again, on which the allocator aborts.
OpenForeign ==
  /\ phase = "header" /\ image.medium = "foreign"
  /\ Goto("died")
  /\ UNCHANGED <<image, nth, root, collected>>

ReadSuperblock ==
  /\ phase = "header" /\ image.medium = "whole"
  /\ Goto("sections")
  /\ UNCHANGED <<image, nth, root, collected>>

\* benz_bch_next_sb_field(sb, NULL, BCH_SB_FIELD_clean): the end it takes leaves
\* the header of the superblock out.
NextField == Sibling(image.sections, SbHeader, image.u64s)
FieldIsClean == Element(image.sections, NextField).type = "clean"

PassField ==
  /\ phase = "sections" /\ NextField # NULL /\ ~FieldIsClean
  /\ place' = NextField
  /\ UNCHANGED <<image, phase, nth, root, collected>>

FindClean ==
  /\ phase = "sections" /\ NextField # NULL /\ FieldIsClean
  /\ Goto("entries")
  /\ UNCHANGED <<image, nth, root, collected>>

\* assert(sb_field_clean != NULL), or the null pointer used when it is left out.
NoClean ==
  /\ phase = "sections" /\ NextField = NULL
  /\ Goto("died")
  /\ UNCHANGED <<image, nth, root, collected>>

\* Bcachefs_iter_next_jset_entry: the first root entry of the btree.
NextEntry == Sibling(image.entries, CleanHeader, image.clean)
SlipEntryIsRoot == Element(image.entries, NextEntry).btree = Type
EntryIsRoot ==
  LET entry == Element(image.entries, NextEntry)
  IN entry.type = "btree_root" /\ entry.btree = Type

PassEntry ==
  /\ phase = "entries" /\ NextEntry # NULL /\ ~EntryIsRoot
  /\ place' = NextEntry
  /\ UNCHANGED <<image, phase, nth, root, collected>>

FindRoot ==
  /\ phase = "entries" /\ NextEntry # NULL /\ EntryIsRoot
  /\ root' = [root EXCEPT ![Type] = NextEntry]
  /\ Goto("node")
  /\ UNCHANGED <<image, nth, collected>>

\* assert(jset_entry != NULL), or the key of a null entry.
NoRoot ==
  /\ phase = "entries" /\ NextEntry = NULL
  /\ Goto("died")
  /\ UNCHANGED <<image, nth, root, collected>>

Value == Element(image.entries, root[Type]).value
Node == image.nodes[Type]

SlipReadNode ==
  /\ phase = "node" /\ Value = "used"
  /\ Goto("bsets")
  /\ UNCHANGED <<image, nth, root, collected>>

ReadNode ==
  /\ phase = "node" /\ Value = "used" /\ Node.readable
  /\ Goto("bsets")
  /\ UNCHANGED <<image, nth, root, collected>>

\* No pointer, or fread does not get the sectors: the && of Bcachefs_open ends
\* and everything is closed.
NoNode ==
  /\ phase = "node"
  /\ \/ Value = "none"
     \/ Value = "used" /\ ~Node.readable
  /\ Goto("failed")
  /\ UNCHANGED <<image, nth, root, collected>>

\* A pointer not in use is passed by sizeof(struct bch_btree_ptr_v2), which
\* leaves its extent pointer out: what is taken for the next one is that.
StrayPointer ==
  /\ phase = "node" /\ Value = "unused"
  /\ Goto("astray")
  /\ UNCHANGED <<image, nth, root, collected>>

\* benz_bch_next_bset: where the next checksum is expected.
Ahead(bset) == BsetEnd(bset) + Block - (BsetEnd(bset) % Block)
IsBset(c) == \E i \in 1..Len(Node.bsets) : Node.bsets[i].at = c
SlipWorth(c) == place # NULL => HasKeys(Element(Node.bsets, place))
Worth(c) == HasKeys(Element(Node.bsets, c))
SlipNextBset ==
  IF place = NULL \/ ~Worth(place) THEN NodeHeader
                                   ELSE Ahead(Element(Node.bsets, place)) + Csum
NextBset ==
  IF place = NULL THEN NodeHeader ELSE Ahead(Element(Node.bsets, place)) + Csum

\* Bsets without keys are passed over.
VisitBset ==
  /\ phase = "bsets" /\ NextBset < Node.written /\ IsBset(NextBset)
  /\ place = NULL \/ ~Node.summed
  /\ place' = NextBset
  /\ collected' = IF Worth(NextBset) THEN [collected EXCEPT ![Type] = Append(@, NextBset)]
                                     ELSE collected
  /\ UNCHANGED <<image, phase, nth, root>>

\* The place lies among the keys of a bset, in words that happen to be zero
\* where the checksum should be, and keys are taken for a bset.
EnterKeys ==
  /\ phase = "bsets" /\ NextBset < Node.written /\ ~IsBset(NextBset)
  /\ Goto("astray")
  /\ UNCHANGED <<image, nth, root, collected>>

\* Beyond what was written, or a checksum that is not zero.
NoMoreBsets ==
  \/ NextBset >= Node.written
  \/ ~IsBset(NextBset)
  \/ place # NULL /\ Node.summed

\* The merge of no bset at all reads far outside its array of cursors, and the
\* comparison of two keys of different formats calls abort().
Formats(node, places) == UNION {Element(node.bsets, places[i]).formats : i \in 1..Len(places)}
MergeReturns == \E format \in Format : Formats(Node, collected[Type]) = {format}

\* The cache of the root's keys is built, and the next btree's turn comes.
BsetsEnd ==
  /\ phase = "bsets" /\ NoMoreBsets /\ MergeReturns
  /\ IF nth < Len(Order) THEN nth' = nth + 1 /\ Goto("sections")
                         ELSE nth' = nth /\ Goto("root")
  /\ UNCHANGED <<image, root, collected>>

MergeDies ==
  /\ phase = "bsets" /\ NoMoreBsets /\ ~MergeReturns
  /\ Goto("died")
  /\ UNCHANGED <<image, nth, root, collected>>

\* The root directory's inode must have a hash seed.
OpenEnds ==
  /\ phase = "root"
  /\ Goto(Outcome[image.search])
  /\ UNCHANGED <<image, nth, root, collected>>

Next == \/ OpenFails \/ OpenForeign \/ ReadSuperblock
        \/ PassField \/ FindClean \/ NoClean
        \/ PassEntry \/ FindRoot \/ NoRoot
        \/ ReadNode \/ NoNode \/ StrayPointer
        \/ VisitBset \/ EnterKeys
        \/ BsetsEnd \/ MergeDies \/ OpenEnds

\* One sequential call, which runs to its end.
Spec == Init /\ [][Next]_vars
FairSpec == Spec /\ WF_vars(Next)

-----------------------------------------------------------------------------
(* Properties *)

Final == {"opened", "failed", "died", "astray"}
Places(list) == {list[i].at : i \in 1..Len(list)}

\* A walk stands on an element of the structure it walks, wherever the sizes it
\* has read have led it.
TypeOK ==
  /\ IsImage(image)
  /\ phase \in {"header", "sections", "entries", "node", "bsets", "root"} \cup Final
  /\ nth \in 1..Len(Order)
  /\ place \in {NULL} \cup CASE phase = "sections" -> Places(image.sections)
                             [] phase = "entries" -> Places(image.entries)
                             [] phase = "bsets" -> Places(Node.bsets)
                             [] OTHER -> {}
  /\ root \in [Tree -> {NULL} \cup Places(image.entries)]
  /\ DOMAIN collected = Tree
  /\ \A tree \in Tree : collected[tree] \in Seq(Places(image.nodes[tree].bsets))

RootEntries(i, tree) ==
  {e \in 1..Len(i.entries) : i.entries[e].type = "btree_root" /\ i.entries[e].btree = tree}

\* A file system unmounted cleanly leaves a clean section in its superblock.
Clean(i) == {s \in 1..Len(i.sections) : i.sections[s].type = "clean"}

\* The clean section begins in the last words of the sections, as many as the
\* header of the superblock has: the walk that looks for it stops before.
OutOfReach(i) == \E s \in Clean(i) : i.sections[s].at >= i.u64s

\* A bset that fills its last block, with another one behind it.
FillsBlock(node) ==
  \E i \in 1..(Len(node.bsets) - 1) : BsetEnd(node.bsets[i]) % Block = 0

\* A node whose bsets an open may not all see.
CutShort(node) == node.summed \/ FillsBlock(node)

\* A root with keys, which are all packed alike.
AllFormats(node) == UNION {node.bsets[i].formats : i \in 1..Len(node.bsets)}
Mergeable(node) == \E format \in Format : AllFormats(node) = {format}

\* A file system unmounted cleanly whose root nodes can be read and searched,
\* as far as an open sees them.
Openable(i) ==
  /\ i.medium = "whole" /\ Clean(i) # {} /\ i.search = "seeded"
  /\ \A tree \in Tree :
       /\ \E e \in RootEntries(i, tree) :
            i.entries[e].value = "used" /\ \A f \in RootEntries(i, tree) : e <= f
       /\ i.nodes[tree].readable
       /\ AllFormats(i.nodes[tree]) # {}
       /\ Mergeable(i.nodes[tree]) \/ CutShort(i.nodes[tree])

\* What kills the process: a file that is not a file system, one that was not
\* unmounted cleanly or whose clean section is not found, a root that is missing,
\* without keys or with keys of both formats, in itself, for all that an open
\* sees of it, or in a node that the search for the root directory comes to.
Lethal(i) ==
  \/ i.medium = "foreign" \/ Clean(i) = {} \/ OutOfReach(i) \/ i.search = "dies"
  \/ \E tree \in Tree :
       \/ RootEntries(i, tree) = {}
       \/ ~Mergeable(i.nodes[tree])
       \/ CutShort(i.nodes[tree]) /\ ~HasKeys(i.nodes[tree].bsets[1])

HasStrayPointer(i) == \E e \in 1..Len(i.entries) : i.entries[e].value = "unused"

\* Bcachefs_open gives a file system only of a clean image whose roots can be
\* read and searched; it refuses no such image; the process dies of nothing but
\* what is named above, whichever reads fail; and memory that is not a bset is
\* taken for one only behind a bset that fills its block or an unused pointer.
OutcomeFits ==
  /\ phase = "opened" => Openable(image) /\ ~OutOfReach(image)
  /\ phase = "failed" => ~Openable(image)
  /\ phase = "died" => Lethal(image)
  /\ phase = "astray" =>
       HasStrayPointer(image) \/ \E tree \in Tree : FillsBlock(image.nodes[tree])

\* Only an image without a clean section, which needs an fsck, fails the
\* assertion of Bcachefs_iter_next_jset_entry, as the comment on it has it.
CleanIsFound == phase = "sections" /\ NextField = NULL => Clean(image) = {}

\* An iterator is never given the root of another btree, nor a later root of its
\* own, whatever entries surround it in the journal set.
RootsOwn ==
  \A tree \in Tree :
    root[tree] # NULL =>
      \E e \in RootEntries(image, tree) :
        root[tree] = image.entries[e].at /\ \A f \in RootEntries(image, tree) : e <= f

\* The places of all the bsets that hold keys, oldest first, each once.
IsAllOf(places, node) ==
  /\ {places[i] : i \in 1..Len(places)} =
       {node.bsets[i].at : i \in {j \in 1..Len(node.bsets) : HasKeys(node.bsets[j])}}
  /\ \A i, j \in 1..Len(places) : i < j => places[i] < places[j]

Done(tree) == \E i \in 1..Len(Order) : Order[i] = tree /\ (i < nth \/ phase \in {"root", "opened"})

\* A merge is given all the bsets of the node that hold keys, oldest first, when
\* none fills its last block and they carry no checksums.
CollectsAll ==
  \A tree \in Tree :
    Done(tree) /\ ~image.nodes[tree].summed /\ ~FillsBlock(image.nodes[tree])
      => IsAllOf(collected[tree], image.nodes[tree])

\* No bset of a node without checksums is ever left out, as the comments on
\* benz_bch_next_bset have it: the next bset starts at the next block.
CollectsEvery ==
  phase = "opened" =>
    \A tree \in Tree : ~image.nodes[tree].summed => IsAllOf(collected[tree], image.nodes[tree])

\* An open comes back, or the process dies: no walk goes round in circles.
Terminates == <>(phase \in Final)
=============================================================================
