----------------------------- MODULE MCImageOpen -----------------------------
(* Images laid out from lists of sizes: one part varies, the others are plain. *)
EXTENDS ImageOpen, SequencesExt

\* Elements of the given sizes, one behind the other.
LaidOut(first, elements) ==
  LET Place(done, element) ==
        LET last == done[Len(done)] IN
        Append(done, [element EXCEPT !.at = IF done = <<>> THEN first ELSE last.at + last.size])
  IN FoldLeft(Place, <<>>, elements)

EndOf(first, elements) ==
  LET Add(sum, element) == sum + element.size IN FoldLeft(Add, first, elements)

Field(type, size) == [at |-> 0, size |-> size, type |-> type]
Entry(type, btree, value) ==
  [at |-> 0, size |-> IF value = "none" THEN 6 ELSE 12, type |-> type, btree |-> btree, value |-> value]
Padding == [at |-> 0, size |-> 1, type |-> "btree_keys", btree |-> "none", value |-> "none"]
Root(tree) == Entry("btree_root", tree, "used")
Roots == <<Root("extents"), Root("inodes"), Root("dirents")>>
Other == Entry("btree_root", "alloc", "used")
Key == Entry("btree_keys", "inodes", "used")

EntryLists ==
  { Roots,
    <<Other, Padding, Root("dirents"), Key, Root("inodes"), Root("extents"), Padding>>,
    <<Root("inodes"), Root("extents"), Root("inodes"), Root("dirents")>>,
    <<Root("extents"), Root("dirents")>>,
    <<Padding>>,
    <<Root("extents"), Entry("btree_root", "inodes", "none"), Root("inodes"), Root("dirents")>>,
    <<Root("extents"), Entry("btree_root", "inodes", "unused"), Root("dirents")>> }

\* Sections around a clean section of the given size.
SectionLists(clean) ==
  { <<Field("clean", clean)>>,
    <<Field("members", 70), Field("clean", clean)>>,
    <<Field("journal", 30), Field("clean", clean), Field("quota", 60)>>,
    <<Field("members", 200)>> }

NodeOf(sizes, readable, summed) ==
  LET Place(done, size) ==
        Append(done, [at |-> IF done = <<>> THEN NodeHeader
                             ELSE RoundUp(BsetEnd(done[Len(done)])) + Csum,
                      u64s |-> size,
                      formats |-> IF size > 0 THEN {"local"} ELSE {}])
      bsets == FoldLeft(Place, <<>>, sizes)
  IN [bsets |-> bsets, written |-> RoundUp(BsetEnd(bsets[Len(bsets)])),
      readable |-> readable, summed |-> summed]

\* Empty, small, and filling one block or two as the first bset or a later one.
BsetSizes == {0, 1, Block - NodeHeader - BsetHeader, Block - Csum - BsetHeader, Block + 1}
BsetLists == {<<a>> : a \in BsetSizes} \cup {<<a, b>> : a, b \in BsetSizes}
               \cup {<<a, b, c>> : a, b, c \in BsetSizes}
Plain == NodeOf(<<3, 2>>, TRUE, FALSE)

\* The same with keys that are not packed in the bset given.
WithCurrent(node, n, formats) == [node EXCEPT !.bsets[n].formats = formats]

ImageOf(medium, sections, entries, nodes, search) ==
  [medium |-> medium, search |-> search, nodes |-> nodes,
   sections |-> LaidOut(SbHeader, sections), u64s |-> EndOf(0, sections),
   entries |-> LaidOut(CleanHeader, entries), clean |-> EndOf(CleanHeader, entries)]

Fields(entries) == <<Field("members", 200), Field("clean", EndOf(CleanHeader, entries)), Field("quota", 95)>>
AllPlain == [tree \in Tree |-> Plain]
WithRoot(tree, node) == ImageOf("whole", Fields(Roots), Roots, [AllPlain EXCEPT ![tree] = node], "seeded")

\* Every node of up to three bsets as one of the roots.
NodeImages == {WithRoot("inodes", NodeOf(sizes, TRUE, FALSE)) : sizes \in BsetLists}

\* Roots with keys of both formats, in one bset or in two, the second of which
\* may lie behind a bset that fills its block or carry a checksum.
MixedNodes ==
  { WithCurrent(NodeOf(sizes, TRUE, summed), n, formats) :
      sizes \in {<<3, 2>>, <<3, 0, 2>>, <<Block - NodeHeader - BsetHeader, 2>>}, summed \in BOOLEAN,
      n \in {1, 2}, formats \in {{"current"}, {"local", "current"}} }

\* A sound file system with its clean section among others, or without one.
SectionImages ==
  { ImageOf("whole", sections, Roots, AllPlain, "seeded") :
      sections \in SectionLists(EndOf(CleanHeader, Roots)) }

\* Whatever else an open can meet.
OtherImages ==
  { ImageOf(medium, Fields(Roots), Roots, AllPlain, search) :
      medium \in {"missing", "short", "foreign", "cut", "whole"}, search \in DOMAIN Outcome }
  \cup UNION { { ImageOf("whole", sections, entries, AllPlain, "seeded") :
                   sections \in {Fields(entries)} \cup SectionLists(EndOf(CleanHeader, entries)) } :
                 entries \in EntryLists }
  \cup { WithRoot(tree, NodeOf(<<3, 2>>, readable, ~readable)) : tree \in Tree, readable \in BOOLEAN }
  \cup { WithRoot(tree, NodeOf(sizes, TRUE, TRUE)) :
           tree \in Tree, sizes \in {<<1, 0, 2>>, <<0, 1>>, <<0>>} }
  \cup {WithRoot("extents", node) : node \in {m \in MixedNodes : IsNode(m)}}

MCImages == NodeImages \cup OtherImages
=============================================================================
