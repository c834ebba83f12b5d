-------------------------------- MODULE Records --------------------------------
(***************************************************************************)
(* The records made of the keys of a node, one after the other: unpacking  *)
(* a key (KeyFormat), and Bcachefs_iter_make_extent, _inode and _dirent of *)
(* its value.  Every item that a search or an iteration returns, and so    *)
(* every byte of a file, is placed by these numbers.                       *)
(***************************************************************************)
EXTENDS KeyFormat, InodeSize, Sectors

CONSTANT Nodes   \* nodes with their keys, in the order of the key cache

VARIABLES
  node,          \* the node of the iterator
  pos,           \* index of its current key
  record         \* what was made of the key, or NoRecord

record_vars == <<node, pos, record>>

NoRecord == [kind |-> "none"]

\* The values of keys; of an inode also the numbers that were written, the ninth of
\* which is the size; of a name its length and how far behind it the next zero byte
\* is.
ExtentPtr == [offset: Nat]
InlineData == [bytes: Nat]
Inode_ == [packed: PackedInode, numbers: Seq(Nat)]
Dirent_ == [d_inum: Nat, d_type: Nat, length: Nat, spill: Nat]

Value(type) ==
  CASE type = "extent" -> ExtentPtr
    [] type = "inline_data" -> InlineData
    [] type = "inode" -> Inode_
    [] type = "dirent" -> Dirent_

\* A key of u64s words with its value, at an address in the node.
IsKey(k, format) ==
  /\ k.format \in {"local", "current"}
  /\ k.fields \in [Field -> Nat]
  /\ k.format = "local" => \A i \in Field : Raw(k, format, i) \in Nat
  /\ k.u64s \in Nat /\ k.at \in Nat /\ k.u64s >= KeyU64s(k, format)
  /\ k.value \in Value(k.type)

IsNode(n) ==
  /\ n.format \in Format
  /\ n.start \in Nat
  /\ n.keys # <<>> /\ \A i \in 1..Len(n.keys) : IsKey(n.keys[i], n.format)

ASSUME NodesAssumption == \A n \in Nodes : IsNode(n)

key == node.keys[pos]

\* Bcachefs_extent, Bcachefs_inode, Bcachefs_dirent
ExtentRecord == [kind: {"extent"}, inode: Nat, file_offset: Nat, offset: Nat, size: Nat]
InodeRecord == [kind: {"inode"}, inode: Nat, size: Nat, hash_seed: Nat]
DirentRecord ==
  [kind: {"dirent"}, parent_inode: Nat, inode: Nat, type: Nat, name_len: 0..255]

NoExtent == [kind |-> "extent", inode |-> 0, file_offset |-> 0, offset |-> 0, size |-> 0]
NoInode == [kind |-> "inode", inode |-> 0, size |-> 0, hash_seed |-> 0]
NoDirent == [kind |-> "dirent", parent_inode |-> 0, inode |-> 0, type |-> 0, name_len |-> 0]

bkey == ParseBkey(key, ParseBuffer(key, node.format, 6))

\* benz_bch_first_bch_val
FirstVal == key.at + KeyU64s(key, node.format) * 8
KeyEnd == key.at + key.u64s * 8

\* benz_bch_file_offset_size: the extent's end and its size are in sectors.
\* A size of more bytes than 32 bits hold is cut.
FileOffset == ((bkey[Offset] - bkey[Size]) * SectorSize) % Word64
RegularSize == (bkey[Size] * SectorSize) % Word32

\* benz_bch_get_extent_offset
ExtentOffset(sector) == sector * SectorSize

\* The data of an inline extent is the value itself, where its node lies.
InlineOffset == FirstVal + ExtentOffset(node.start)
SlipInlineSize == key.u64s * 8
InlineSize == key.u64s * 8 - (FirstVal - key.at)

Extent ==
  CASE key.type = "extent" ->
         [kind |-> "extent", inode |-> bkey[Inode], file_offset |-> FileOffset,
          offset |-> ExtentOffset(key.value.offset), size |-> RegularSize]
    [] key.type = "inline_data" ->
         [kind |-> "extent", inode |-> bkey[Inode], file_offset |-> FileOffset,
          offset |-> InlineOffset, size |-> InlineSize]
    [] OTHER -> NoExtent

InodeOf ==
  IF key.type = "inode"
  THEN [kind |-> "inode", inode |-> bkey[Offset], size |-> UnpackSize(key.value.packed),
        hash_seed |-> key.value.packed.bi_hash_seed]
  ELSE NoInode

\* The length of a name is that of the string or that of the room for it, both
\* in a byte.  A name that fills its room ends at the next zero byte.
NameRoom == KeyEnd - FirstVal - 9
StrLen == IF key.value.length < NameRoom THEN key.value.length
          ELSE key.value.length + key.value.spill
NameLen == IF StrLen % 256 < NameRoom % 256 THEN StrLen % 256 ELSE NameRoom % 256

Dirent ==
  IF key.type = "dirent"
  THEN [kind |-> "dirent", parent_inode |-> bkey[Inode], inode |-> key.value.d_inum,
        type |-> key.value.d_type, name_len |-> NameLen]
  ELSE NoDirent

RecordsInit == node \in Nodes /\ pos = 1 /\ record = NoRecord

\* The type of the btree decides which record is made.
MakeExtent == record' = Extent /\ UNCHANGED <<node, pos>>
MakeInode == record' = InodeOf /\ UNCHANGED <<node, pos>>
MakeDirent == record' = Dirent /\ UNCHANGED <<node, pos>>

\* iter->bkey = iter->keys[iter->pos++]
Advance == /\ pos < Len(node.keys)
           /\ pos' = pos + 1
           /\ record' = NoRecord
           /\ UNCHANGED node

RecordsNext == MakeExtent \/ MakeInode \/ MakeDirent \/ Advance

RecordsSpec == RecordsInit /\ [][RecordsNext]_record_vars

-----------------------------------------------------------------------------
(* Properties *)

\* Records have their types, and inline data lies within its key on disk, so
\* that a read of it stays there.
TypeOK ==
  /\ IsNode(node)
  /\ pos \in 1..Len(node.keys)
  /\ record \in {NoRecord} \cup ExtentRecord \cup InodeRecord \cup DirentRecord
  /\ record.kind = "extent" /\ key.type = "inline_data" =>
       record.offset + record.size <= ExtentOffset(node.start) + KeyEnd

\* Widths and offsets the library can read: whole widths, no sum that wraps,
\* and 32 bits for what struct bkey has 32 for.
Regular(k) ==
  /\ IsWhole(node.format)
  /\ k.format = "local" => IsPacked(k, node.format)
  /\ \A i \in Field : k.fields[i] < IF i \in {Snapshot, Size, VersionHi} THEN Word32 ELSE Word64

\* All three ways to unpack a field return what was packed, for every format of
\* nodes: searches (the buffer), records (struct bkey) and single fields.
UnpackingsAgree ==
  Regular(key) =>
    \A i \in Field :
      /\ ParseField(key, node.format, i) = key.fields[i]
      /\ bkey[i] = key.fields[i]
      /\ \A n \in i..6 : ParseBuffer(key, node.format, n)[i] = key.fields[i]

\* The merge compares keys packed, a search compares them unpacked: both must
\* put the keys of a node in one order, or a search stops in front of its key.
Wraps(k) == \E i \in Field : node.format.bits[i] # 0 /\ node.format.offset[i] + Raw(k, node.format, i) >= Word64
Comparable(j, k) == j.format = k.format /\ (j.format = "local" => ~Wraps(j) /\ ~Wraps(k))
OrderKept ==
  \A i \in 1..Len(node.keys) :
    Comparable(key, node.keys[i]) =>
      (PackedLess(key, node.keys[i], node.format) <=>
       Lesser(ParseBuffer(key, node.format, 6), ParseBuffer(node.keys[i], node.format, 6)))

\* Values as the kernel writes them: an extent does not begin before the file does,
\* and its bytes are numbers of 64 and of 32 bits; a name has the room it needs.
Written ==
  CASE key.type \in {"extent", "inline_data"} ->
         /\ key.fields[Size] <= key.fields[Offset]
         /\ key.fields[Offset] * SectorSize < Word64
         /\ key.fields[Size] * SectorSize < Word32
    [] key.type = "inode" ->
         key.value.packed.new_varint => IsEncoded(key.value.packed, key.value.numbers)
    [] key.type = "dirent" ->
         /\ key.value.length <= NameRoom /\ NameRoom < key.value.length + 8
         /\ key.value.length < 256

\* The bytes that were written: a record gives the place of the data on disk and
\* in the file, the size of a file that encodes it the new way, and the length of
\* a name, bar names of 247 bytes and more with no zero byte near behind them.
RecordsExact ==
  record # NoRecord /\ Regular(key) /\ Written =>
    CASE record.kind = "extent" /\ key.type \in {"extent", "inline_data"} ->
           /\ record.inode = key.fields[Inode]
           /\ record.file_offset + key.fields[Size] * SectorSize = key.fields[Offset] * SectorSize
           /\ key.type = "extent" =>
                record.size = key.fields[Size] * SectorSize
           /\ key.type = "inline_data" =>
                record.offset + record.size = ExtentOffset(node.start) + KeyEnd
      [] record.kind = "inode" /\ key.type = "inode" ->
           /\ record.inode = key.fields[Offset]
           /\ record.size = IF key.value.packed.new_varint THEN key.value.numbers[9] ELSE 0
      [] record.kind = "dirent" /\ key.type = "dirent" ->
           /\ record.parent_inode = key.fields[Inode]
           /\ StrLen < 256 => record.name_len = key.value.length
      [] OTHER -> record \in {NoExtent, NoInode, NoDirent}
=============================================================================
