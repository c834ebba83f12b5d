------------------------------- MODULE MCRecords -------------------------------
(* Nodes whose bytes hold one bit, inodes whose bytes hold three. *)
EXTENDS Records, FiniteSetsExt

Widths(i, o, sn, sz, hi, lo) == <<i, o, sn, sz, hi, lo>>
Fields(i, o, sz, lo) == <<i, o, 0, sz, 0, lo>>

Wide == [key_u64s |-> 3, bits |-> Widths(64, 64, 32, 0, 0, 0), offset |-> <<0, 0, 0, 0, 0, 0>>]
Narrow == [key_u64s |-> 2, bits |-> Widths(8, 32, 0, 16, 0, 16), offset |-> <<4, 1, 0, 1, 0, 2>>]
Fixed == [key_u64s |-> 1, bits |-> Widths(0, 32, 0, 8, 0, 0), offset |-> <<9, 0, 0, 2, 0, 0>>]
Odd == [key_u64s |-> 2, bits |-> Widths(12, 32, 0, 16, 0, 0), offset |-> <<0, 0, 0, 0, 0, 0>>]

\* Keys that differ in one field or in several, in their order.
Places(format) ==
  LET some(i) == {format.offset[i]} \cup
                 IF format.bits[i] \in {8, 16, 32, 64} THEN {format.offset[i] + 1} ELSE {}
      far == IF format.bits[Offset] >= 32 THEN {format.offset[Offset] + 15} ELSE {}
  IN {Fields(i, o, sz, lo) : i \in some(Inode), o \in some(Offset) \cup {6} \cup far,
                             sz \in some(Size), lo \in some(VersionLo)}
Sorted(S) ==
  [n \in 1..Cardinality(S) |-> CHOOSE x \in S : Cardinality({y \in S : Lesser(y, x)}) = n - 1]

\* A node of keys of one type, its values taken in turn.
NodeOf(format, how, type, values) ==
  LET fields == Sorted({f \in Places(format) : f[Offset] >= f[Size]})
      words(i) == (IF how = "local" THEN format.key_u64s ELSE BKEY_U64s) + values[1 + (i % Len(values))].u64s
      at[i \in 1..Len(fields)] == IF i = 1 THEN 20 ELSE at[i - 1] + 8 * words(i - 1)
    IN [format |-> format, start |-> 40,
      keys |-> [i \in 1..Len(fields) |->
        [format |-> how, fields |-> fields[i], mem |-> Pack(fields[i], format),
         u64s |-> words(i), type |-> type, at |-> at[i],
         value |-> values[1 + (i % Len(values))].value]]]

Word(bytes) == (bytes + 7) \div 8
Extents == <<[u64s |-> 1, value |-> [offset |-> 30]], [u64s |-> 2, value |-> [offset |-> 7]]>>
Inline == <<[u64s |-> 1, value |-> [bytes |-> 3]], [u64s |-> 4, value |-> [bytes |-> 32]]>>

\* Four times of two varints before the size, and one field behind it.
Times == <<<<0, 0, 0, 0, 0, 0, 0, 0>>, <<511, 1, 3, 4, 15, 16, 63, 64>>>>
TimeBytes(times) ==
  LET bytes[i \in 0..8] == IF i = 0 THEN <<>> ELSE bytes[i - 1] \o Varint(times[i])
  IN bytes[8]
AnInode(times, size, nr_fields, new_varint) ==
  LET bytes == TimeBytes(times) \o Varint(size) \o Varint(5)
      u64s == Word(14 + Len(bytes))
  IN [u64s |-> u64s,
      value |-> [numbers |-> Append(times, size),
                 packed |-> [bi_hash_seed |-> 77, new_varint |-> new_varint, nr_fields |-> nr_fields,
                             fields |-> bytes \o [i \in 1..(8 * u64s - 14 - Len(bytes)) |-> 0]]]]
Sizes == <<1, 3, 4, 15, 16, 63, 64, 300, 511>>
Inodes ==
  [i \in 1..18 |-> AnInode(Times[1 + (i % 2)], Sizes[(i + 1) \div 2], 5 + ((i \div 2) % 2), TRUE)]
    \o [i \in 1..4 |-> AnInode(Times[1 + (i % 2)], 0, <<0, 4, 6, 4>>[i], TRUE)]
    \o [i \in 1..2 |-> AnInode(Times[i], 64, 6, FALSE)]

ADirent(length, spill) ==
  [u64s |-> Word(9 + length),
   value |-> [d_inum |-> 5, d_type |-> 8, length |-> length, spill |-> spill]]
Lengths == <<1, 6, 7, 8, 15, 246, 247, 248, 254, 255>>
Spills == <<0, 3, 12>>
Dirents == [i \in 1..30 |-> ADirent(Lengths[(i + 2) \div 3], Spills[1 + (i % 3)])]

MCNodes ==
  {NodeOf(f, "local", "extent", Extents) : f \in {Wide, Narrow, Fixed, Odd}}
    \cup {NodeOf(f, "local", "inline_data", Inline) : f \in {Narrow, Fixed}}
    \cup {NodeOf(Wide, "current", "extent", Extents)}
    \cup {NodeOf(f, "local", "dirent", Dirents) : f \in {Narrow}}
    \cup {NodeOf(f, how, "inode", Inodes) : f \in {Narrow}, how \in {"local", "current"}}
=============================================================================
