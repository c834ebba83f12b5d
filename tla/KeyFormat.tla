------------------------------- MODULE KeyFormat -------------------------------
(***************************************************************************)
(* How a key lies in a node.  A key in the format of its node (local) has  *)
(* its six fields packed back to back, downwards from the end of its first *)
(* key_u64s words, each in a width of its own and less an offset of its    *)
(* own; a key in the current format is the struct bkey.  The library       *)
(* unpacks keys in three places, and compares them packed in a fourth.  A  *)
(* byte has Base values.  A definition Slip... is a slip in the one that   *)
(* follows it, for mutation testing; no specification uses it.             *)
(***************************************************************************)
EXTENDS Integers

CONSTANT Base      \* 256 in the code

ASSUME BaseAssumption == Base \in Nat \ {0, 1}

\* enum bch_bkey_fields
Inode == 1
Offset == 2
Snapshot == 3
Size == 4
VersionHi == 5
VersionLo == 6
Field == 1..6

Squared(n) == n * n
Word32 == Squared(Squared(Base))
Word64 == Squared(Word32)

Format == [key_u64s: Nat, bits: [Field -> Nat], offset: [Field -> Nat]]
BKEY_U64s == 5      \* words of struct bkey

\* A number of bytes at an address, little end first.
U8(mem, at) == mem[at]
U16(mem, at) == U8(mem, at) + Base * U8(mem, at + 1)
U32(mem, at) == U16(mem, at) + Squared(Base) * U16(mem, at + 2)
U64(mem, at) == U32(mem, at) + Word32 * U32(mem, at + 4)

\* Any other width reads as (uint64_t)-1.
Uint(mem, at, bits) ==
  CASE bits = 64 -> U64(mem, at)
    [] bits = 32 -> U32(mem, at)
    [] bits = 16 -> U16(mem, at)
    [] bits = 8 -> U8(mem, at)
    [] OTHER -> Word64 - 1

\* Where a field begins: at the end of the key less the fields up to it.
Place(format) ==
  LET at[i \in 0..6] == IF i = 0 THEN format.key_u64s * 8 ELSE at[i - 1] - format.bits[i] \div 8
  IN at

Raw(key, format, i) == Uint(key.mem, Place(format)[i], format.bits[i])

\* benz_bch_parse_bkey_field
ParseField(key, format, i) ==
  IF key.format # "local" THEN key.fields[i]
  ELSE IF format.bits[i] = 0 THEN format.offset[i]
  ELSE (format.offset[i] + Raw(key, format, i)) % Word64

\* benz_bch_parse_bkey_buffer: the first fields_cnt fields, the others 0.
SlipParseBuffer(key, format, fields_cnt) ==
  [i \in Field |->
     IF i > fields_cnt THEN 0
     ELSE IF key.format # "local" THEN key.fields[i]
     ELSE IF format.bits[i] = 0 THEN 0
     ELSE (format.offset[i] + Raw(key, format, i)) % Word64]
ParseBuffer(key, format, fields_cnt) ==
  [i \in Field |->
     IF i > fields_cnt THEN 0
     ELSE IF key.format # "local" THEN key.fields[i]
     ELSE IF format.bits[i] = 0 THEN format.offset[i]
     ELSE (format.offset[i] + Raw(key, format, i)) % Word64]

KeyU64s(key, format) == IF key.format = "local" THEN format.key_u64s ELSE BKEY_U64s

\* benz_bch_parse_bkey: a struct bkey, three fields of which have 32 bits.
ParseBkey(key, buffer) ==
  IF key.format # "local" THEN key.fields
  ELSE [i \in Field |-> IF i \in {Snapshot, Size, VersionHi} THEN buffer[i] % Word32 ELSE buffer[i]]

\* _Bcachefs_comp_bkey_lesser_than, _Bcachefs_comp_bkey_lesseq_than: the first
\* field that differs decides.
Lesser(x, y) == \E i \in Field : x[i] < y[i] /\ \A j \in 1..(i - 1) : x[j] = y[j]
Lesseq(x, y) == x = y \/ Lesser(x, y)

\* _bkey_packed_less: without unpacking, for two keys of one format.
SlipPackedLess(a, b, format) ==
  IF a.format = "local"
  THEN Lesser([i \in Field |-> Raw(a, format, 7 - i)], [i \in Field |-> Raw(b, format, 7 - i)])
  ELSE Lesser(a.fields, b.fields)
PackedLess(a, b, format) ==
  IF a.format = "local"
  THEN Lesser([i \in Field |-> Raw(a, format, i)], [i \in Field |-> Raw(b, format, i)])
  ELSE Lesser(a.fields, b.fields)

-----------------------------------------------------------------------------
(* What writers of images do *)

\* Widths that are read as they were written.
IsWhole(format) == \A i \in Field : format.bits[i] \in {0, 8, 16, 32, 64}

\* The eight bytes of a number, the low one first.
WordBytes(n) ==
  LET rest[k \in 0..7] == IF k = 0 THEN n ELSE rest[k - 1] \div Base
  IN [k \in 0..7 |-> rest[k] % Base]

\* The bytes of a key packed by the kernel.  Bytes that hold no field are 0.
Pack(fields, format) ==
  [b \in 0..(format.key_u64s * 8 - 1) |->
     IF \E i \in Field : Place(format)[i] <= b /\ b < Place(format)[i - 1]
     THEN LET i == CHOOSE f \in Field : Place(format)[f] <= b /\ b < Place(format)[f - 1]
          IN WordBytes(fields[i] - format.offset[i])[b - Place(format)[i]]
     ELSE 0]

\* As many values as a whole width holds.
Values(bits) ==
  CASE bits = 64 -> Word64
    [] bits = 32 -> Word32
    [] bits = 16 -> Squared(Base)
    [] bits = 8 -> Base
    [] bits = 0 -> 1

\* A key that the kernel packs: there is room for the fields, and in each for its
\* value.
IsPacked(key, format) ==
  /\ Place(format)[6] >= 0
  /\ \A i \in Field : /\ format.offset[i] <= key.fields[i]
                       /\ key.fields[i] - format.offset[i] < Values(format.bits[i])
  /\ key.mem = Pack(key.fields, format)
=============================================================================
