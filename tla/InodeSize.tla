------------------------------- MODULE InodeSize -------------------------------
(***************************************************************************)
(* benz_bch_inode_unpack_size: the size of a file out of the packed fields *)
(* of its inode.  The fields are variable-length integers: of a byte's     *)
(* trailing ones, one more is the length in bytes; the size is the ninth.  *)
(* A byte has ByteBits bits and a word ByteBits bytes, as 8 has in the     *)
(* code, so that every length from 1 to ByteBits + 1 occurs.  Nine varints *)
(* are at least nine bytes, so that the word in front of the ninth's end   *)
(* lies in the fields.                                                     *)
(***************************************************************************)
EXTENDS Integers, Sequences

CONSTANT ByteBits     \* 8 in the code

ASSUME ByteBitsAssumption == ByteBits \in 1..9

Byte == 2^ByteBits

\* struct bch_inode; the flags hold the number of fields and their encoding.
PackedInode ==
  [bi_hash_seed: Nat, new_varint: BOOLEAN, nr_fields: Nat, fields: Seq(0..(Byte - 1))]

\* benz_ctz64, of a byte plus one
TrailingZeros(x) == CHOOSE n \in 0..ByteBits : x % 2^n = 0 /\ (n = ByteBits \/ x % 2^(n + 1) # 0)

\* The byte behind the last is one of the next key; whatever it is, the scan
\* ends beyond the last.
Length(inode, r) ==
  IF r < Len(inode.fields) THEN TrailingZeros(inode.fields[r + 1] + 1) + 1 ELSE 1

\* Where the scan is after so many varints.
Scan(inode) == LET r[n \in 0..9] == IF n = 0 THEN 0 ELSE r[n - 1] + Length(inode, r[n - 1])
               IN r

\* By how much the last word of a varint is shifted.
SlipShift(f) == ByteBits * ByteBits - (ByteBits - 1) * f
Shift(f) == IF f = ByteBits + 1 THEN 0 ELSE ByteBits * ByteBits - (ByteBits - 1) * f

\* benz_getle64(r, -8)
WordBefore(inode, r) ==
  LET le[i \in 0..ByteBits] ==
        IF i = 0 THEN 0 ELSE Byte * le[i - 1] + inode.fields[r - i + 1]
  IN le[ByteBits]

Scanned(inode) == inode.new_varint /\ Len(inode.fields) >= inode.nr_fields /\ inode.nr_fields >= 5

UnpackSize(inode) ==
  LET r == Scan(inode)
  IN IF Scanned(inode) /\ \A n \in 1..9 : r[n] <= Len(inode.fields)
     THEN WordBefore(inode, r[9]) \div 2^Shift(r[9] - r[8])
     ELSE 0

-----------------------------------------------------------------------------
(* What writers of images do *)

VarintBytes(v) ==
  CHOOSE f \in 1..(ByteBits + 1) :
    /\ f <= ByteBits => v < 2^((ByteBits - 1) * f)
    /\ f > 1 => v >= 2^((ByteBits - 1) * (f - 1))

LittleEnd(v, n) ==
  LET rest[i \in 0..n] == IF i = 0 THEN v ELSE rest[i - 1] \div Byte
  IN [i \in 1..n |-> rest[i - 1] % Byte]

\* A varint: the length in ones, a zero, and the value; or all ones and a word.
Varint(v) ==
  LET f == VarintBytes(v)
  IN IF f <= ByteBits THEN LittleEnd(v * 2^f + 2^(f - 1) - 1, f)
     ELSE <<Byte - 1>> \o LittleEnd(v, ByteBits)

\* Where the varints of numbers end, one behind the other.
Ends(numbers) ==
  LET at[n \in 0..9] == IF n = 0 THEN 0 ELSE at[n - 1] + VarintBytes(numbers[n]) IN at

\* Fields that hold eight numbers of four times, the size, and whatever follows; the
\* size of an inode with fewer than five fields is 0.
IsEncoded(inode, numbers) ==
  /\ Len(numbers) = 9 /\ \A n \in 1..9 : numbers[n] < 2^(ByteBits * ByteBits)
  /\ Len(inode.fields) >= inode.nr_fields
  /\ Ends(numbers)[9] <= Len(inode.fields)
  /\ \A n \in 1..9 : \A i \in 1..VarintBytes(numbers[n]) :
       inode.fields[Ends(numbers)[n - 1] + i] = Varint(numbers[n])[i]
  /\ inode.nr_fields < 5 => numbers[9] = 0
=============================================================================
