----------------------------- MODULE AnswersProofs -----------------------------
(***************************************************************************)
(* Proofs about what the library answers.  Records: the order of keys is   *)
(* the same packed and unpacked, keys unpack to what was packed, and what  *)
(* is made of them is what was written, for every node in every format.    *)
(* Cursors: whatever directories a client goes through, the cursor answers *)
(* as the mount does: for every image, of any number of entries, every     *)
(* tree of directories and every path.                                     *)
(***************************************************************************)
EXTENDS Records, Cursors, FiniteSetTheorems, WellFoundedInduction, SequenceTheorems, TLAPS

-----------------------------------------------------------------------------
(* Keys *)

\* The constants of the formats are numbers.
LEMMA Words == /\ Word64 \in Nat /\ Word64 > 0
               /\ Field = 1..6
<1>1. Word32 \in Nat /\ Word32 > 0
  <2>1. ASSUME NEW n \in Nat, n > 0 PROVE Squared(n) \in Nat /\ Squared(n) > 0
    BY <2>1 DEF Squared
  <2>2. Base \in Nat /\ Base > 0
    BY BaseAssumption
  <2>3. Squared(Base) \in Nat /\ Squared(Base) > 0
    BY <2>1, <2>2
  <2>4. QED
    BY <2>1, <2>3 DEF Word32
<1>2. Word64 \in Nat /\ Word64 > 0
  <2>1. Word32 * Word32 \in Nat /\ Word32 * Word32 > 0
    BY <1>1
  <2>2. QED
    BY <2>1 DEF Word64, Squared
<1>3. QED
  BY <1>2 DEF Field

\* Two sequences of numbers that differ by the same amounts, field by field, are
\* ordered alike.
LEMMA ShiftedOrder ==
  ASSUME NEW x, NEW y, NEW v, NEW w,
         \A i \in Field : /\ x[i] < y[i] <=> v[i] < w[i]
                          /\ x[i] = y[i] <=> v[i] = w[i]
  PROVE  Lesser(x, y) <=> Lesser(v, w)
<1>1. \A i \in Field : 1..(i - 1) \subseteq Field
  BY DEF Field
<1>2. \A i \in Field : (\A j \in 1..(i - 1) : x[j] = y[j]) <=> (\A j \in 1..(i - 1) : v[j] = w[j])
  BY <1>1
<1>3. QED
  BY <1>2 DEF Lesser

\* A field that is packed in some bits and does not wrap unpacks to the sum of
\* what is packed and the offset, one without bits to the offset.
LEMMA Unpacked ==
  ASSUME NEW f \in Format, NEW k, k.format = "local", NEW i \in Field,
         Raw(k, f, i) \in Nat,
         f.bits[i] # 0 => ~ (f.offset[i] + Raw(k, f, i) >= Word64)
  PROVE  ParseBuffer(k, f, 6)[i] =
           IF f.bits[i] = 0 THEN f.offset[i] ELSE f.offset[i] + Raw(k, f, i)
<1>1. f.offset[i] \in Nat
  BY DEF Format
<1>2. ~(i > 6)
  BY DEF Field
<1>3. ParseBuffer(k, f, 6)[i] =
        IF f.bits[i] = 0 THEN f.offset[i] ELSE (f.offset[i] + Raw(k, f, i)) % Word64
  BY <1>2 DEF ParseBuffer
<1>4. ASSUME f.bits[i] # 0
      PROVE  (f.offset[i] + Raw(k, f, i)) % Word64 = f.offset[i] + Raw(k, f, i)
  <2> DEFINE n == f.offset[i] + Raw(k, f, i)
  <2>1. n \in Nat /\ n < Word64
    BY <1>1, <1>4, Words
  <2> HIDE DEF n
  <2>2. n % Word64 = n
    BY <2>1, Words
  <2>3. QED
    BY <2>2 DEF n
<1>5. QED
  BY <1>3, <1>4

\* Fields without bits read the same of every key.
LEMMA NoBits ==
  ASSUME NEW f, NEW j, NEW k, NEW i \in Field, f.bits[i] = 0
  PROVE  Raw(j, f, i) = Raw(k, f, i)
BY DEF Raw, Uint

\* The heart of OrderKept: _bkey_packed_less is the order of the unpacked keys.
LEMMA PackedOrder ==
  ASSUME NEW f \in Format, NEW j, NEW k, j.format = k.format,
         j.fields \in [Field -> Nat], k.fields \in [Field -> Nat],
         j.format = "local" =>
           \A i \in Field :
             /\ Raw(j, f, i) \in Nat /\ Raw(k, f, i) \in Nat
             /\ f.bits[i] # 0 => /\ ~ (f.offset[i] + Raw(j, f, i) >= Word64)
                                 /\ ~ (f.offset[i] + Raw(k, f, i) >= Word64)
  PROVE  PackedLess(j, k, f) <=> Lesser(ParseBuffer(j, f, 6), ParseBuffer(k, f, 6))
<1>1. CASE j.format = "local"
  <2> DEFINE x == [i \in Field |-> Raw(j, f, i)]
             y == [i \in Field |-> Raw(k, f, i)]
             v == ParseBuffer(j, f, 6)
             w == ParseBuffer(k, f, 6)
  <2>1. ASSUME NEW i \in Field
        PROVE  /\ x[i] < y[i] <=> v[i] < w[i]
               /\ x[i] = y[i] <=> v[i] = w[i]
    <3>1. v[i] = IF f.bits[i] = 0 THEN f.offset[i] ELSE f.offset[i] + Raw(j, f, i)
      BY <1>1, Unpacked
    <3>2. w[i] = IF f.bits[i] = 0 THEN f.offset[i] ELSE f.offset[i] + Raw(k, f, i)
      BY <1>1, Unpacked
    <3>3. f.bits[i] = 0 => x[i] = y[i]
      BY NoBits
    <3>4. x[i] \in Nat /\ y[i] \in Nat /\ x[i] = Raw(j, f, i) /\ y[i] = Raw(k, f, i)
      BY <1>1
    <3>5. f.offset[i] \in Nat
      BY DEF Format
    <3> HIDE DEF x, y, v, w
    <3>6. CASE f.bits[i] = 0
      BY <3>1, <3>2, <3>3, <3>4, <3>5, <3>6
    <3>7. CASE f.bits[i] # 0
      BY <3>1, <3>2, <3>4, <3>5, <3>7
    <3>8. QED
      BY <3>6, <3>7
  <2>2. PackedLess(j, k, f) <=> Lesser(x, y)
    BY <1>1 DEF PackedLess
  <2> HIDE DEF x, y, v, w
  <2>3. Lesser(x, y) <=> Lesser(v, w)
    BY <2>1, ShiftedOrder
  <2>4. QED
    BY <2>2, <2>3 DEF v, w
<1>2. CASE j.format # "local"
  <2>1. \A i \in Field : ~(i > 6)
    BY DEF Field
  <2>2. ParseBuffer(j, f, 6) = j.fields /\ ParseBuffer(k, f, 6) = k.fields
    BY <1>2, <2>1 DEF ParseBuffer
  <2>3. QED
    BY <1>2, <2>2 DEF PackedLess
<1>3. QED
  BY <1>1, <1>2

\* The node and its current key stay those of the constants.
Inv == node \in Nodes /\ pos \in 1..Len(node.keys)

\* The node is never exchanged, and the iterator stays within its keys.
THEOREM KeyOfNode == RecordsSpec => []Inv
<1>1. RecordsInit => Inv
  <2> SUFFICES ASSUME RecordsInit PROVE Inv
    OBVIOUS
  <2>1. IsNode(node)
    BY NodesAssumption DEF RecordsInit
  <2>2. QED
    BY <2>1 DEF RecordsInit, Inv, IsNode
<1>2. Inv /\ [RecordsNext]_record_vars => Inv'
  <2> SUFFICES ASSUME Inv, [RecordsNext]_record_vars PROVE Inv'
    OBVIOUS
  <2>1. CASE Advance
    BY <2>1 DEF Inv, Advance
  <2>2. CASE MakeExtent \/ MakeInode \/ MakeDirent \/ UNCHANGED record_vars
    BY <2>2 DEF Inv, MakeExtent, MakeInode, MakeDirent, record_vars
  <2>3. QED
    BY <2>1, <2>2 DEF RecordsNext
<1>3. QED
  BY <1>1, <1>2, PTL DEF RecordsSpec

\* The merge, which compares packed keys, and the search, which compares
\* unpacked ones, see the keys of every node in one order.
THEOREM OrderAlwaysKept == RecordsSpec => []OrderKept
<1>1. Inv => OrderKept
  <2> SUFFICES ASSUME Inv, NEW i \in 1..Len(node.keys), Comparable(key, node.keys[i])
               PROVE  PackedLess(key, node.keys[i], node.format) <=>
                      Lesser(ParseBuffer(key, node.format, 6),
                             ParseBuffer(node.keys[i], node.format, 6))
    BY DEF OrderKept
  <2>1. IsNode(node)
    BY NodesAssumption DEF Inv
  <2>2. node.format \in Format /\ IsKey(key, node.format) /\ IsKey(node.keys[i], node.format)
    BY <2>1 DEF Inv, IsNode, key
  <2>3. QED
    BY <2>2, PackedOrder DEF IsKey, Comparable, Wraps
<1>2. QED
  BY <1>1, KeyOfNode, PTL

-----------------------------------------------------------------------------
(* Recursive functions over the first numbers *)

\* A set of numbers with 0 that has the successor of each of its numbers has all.
LEMMA Induction ==
  ASSUME NEW S \in SUBSET Nat, 0 \in S, \A n \in S : n + 1 \in S
  PROVE  S = Nat
<1>1. PICK T : T = Nat \ S
  OBVIOUS
<1>2. CASE T = {}
  BY <1>1, <1>2
<1>3. CASE T # {}
  <2>1. PICK m \in T : \A n \in T : ~ (<<n, m>> \in OpToRel(<, Nat))
    BY <1>1, <1>3, WFMin, NatLessThanWellFounded
  <2>2. m \in Nat /\ m # 0 /\ m - 1 \in Nat
    BY <1>1
  <2>3. m - 1 \in S
    <3>1. <<m - 1, m>> \in OpToRel(<, Nat)
      BY <2>2 DEF OpToRel
    <3>2. m - 1 \notin T
      BY <2>1, <3>1
    <3>3. QED
      BY <1>1, <2>2, <3>2
  <2>4. QED
    BY <1>1, <2>2, <2>3
<1>4. QED
  BY <1>2, <1>3

\* What holds of 0 and of each number with the one before it holds up to n.
LEMMA UpTo ==
  ASSUME NEW n \in Nat, NEW S, 0 \in S,
         \A i \in 1..n : i - 1 \in S => i \in S
  PROVE  0..n \subseteq S
<1> DEFINE T == {i \in Nat : i <= n => i \in S}
<1>1. T \in SUBSET Nat /\ 0 \in T
  OBVIOUS
<1>2. \A i \in T : i + 1 \in T
  <2> SUFFICES ASSUME NEW i \in T, i + 1 <= n PROVE i + 1 \in S
    OBVIOUS
  <2>1. i \in S /\ i + 1 \in 1..n /\ (i + 1) - 1 = i
    OBVIOUS
  <2>2. QED
    BY <2>1
<1> HIDE DEF T
<1>3. T = Nat
  BY <1>1, <1>2, Induction
<1>4. QED
  BY <1>3 DEF T

\* The function that begins at a and takes a step from each value to the next.
Runs(n, V, a, step) ==
  {f \in [0..n -> V] : f[0] = a /\ \A i \in 1..n : f[i] = step[<<i, f[i - 1]>>]}

\* There is one.
LEMMA Recursion ==
  ASSUME NEW n \in Nat, NEW V, NEW a \in V, NEW step \in [(1..n) \X V -> V]
  PROVE  Runs(n, V, a, step) # {}
<1> DEFINE Follows(f, m) == \A i \in 0..m : f[i] = IF i = 0 THEN a ELSE step[<<i, f[i - 1]>>]
           S == {m \in Nat : \E f \in [0..m -> V] : Follows(f, m)}
<1>1. 0 \in S
  <2> DEFINE f == [i \in 0..0 |-> a]
  <2>1. f \in [0..0 -> V] /\ Follows(f, 0)
    OBVIOUS
  <2>2. QED
    BY <2>1
<1>2. ASSUME NEW i \in 1..n, i - 1 \in S PROVE i \in S
  <2>1. PICK f \in [0..(i - 1) -> V] : Follows(f, i - 1)
    BY <1>2
  <2>2. i - 1 \in 0..(i - 1) /\ f[i - 1] \in V /\ step[<<i, f[i - 1]>>] \in V
    OBVIOUS
  <2> DEFINE g == [k \in 0..i |-> IF k = i THEN step[<<i, f[i - 1]>>] ELSE f[k]]
  <2>3. g \in [0..i -> V]
    BY <2>2
  <2>4. \A k \in 0..(i - 1) : g[k] = f[k]
    OBVIOUS
  <2>5. g[i] = step[<<i, g[i - 1]>>]
    <3>1. g[i - 1] = f[i - 1]
      BY <2>2, <2>4
    <3>2. i \in 0..i /\ g[i] = step[<<i, f[i - 1]>>]
      OBVIOUS
    <3>3. QED
      BY <3>1, <3>2, Zenon
  <2>6. ASSUME NEW k \in 0..i PROVE g[k] = IF k = 0 THEN a ELSE step[<<k, g[k - 1]>>]
    <3>1. CASE k = i
      BY <2>5, <3>1
    <3>2. CASE k \in 0..(i - 1)
      <4>1. k # 0 => k - 1 \in 0..(i - 1)
        BY <3>2
      <4>2. f[k] = IF k = 0 THEN a ELSE step[<<k, f[k - 1]>>]
        BY <2>1, <3>2
      <4>3. QED
        BY <2>4, <3>2, <4>1, <4>2
    <3>3. QED
      BY <3>1, <3>2
  <2> HIDE DEF g
  <2>7. Follows(g, i) /\ i \in Nat
    BY <2>6
  <2>8. QED
    BY <2>3, <2>7
<1> HIDE DEF S
<1>3. n \in S
  BY <1>1, <1>2, UpTo
<1>4. PICK f \in [0..n -> V] : Follows(f, n)
  BY <1>3 DEF S
<1>5. f[0] = a
  <2>1. 0 \in 0..n
    OBVIOUS
  <2>2. QED
    BY <1>4, <2>1, Zenon
<1>6. \A i \in 1..n : i \in 0..n /\ i # 0
  OBVIOUS
<1>7. \A i \in 1..n : f[i] = step[<<i, f[i - 1]>>]
  BY <1>4, <1>6
<1>8. QED
  BY <1>5, <1>7 DEF Runs

-----------------------------------------------------------------------------
(* Packed keys *)

\* Where the fields of a key begin: each as many bytes below the one before as it
\* is wide.
LEMMA PlaceIs ==
  ASSUME NEW format \in Format
  PROVE  /\ Place(format) \in [0..6 -> Int]
         /\ Place(format)[0] = format.key_u64s * 8
         /\ \A i \in Field :
              /\ Place(format)[i] = Place(format)[i - 1] - format.bits[i] \div 8
              /\ format.bits[i] \div 8 \in Nat
<1> DEFINE step == [t \in (1..6) \X Int |-> t[2] - format.bits[t[1]] \div 8]
           top == format.key_u64s * 8
           Walk(f) == f = [i \in 0..6 |-> IF i = 0 THEN top ELSE f[i - 1] - format.bits[i] \div 8]
<1>1. top \in Int /\ \A i \in 1..6 : format.bits[i] \in Nat /\ format.bits[i] \div 8 \in Nat
  BY DEF Format, Field
<1>2. step \in [(1..6) \X Int -> Int]
  BY <1>1
<1>3. PICK f \in Runs(6, Int, top, step) : TRUE
  <2> HIDE DEF step, top
  <2>1. Runs(6, Int, top, step) # {}
    BY <1>1, <1>2, Recursion
  <2>2. QED
    BY <2>1
<1>4. f \in [0..6 -> Int] /\ f[0] = top /\ \A i \in 1..6 : f[i] = f[i - 1] - format.bits[i] \div 8
  <2>1. \A i \in 1..6 : f[i] = step[<<i, f[i - 1]>>] /\ f[i - 1] \in Int
    BY <1>3 DEF Runs
  <2>2. QED
    BY <1>3, <2>1 DEF Runs
<1>5. Walk(f)
  BY <1>4
<1>6. \A g : Walk(g) => g = f
  <2> SUFFICES ASSUME NEW g, Walk(g) PROVE g = f
    OBVIOUS
  <2>1. \A i \in 0..6 : g[i] = IF i = 0 THEN top ELSE g[i - 1] - format.bits[i] \div 8
    OBVIOUS
  <2> DEFINE S == {i \in 0..6 : g[i] = f[i]}
  <2>2. 0 \in S
    BY <1>4, <2>1
  <2>3. \A i \in 1..6 : i - 1 \in S => i \in S
    BY <1>4, <2>1
  <2> HIDE DEF S
  <2>4. 0..6 \subseteq S
    BY <2>2, <2>3, UpTo
  <2>5. g = [i \in 0..6 |-> g[i]]
    OBVIOUS
  <2>6. QED
    BY <1>4, <2>4, <2>5 DEF S
<1> DEFINE at == CHOOSE g : Walk(g)
<1>7. Walk(at)
  BY <1>5
<1>8. at = f
  <2> HIDE DEF Walk, at
  <2>1. QED
    BY <1>6, <1>7
<1>9. Place(format) = at
  BY DEF Place
<1>10. QED
  BY <1>1, <1>4, <1>8, <1>9 DEF Field

\* What a number is less its low bytes, and the bytes.
LEMMA WordBytesAre ==
  ASSUME NEW n \in Nat
  PROVE  \E rest \in [0..7 -> Nat] :
           /\ rest[0] = n
           /\ \A k \in 1..7 : rest[k] = rest[k - 1] \div Base
           /\ WordBytes(n) = [k \in 0..7 |-> rest[k] % Base]
<1> DEFINE step == [t \in (1..7) \X Nat |-> t[2] \div Base]
           Walk(f) == f = [k \in 0..7 |-> IF k = 0 THEN n ELSE f[k - 1] \div Base]
<1>1. \A m \in Nat : m \div Base \in Nat
  BY BaseAssumption
<1>2. step \in [(1..7) \X Nat -> Nat]
  BY <1>1
<1>3. PICK f \in Runs(7, Nat, n, step) : TRUE
  <2> HIDE DEF step
  <2>1. Runs(7, Nat, n, step) # {}
    BY <1>2, Recursion
  <2>2. QED
    BY <2>1
<1>4. f \in [0..7 -> Nat] /\ f[0] = n /\ \A k \in 1..7 : f[k] = f[k - 1] \div Base
  <2>1. \A k \in 1..7 : f[k] = step[<<k, f[k - 1]>>] /\ f[k - 1] \in Nat
    BY <1>3 DEF Runs
  <2>2. QED
    BY <1>3, <2>1 DEF Runs
<1>5. Walk(f)
  BY <1>4
<1>6. \A g : Walk(g) => g = f
  <2> SUFFICES ASSUME NEW g, Walk(g) PROVE g = f
    OBVIOUS
  <2>1. \A k \in 0..7 : g[k] = IF k = 0 THEN n ELSE g[k - 1] \div Base
    OBVIOUS
  <2> DEFINE S == {k \in 0..7 : g[k] = f[k]}
  <2>2. 0 \in S
    BY <1>4, <2>1
  <2>3. \A k \in 1..7 : k - 1 \in S => k \in S
    BY <1>4, <2>1
  <2> HIDE DEF S
  <2>4. 0..7 \subseteq S
    BY <2>2, <2>3, UpTo
  <2>5. g = [k \in 0..7 |-> g[k]]
    OBVIOUS
  <2>6. QED
    BY <1>4, <2>4, <2>5 DEF S
<1> DEFINE at == CHOOSE g : Walk(g)
<1>7. Walk(at)
  BY <1>5
<1>8. at = f
  <2> HIDE DEF Walk, at
  <2>1. QED
    BY <1>6, <1>7
<1>9. WordBytes(n) = [k \in 0..7 |-> at[k] % Base]
  BY DEF WordBytes
<1>10. QED
  BY <1>4, <1>8, <1>9

\* Quotient and remainder.
LEMMA Division ==
  ASSUME NEW n \in Nat, NEW b \in Nat, b > 0
  PROVE  /\ n \div b \in Nat /\ n % b \in Nat /\ n % b < b
         /\ n = (n % b) + b * (n \div b)
<1>1. n \div b \in Nat /\ n % b \in Nat /\ n % b < b
  OBVIOUS
<1>2. n = (n % b) + b * (n \div b)
  OBVIOUS
<1>3. QED
  BY <1>1, <1>2

\* A number below W * W that is lo + W * hi has hi below W.
LEMMA HighHalf ==
  ASSUME NEW W \in Nat, W > 0, NEW lo \in Nat, NEW hi \in Nat, lo + W * hi < W * W
  PROVE  hi < W
<1> SUFFICES ASSUME hi >= W PROVE FALSE
  OBVIOUS
<1>1. PICK d \in Nat : hi = W + d
  <2>1. hi - W \in Nat /\ hi = W + (hi - W)
    OBVIOUS
  <2>2. QED
    BY <2>1
<1>2. W * hi = W * W + W * d
  BY <1>1
<1>3. W * W \in Nat /\ W * d \in Nat
  OBVIOUS
<1>4. QED
  BY <1>2, <1>3

\* One below W has none.
LEMMA NoHighHalf ==
  ASSUME NEW W \in Nat, W > 0, NEW lo \in Nat, NEW hi \in Nat, lo + W * hi < W
  PROVE  hi = 0 /\ lo + W * hi = lo
<1>1. hi = 0
  <2> SUFFICES ASSUME hi # 0 PROVE FALSE
    OBVIOUS
  <2>1. PICK d \in Nat : hi = 1 + d
    <3>1. hi - 1 \in Nat /\ hi = 1 + (hi - 1)
      OBVIOUS
    <3>2. QED
      BY <3>1
  <2>2. W * hi = W + W * d
    BY <2>1
  <2>3. W * d \in Nat
    OBVIOUS
  <2>4. QED
    BY <2>2, <2>3
<1>2. QED
  BY <1>1

\* The numbers of the widths.
LEMMA Widths ==
  /\ Base \in Nat /\ Base > 0 /\ Squared(Base) \in Nat /\ Squared(Base) > 0
  /\ Word32 \in Nat /\ Word32 > 0 /\ Word64 \in Nat /\ Word64 > 0
  /\ Squared(Base) = Base * Base /\ Word32 = Squared(Base) * Squared(Base)
  /\ Word64 = Word32 * Word32
<1>1. ASSUME NEW n \in Nat, n > 0 PROVE Squared(n) \in Nat /\ Squared(n) > 0 /\ Squared(n) = n * n
  BY <1>1 DEF Squared
<1>2. Base \in Nat /\ Base > 0
  BY BaseAssumption
<1>3. Squared(Base) \in Nat /\ Squared(Base) > 0 /\ Squared(Base) = Base * Base
  BY <1>1, <1>2
<1>4. Word32 \in Nat /\ Word32 > 0 /\ Word32 = Squared(Base) * Squared(Base)
  BY <1>1, <1>3 DEF Word32
<1>5. Word64 \in Nat /\ Word64 > 0 /\ Word64 = Word32 * Word32
  BY <1>1, <1>4 DEF Word64
<1>6. QED
  BY <1>2, <1>3, <1>4, <1>5

\* A number is made up of its bytes, by pairs, by fours and by eights.
LEMMA Digits ==
  ASSUME NEW n \in Nat
  PROVE  LET pair(k) == WordBytes(n)[k] + Base * WordBytes(n)[k + 1]
             quad(k) == pair(k) + Squared(Base) * pair(k + 2)
         IN /\ n < Base => n = WordBytes(n)[0]
            /\ n < Squared(Base) => n = pair(0)
            /\ n < Word32 => n = quad(0)
            /\ n < Word64 => n = quad(0) + Word32 * quad(4)
<1>1. PICK rest \in [0..7 -> Nat] :
        /\ rest[0] = n
        /\ \A k \in 1..7 : rest[k] = rest[k - 1] \div Base
        /\ WordBytes(n) = [k \in 0..7 |-> rest[k] % Base]
  BY WordBytesAre
<1> DEFINE B == Base
           byte(k) == rest[k] % B
           pair(k) == byte(k) + B * byte(k + 1)
<1>2. B \in Nat /\ B > 0
  BY Widths
<1> HIDE DEF B
<1>3. \A k \in 0..7 : byte(k) \in Nat /\ byte(k) < B /\ rest[k] \in Nat
  BY <1>1, <1>2
<1>4. \A k \in 0..6 : rest[k] = byte(k) + B * rest[k + 1]
  <2> SUFFICES ASSUME NEW k \in 0..6 PROVE rest[k] = byte(k) + B * rest[k + 1]
    OBVIOUS
  <2>1. rest[k + 1] = rest[k] \div B
    <3>1. k + 1 \in 1..7 /\ (k + 1) - 1 = k
      OBVIOUS
    <3>2. QED
      BY <1>1, <3>1 DEF B
  <2>2. rest[k] \in Nat
    BY <1>1
  <2>3. QED
    BY <1>2, <2>1, <2>2, Division
<1> DEFINE D == B * B
<1>5. D \in Nat /\ D > 0
  BY <1>2
<1>6. ASSUME NEW k \in 0..5
      PROVE  pair(k) \in Nat /\ pair(k) < D /\ rest[k] = pair(k) + D * rest[k + 2]
  <2>1. PICK b0 \in Nat, b1 \in Nat, r \in Nat : b0 = byte(k) /\ b1 = byte(k + 1) /\ r = rest[k + 2]
    BY <1>3
  <2>2. b0 < B /\ b1 < B
    BY <1>3, <2>1
  <2>3. rest[k] = b0 + B * rest[k + 1] /\ rest[k + 1] = b1 + B * r
    <3>1. k \in 0..6 /\ k + 1 \in 0..6 /\ (k + 1) + 1 = k + 2
      OBVIOUS
    <3>2. QED
      BY <1>4, <2>1, <3>1
  <2>4. pair(k) = b0 + B * b1
    BY <2>1
  <2>5. rest[k] = (b0 + B * b1) + D * r
    <3>1. B * (b1 + B * r) = B * b1 + (B * B) * r
      BY <1>2
    <3>2. QED
      BY <1>2, <2>3, <3>1
  <2>6. b0 + B * b1 < D
    <3>1. PICK c \in Nat : c = B - 1 - b1
      BY <1>2, <2>2
    <3>2. b1 = B - 1 - c
      BY <1>2, <3>1
    <3>3. B * b1 = D - B - B * c
      BY <1>2, <3>2
    <3>4. B * c \in Nat
      BY <1>2
    <3>5. QED
      BY <1>2, <1>5, <2>2, <3>3, <3>4
  <2>7. QED
    BY <1>2, <2>1, <2>4, <2>5, <2>6
<1> HIDE DEF D
<1>7. n < B => n = byte(0)
  BY <1>1, <1>2
<1>10. ASSUME n < D PROVE n = pair(0)
  <2>1. n = pair(0) + D * rest[2] /\ pair(0) \in Nat /\ rest[2] \in Nat
    BY <1>1, <1>3, <1>6
  <2> HIDE DEF pair
  <2>2. QED
    BY <1>5, <1>10, <2>1, NoHighHalf
<1> DEFINE E == D * D
           quad(k) == pair(k) + D * pair(k + 2)
<1>11. E \in Nat /\ E > 0 /\ Word32 = E /\ Word64 = E * E
  BY <1>5, Widths DEF B, D
<1>12. ASSUME NEW k \in 0..3
       PROVE  quad(k) \in Nat /\ rest[k] = pair(k) + D * rest[k + 2] /\ rest[k + 2] \in Nat /\ pair(k) \in Nat
  <2>1. k \in 0..5 /\ k + 2 \in 0..5 /\ k + 2 \in 0..7
    OBVIOUS
  <2>2. pair(k) \in Nat /\ pair(k + 2) \in Nat
    BY <1>6, <2>1
  <2>3. rest[k] = pair(k) + D * rest[k + 2] /\ rest[k + 2] \in Nat
    BY <1>3, <1>6, <2>1
  <2> HIDE DEF pair
  <2>4. QED
    BY <1>5, <2>2, <2>3
<1>13. ASSUME NEW k \in 0..3, rest[k] < E PROVE rest[k] = quad(k)
  <2>1. rest[k] = pair(k) + D * rest[k + 2] /\ rest[k + 2] \in Nat /\ pair(k) \in Nat
    BY <1>12
  <2>2. rest[k + 2] < D
    <3> HIDE DEF pair
    <3>1. pair(k) + D * rest[k + 2] < D * D
      BY <1>13, <2>1
    <3>2. QED
      BY <1>5, <2>1, <3>1, HighHalf
  <2>3. k + 2 \in 0..5
    OBVIOUS
  <2>4. k = 0 \/ k = 1 \/ k = 2 \/ k = 3
    OBVIOUS
  <2>5. rest[k + 2] = pair(k + 2) + D * rest[(k + 2) + 2] /\ pair(k + 2) \in Nat /\ rest[(k + 2) + 2] \in Nat
    <3>1. (k + 2) + 2 \in 0..7
      OBVIOUS
    <3>2. QED
      BY <1>3, <1>6, <2>3, <3>1
  <2>6. rest[k + 2] = pair(k + 2)
    <3> HIDE DEF pair
    <3>1. QED
      BY <1>5, <2>2, <2>5, NoHighHalf
  <2>7. QED
    BY <2>1, <2>6
<1>14. n < E => n = quad(0)
  BY <1>1, <1>13
<1>15. ASSUME n < E * E PROVE n = quad(0) + E * quad(4)
  <2>2. n = quad(0) + E * rest[4]
    <3>1. n = pair(0) + D * rest[2] /\ rest[2] = pair(2) + D * rest[4] /\ rest[4] \in Nat
      BY <1>1, <1>3, <1>6
    <3>2. pair(0) \in Nat /\ pair(2) \in Nat
      BY <1>6
    <3> HIDE DEF pair
    <3>3. D * (pair(2) + D * rest[4]) = D * pair(2) + (D * D) * rest[4]
      BY <1>5, <3>1, <3>2
    <3>4. QED
      BY <1>5, <3>1, <3>2, <3>3
  <2>3. quad(0) \in Nat /\ rest[4] \in Nat
    BY <1>3, <1>12
  <2>4. rest[4] < E
    <3> HIDE DEF quad, E
    <3>1. QED
      BY <1>11, <1>15, <2>2, <2>3, HighHalf
  <2>5. rest[4] = quad(4)
    <3>1. rest[4] = pair(4) + D * rest[6] /\ rest[6] \in Nat /\ pair(4) \in Nat
      BY <1>3, <1>6
    <3>2. rest[6] < D
      <4> HIDE DEF pair
      <4>1. pair(4) + D * rest[6] < D * D
        BY <2>4, <3>1
      <4>2. QED
        BY <1>5, <3>1, <4>1, HighHalf
    <3>3. rest[6] = pair(6)
      <4>1. rest[6] = byte(6) + B * rest[7]
        BY <1>4
      <4>2. rest[7] < B
        <5>1. byte(6) + B * rest[7] < B * B /\ byte(6) \in Nat /\ rest[7] \in Nat
          BY <1>3, <3>2, <4>1 DEF D
        <5> HIDE DEF byte
        <5>2. QED
          BY <1>2, <5>1, HighHalf
      <4>3. rest[7] % B = rest[7]
        BY <1>2, <1>3, <4>2
      <4>4. QED
        BY <4>1, <4>3
    <3>4. QED
      BY <3>1, <3>3
  <2>6. QED
    BY <2>2, <2>5
<1>16. \A k \in 0..7 : WordBytes(n)[k] = byte(k)
  BY <1>1 DEF B
<1>17. D = Squared(Base)
  BY Widths DEF D, B
<1>18. QED
  <2> DEFINE b(k) == WordBytes(n)[k]
  <2>1. /\ b(0) = byte(0) /\ b(0 + 1) = byte(0 + 1) /\ b(0 + 2) = byte(0 + 2)
        /\ b((0 + 2) + 1) = byte((0 + 2) + 1)
        /\ b(4) = byte(4) /\ b(4 + 1) = byte(4 + 1) /\ b(4 + 2) = byte(4 + 2)
        /\ b((4 + 2) + 1) = byte((4 + 2) + 1)
    BY <1>16
  <2> HIDE DEF b, byte
  <2>2. /\ b(0) + Base * b(0 + 1) = pair(0)
        /\ b(0 + 2) + Base * b((0 + 2) + 1) = pair(0 + 2)
        /\ b(4) + Base * b(4 + 1) = pair(4)
        /\ b(4 + 2) + Base * b((4 + 2) + 1) = pair(4 + 2)
    BY <2>1 DEF B
  <2>3. /\ n < Base => n = b(0)
        /\ n < Squared(Base) => n = pair(0)
        /\ n < Word32 => n = pair(0) + Squared(Base) * pair(0 + 2)
        /\ n < Word64 => n = (pair(0) + Squared(Base) * pair(0 + 2))
                               + Word32 * (pair(4) + Squared(Base) * pair(4 + 2))
    BY <1>7, <1>10, <1>11, <1>14, <1>15, <1>17, <2>1 DEF B
  <2> HIDE DEF pair
  <2>4. QED
    BY <2>2, <2>3 DEF b

\* Reading a number of whole width gives back what its bytes were made of.
LEMMA ReadsBack ==
  ASSUME NEW n \in Nat, NEW bits \in {8, 16, 32, 64}, n < Values(bits),
         NEW mem, NEW at \in Int,
         \A k \in 0..(bits \div 8 - 1) : mem[at + k] = WordBytes(n)[k]
  PROVE  Uint(mem, at, bits) = n
<1> DEFINE b(k) == WordBytes(n)[k]
<1>1. CASE bits = 8
  <2>1. mem[at + 0] = b(0) /\ at + 0 = at
    BY <1>1
  <2>2. n < Base
    BY <1>1 DEF Values
  <2>3. QED
    BY <1>1, <2>1, <2>2, Digits DEF Uint, U8
<1>2. CASE bits = 16
  <2>1. mem[at + 0] = b(0) /\ mem[at + 1] = b(1) /\ at + 0 = at
    BY <1>2
  <2>2. n < Squared(Base)
    BY <1>2 DEF Values
  <2>3. n = b(0) + Base * b(0 + 1)
    BY <2>2, Digits
  <2>4. QED
    BY <1>2, <2>1, <2>3 DEF Uint, U16, U8
<1>3. CASE bits = 32
  <2>1. /\ mem[at + 0] = b(0) /\ mem[at + 1] = b(1) /\ at + 0 = at
        /\ mem[at + 2] = b(2) /\ mem[at + 3] = b(3) /\ (at + 2) + 1 = at + 3
    BY <1>3
  <2>2. n < Word32
    BY <1>3 DEF Values
  <2>3. n = (b(0) + Base * b(0 + 1)) + Squared(Base) * (b(0 + 2) + Base * b((0 + 2) + 1))
    BY <2>2, Digits
  <2>4. QED
    BY <1>3, <2>1, <2>3 DEF Uint, U32, U16, U8
<1>4. CASE bits = 64
  <2>1. /\ mem[at + 0] = b(0) /\ mem[at + 1] = b(1) /\ at + 0 = at
        /\ mem[at + 2] = b(2) /\ mem[at + 3] = b(3) /\ (at + 2) + 1 = at + 3
        /\ mem[at + 4] = b(4) /\ mem[at + 5] = b(5) /\ (at + 4) + 1 = at + 5
        /\ mem[at + 6] = b(6) /\ mem[at + 7] = b(7) /\ (at + 6) + 1 = at + 7
        /\ (at + 4) + 2 = at + 6
    BY <1>4
  <2>2. n < Word64
    BY <1>4 DEF Values
  <2>3. n = ((b(0) + Base * b(0 + 1)) + Squared(Base) * (b(0 + 2) + Base * b((0 + 2) + 1)))
              + Word32 * ((b(4) + Base * b(4 + 1)) + Squared(Base) * (b(4 + 2) + Base * b((4 + 2) + 1)))
    BY <2>2, Digits
  <2>4. QED
    BY <1>4, <2>1, <2>3 DEF Uint, U64, U32, U16, U8
<1>5. QED
  BY <1>1, <1>2, <1>3, <1>4

\* No two fields share a byte.
LEMMA FieldsApart ==
  ASSUME NEW format \in Format, NEW i \in Field, NEW j \in Field, i < j
  PROVE  Place(format)[j - 1] <= Place(format)[i]
<1> DEFINE P == Place(format)
           S == {k \in 0..6 : i <= k => P[k] <= P[i]}
<1>1. P \in [0..6 -> Int] /\ \A k \in 1..6 : P[k] <= P[k - 1]
  <2>1. \A k \in 1..6 : P[k] = P[k - 1] - format.bits[k] \div 8 /\ format.bits[k] \div 8 \in Nat
    BY PlaceIs DEF Field
  <2>2. P \in [0..6 -> Int]
    BY PlaceIs
  <2>3. \A k \in 1..6 : P[k - 1] \in Int
    BY <2>2
  <2> HIDE DEF P
  <2>4. QED
    BY <2>1, <2>2, <2>3
<1>2. i \in 1..6 /\ j \in 1..6
  BY DEF Field
<1> HIDE DEF P
<1>3. 0 \in S
  BY <1>2
<1>4. ASSUME NEW k \in 1..6, k - 1 \in S PROVE k \in S
  <2>1. CASE i <= k - 1
    <3>1. P[k - 1] <= P[i] /\ P[k] <= P[k - 1] /\ P[k] \in Int /\ P[k - 1] \in Int /\ P[i] \in Int
      BY <1>1, <1>2, <1>4, <2>1
    <3>2. QED
      BY <3>1
  <2>2. CASE ~ (i <= k - 1)
    <3>1. i <= k => k = i
      BY <1>2, <2>2
    <3>2. P[i] \in Int
      BY <1>1, <1>2
    <3>3. QED
      BY <3>1, <3>2
  <2>3. QED
    BY <2>1, <2>2
<1> HIDE DEF S
<1>5. 0..6 \subseteq S
  BY <1>3, <1>4, UpTo
<1>6. j - 1 \in S /\ i <= j - 1
  BY <1>2, <1>5
<1>7. QED
  BY <1>6 DEF S, P

\* The bytes of a packed key at the place of a field are those of its value less
\* the offset.
LEMMA PackedBytes ==
  ASSUME NEW format \in Format, Place(format)[6] >= 0, NEW fields, NEW i \in Field,
         NEW k \in Nat, k < format.bits[i] \div 8
  PROVE  Pack(fields, format)[Place(format)[i] + k] = WordBytes(fields[i] - format.offset[i])[k]
<1> DEFINE P == Place(format)
           In(f, b) == P[f] <= b /\ b < P[f - 1]
<1>1. P \in [0..6 -> Int] /\ P[0] = format.key_u64s * 8 /\ format.key_u64s \in Nat
  BY PlaceIs DEF Format
<1>2. /\ \A f \in Field : f \in 0..6 /\ f - 1 \in 0..6
      /\ P[i] = P[i - 1] - format.bits[i] \div 8 /\ format.bits[i] \div 8 \in Nat
  BY PlaceIs DEF Field
<1>3. \A f, g \in Field : f < g => P[g - 1] <= P[f]
  BY FieldsApart
<1>4. PICK b \in Int : b = P[i] + k
  BY <1>1, <1>2
<1>5. P[6] >= 0
  OBVIOUS
<1> HIDE DEF P
<1>6. In(i, b)
  <2>1. P[i] \in Int /\ P[i - 1] \in Int
    BY <1>1, <1>2
  <2>2. QED
    BY <1>2, <1>4, <2>1
<1>7. ASSUME NEW f \in Field, In(f, b) PROVE f = i
  <2>1. /\ P[i] \in Int /\ P[i - 1] \in Int /\ P[f] \in Int /\ P[f - 1] \in Int
        /\ f \in Int /\ i \in Int
    BY <1>1, <1>2
  <2>2. ~ (f < i)
    <3>1. f < i => P[i - 1] <= P[f]
      BY <1>3
    <3>2. QED
      BY <1>6, <1>7, <2>1, <3>1
  <2>3. ~ (i < f)
    <3>1. i < f => P[f - 1] <= P[i]
      BY <1>3
    <3>2. QED
      BY <1>6, <1>7, <2>1, <3>1
  <2>4. QED
    BY <2>1, <2>2, <2>3
<1>8. b \in 0..(format.key_u64s * 8 - 1)
  <2>1. P[6] <= P[i]
    <3>1. i < 6 => P[6 - 1] <= P[i]
      BY <1>3 DEF Field
    <3>2. P[6] <= P[6 - 1]
      <4>1. P[6] = P[6 - 1] - format.bits[6] \div 8 /\ format.bits[6] \div 8 \in Nat
        BY PlaceIs DEF Field, P
      <4>2. P[6 - 1] \in Int
        BY <1>1
      <4>3. QED
        BY <4>1, <4>2
    <3>3. P[6] \in Int /\ P[6 - 1] \in Int /\ P[i] \in Int
      BY <1>1, <1>2
    <3>4. i < 6 \/ i = 6
      BY DEF Field
    <3>5. QED
      BY <3>1, <3>2, <3>3, <3>4
  <2>2. P[i - 1] <= P[0]
    <3>1. 1 < i => P[i - 1] <= P[1]
      BY <1>3 DEF Field
    <3>2. P[1] <= P[1 - 1]
      <4>1. P[1] = P[1 - 1] - format.bits[1] \div 8 /\ format.bits[1] \div 8 \in Nat
        BY PlaceIs DEF Field, P
      <4>2. P[1 - 1] \in Int
        BY <1>1
      <4>3. QED
        BY <4>1, <4>2
    <3>3. P[0] \in Int /\ P[1] \in Int /\ P[i - 1] \in Int /\ 1 - 1 = 0
      BY <1>1, <1>2
    <3>4. 1 < i \/ i = 1
      BY DEF Field
    <3>5. QED
      BY <3>1, <3>2, <3>3, <3>4
  <2>3. P[6] \in Int /\ P[i] \in Int /\ P[i - 1] \in Int
    BY <1>1, <1>2
  <2>4. 0 <= b
    BY <1>5, <1>6, <2>1, <2>3
  <2>5. b < format.key_u64s * 8
    BY <1>1, <1>6, <2>2, <2>3
  <2>6. QED
    BY <1>1, <2>4, <2>5
<1> DEFINE c == CHOOSE f \in Field : In(f, b)
<1>9. c = i
  <2> HIDE DEF In
  <2>1. c \in Field /\ In(c, b)
    BY <1>6
  <2>2. QED
    BY <1>7, <2>1
<1>10. Pack(fields, format)[b] = WordBytes(fields[c] - format.offset[c])[b - P[c]]
  BY <1>6, <1>8 DEF Pack, P
<1>11. b - P[i] = k
  <2>1. P[i] \in Int
    BY <1>1, <1>2
  <2>2. QED
    BY <1>4, <2>1
<1> HIDE DEF c
<1>12. QED
  BY <1>4, <1>9, <1>10, <1>11 DEF P

\* What is read at the place of a field is the value less the offset.
LEMMA RawIs ==
  ASSUME NEW format \in Format, NEW k, IsPacked(k, format), k.fields \in [Field -> Nat],
         NEW i \in Field, format.bits[i] \in {8, 16, 32, 64}
  PROVE  Raw(k, format, i) = k.fields[i] - format.offset[i]
<1>1. PICK n \in Nat : n = k.fields[i] - format.offset[i]
  <2>1. k.fields[i] \in Nat /\ format.offset[i] \in Nat /\ format.offset[i] <= k.fields[i]
    BY DEF IsPacked, Format
  <2>2. k.fields[i] - format.offset[i] \in Nat
    BY <2>1
  <2>3. QED
    BY <2>2
<1>2. PICK at \in Int : at = Place(format)[i]
  <2>1. i \in 0..6 /\ Place(format) \in [0..6 -> Int]
    BY PlaceIs DEF Field
  <2>2. QED
    BY <2>1
<1>3. PICK bits \in {8, 16, 32, 64} : bits = format.bits[i]
  OBVIOUS
<1>4. n < Values(bits)
  BY <1>1, <1>3 DEF IsPacked
<1>5. ASSUME NEW j \in 0..(bits \div 8 - 1) PROVE k.mem[at + j] = WordBytes(n)[j]
  <2>1. bits \div 8 \in Nat /\ j \in Nat /\ j < bits \div 8
    OBVIOUS
  <2>2. Place(format)[6] >= 0 /\ k.mem = Pack(k.fields, format)
    BY DEF IsPacked
  <2>3. Pack(k.fields, format)[Place(format)[i] + j] = WordBytes(k.fields[i] - format.offset[i])[j]
    BY <1>3, <2>1, <2>2, PackedBytes
  <2>4. QED
    BY <1>1, <1>2, <2>2, <2>3
<1>6. Uint(k.mem, at, bits) = n
  BY <1>4, <1>5, ReadsBack
<1>7. QED
  BY <1>1, <1>2, <1>3, <1>6 DEF Raw

\* Each field of a regular key: its value is what is read and the offset.
LEMMA FieldIs ==
  ASSUME NEW format \in Format, IsWhole(format), NEW k, k.fields \in [Field -> Nat],
         k.format = "local" => IsPacked(k, format),
         NEW i \in Field, k.fields[i] < Word64
  PROVE  /\ ParseField(k, format, i) = k.fields[i]
         /\ \A n \in i..6 : ParseBuffer(k, format, n)[i] = k.fields[i]
<1> DEFINE v == k.fields[i]
           value == IF k.format # "local" THEN v
                    ELSE IF format.bits[i] = 0 THEN format.offset[i]
                    ELSE (format.offset[i] + Raw(k, format, i)) % Word64
<1>1. v \in Nat /\ v < Word64 /\ format.offset[i] \in Nat
  BY DEF Format
<1>2. value = v
  <2>1. CASE k.format # "local"
    BY <2>1
  <2>2. CASE k.format = "local" /\ format.bits[i] = 0
    <3>1. format.offset[i] <= v /\ v - format.offset[i] < 1
      BY <2>2 DEF IsPacked, Values
    <3>2. format.offset[i] = v
      BY <1>1, <3>1
    <3>3. QED
      BY <2>2, <3>2
  <2>3. CASE k.format = "local" /\ format.bits[i] # 0
    <3>1. format.bits[i] \in {8, 16, 32, 64}
      BY <2>3 DEF IsWhole
    <3>2. Raw(k, format, i) = v - format.offset[i]
      BY <2>3, <3>1, RawIs
    <3> HIDE DEF v
    <3>3. format.offset[i] + Raw(k, format, i) = v
      BY <1>1, <3>2
    <3>4. v % Word64 = v
      BY <1>1, Widths
    <3>5. QED
      BY <2>3, <3>3, <3>4
  <2>4. QED
    BY <2>1, <2>2, <2>3
<1>3. ParseField(k, format, i) = value
  BY DEF ParseField
<1>4. \A n \in i..6 : ParseBuffer(k, format, n)[i] = value
  <2>1. \A n \in i..6 : ~ (i > n)
    BY DEF Field
  <2>2. QED
    BY <2>1 DEF ParseBuffer
<1>5. QED
  BY <1>2, <1>3, <1>4

\* UnpackingsAgree: benz_bch_parse_bkey, _buffer and _field return what the kernel
\* packed, whatever the widths and offsets of the format.
THEOREM UnpackingsAlwaysAgree == RecordsSpec => []UnpackingsAgree
<1>1. Inv => UnpackingsAgree
  <2> SUFFICES ASSUME Inv, Regular(key), NEW i \in Field
               PROVE  /\ ParseField(key, node.format, i) = key.fields[i]
                      /\ bkey[i] = key.fields[i]
                      /\ \A n \in i..6 : ParseBuffer(key, node.format, n)[i] = key.fields[i]
    BY DEF UnpackingsAgree
  <2>1. IsNode(node)
    BY NodesAssumption DEF Inv
  <2>2. node.format \in Format /\ IsKey(key, node.format)
    BY <2>1 DEF Inv, IsNode, key
  <2>3. key.fields \in [Field -> Nat] /\ IsWhole(node.format)
        /\ (key.format = "local" => IsPacked(key, node.format))
    BY <2>2 DEF IsKey, Regular
  <2>4. \A j \in Field : key.fields[j] < Word64
    <3> SUFFICES ASSUME NEW j \in Field PROVE key.fields[j] < Word64
      OBVIOUS
    <3>1. key.fields[j] < Word32 \/ key.fields[j] < Word64
      BY DEF Regular
    <3>2. Word32 <= Word64
      <4>1. PICK w \in Nat : w = Word32 /\ w > 0
        BY Widths
      <4>2. w <= w * w
        BY <4>1
      <4>3. QED
        BY <4>1, <4>2, Widths
    <3>3. key.fields[j] \in Nat
      BY <2>3
    <3>4. QED
      BY <3>1, <3>2, <3>3, Widths
  <2>5. /\ ParseField(key, node.format, i) = key.fields[i]
        /\ \A n \in i..6 : ParseBuffer(key, node.format, n)[i] = key.fields[i]
    BY <2>2, <2>3, <2>4, FieldIs
  <2>6. bkey[i] = key.fields[i]
    <3>1. ParseBuffer(key, node.format, 6)[i] = key.fields[i]
      BY <2>5 DEF Field
    <3>2. CASE key.format # "local"
      BY <3>2 DEF bkey, ParseBkey
    <3>3. CASE key.format = "local" /\ i \in {Snapshot, Size, VersionHi}
      <4>1. key.fields[i] < Word32 /\ key.fields[i] \in Nat
        BY <2>3, <3>3 DEF Regular
      <4>2. key.fields[i] % Word32 = key.fields[i]
        BY <4>1, Widths
      <4>3. QED
        BY <3>1, <3>3, <4>2 DEF bkey, ParseBkey
    <3>4. CASE key.format = "local" /\ i \notin {Snapshot, Size, VersionHi}
      BY <3>1, <3>4 DEF bkey, ParseBkey
    <3>5. QED
      BY <3>2, <3>3, <3>4
  <2>7. QED
    BY <2>5, <2>6
<1>2. QED
  BY <1>1, KeyOfNode, PTL

-----------------------------------------------------------------------------
(* Powers of two *)

\* 2^n is the number of sets of n elements.
LEMMA PowerType ==
  ASSUME NEW n \in Nat
  PROVE  2^n \in Nat /\ IsFiniteSet(SUBSET (1..n)) /\ Cardinality(SUBSET (1..n)) = 2^n
<1>1. IsFiniteSet(1..n) /\ Cardinality(1..n) = n
  BY FS_Interval
<1>2. IsFiniteSet(SUBSET (1..n)) /\ Cardinality(SUBSET (1..n)) = 2^n
  BY <1>1, FS_SUBSET
<1>3. QED
  BY <1>2, FS_CardinalityType

\* One element more makes twice as many: those without it and those with it.
LEMMA PowerNext ==
  ASSUME NEW n \in Nat
  PROVE  2^(n + 1) = 2 * 2^n
<1> DEFINE A == SUBSET (1..n)
           Z == {T \cup {n + 1} : T \in A}
           f == [T \in A |-> T \cup {n + 1}]
<1>1. \A T \in A : n + 1 \notin T
  OBVIOUS
<1>2. f \in Bijection(A, Z)
  <2>1. f \in [A -> Z]
    OBVIOUS
  <2>2. ASSUME NEW S \in A, NEW T \in A, f[S] = f[T] PROVE S = T
    BY <1>1, <2>2
  <2>3. \A z \in Z : \E T \in A : f[T] = z
    OBVIOUS
  <2> HIDE DEF A, Z, f
  <2>4. QED
    BY <2>1, <2>2, <2>3 DEF Bijection, Injection, Surjection, IsInjective
<1>3. IsFiniteSet(Z) /\ Cardinality(Z) = 2^n
  <2>1. ExistsBijection(A, Z)
    BY <1>2 DEF ExistsBijection
  <2>2. IsFiniteSet(A) /\ Cardinality(A) = 2^n
    BY PowerType
  <2> HIDE DEF A, Z
  <2>3. QED
    BY <2>1, <2>2, FS_Bijection
<1>4. A \cap Z = {}
  BY <1>1
<1>5. A \cup Z = SUBSET (1..(n + 1))
  <2>1. A \cup Z \subseteq SUBSET (1..(n + 1))
    <3>1. 1..n \subseteq 1..(n + 1) /\ n + 1 \in 1..(n + 1)
      OBVIOUS
    <3>2. \A T \in A : T \subseteq 1..(n + 1) /\ T \cup {n + 1} \subseteq 1..(n + 1)
      BY <3>1
    <3>3. QED
      BY <3>2
  <2>2. ASSUME NEW T \in SUBSET (1..(n + 1)) PROVE T \in A \cup Z
    <3>1. T \ {n + 1} \in A
      OBVIOUS
    <3>2. CASE n + 1 \in T
      <4>1. T = (T \ {n + 1}) \cup {n + 1}
        BY <3>2
      <4>2. QED
        BY <3>1, <4>1
    <3>3. CASE n + 1 \notin T
      BY <3>1, <3>3
    <3>4. QED
      BY <3>2, <3>3
  <2>3. QED
    BY <2>1, <2>2
<1>6. IsFiniteSet(A) /\ Cardinality(A) = 2^n
  BY PowerType
<1>7. Cardinality(A \cup Z) = 2^n + 2^n - 0
  <2> HIDE DEF A, Z
  <2>1. Cardinality({}) = 0
    BY FS_EmptySet
  <2>2. QED
    BY <1>3, <1>4, <1>6, <2>1, FS_Union
<1>8. Cardinality(SUBSET (1..(n + 1))) = 2^(n + 1) /\ 2^n \in Nat
  <2>1. n + 1 \in Nat
    OBVIOUS
  <2>2. QED
    BY <2>1, PowerType
<1>9. PICK p \in Nat, q \in Nat : p = 2^n /\ q = 2^(n + 1)
  <2>1. n + 1 \in Nat
    OBVIOUS
  <2>2. 2^(n + 1) \in Nat
    BY <2>1, PowerType
  <2>3. QED
    BY <1>8, <2>2
<1>10. q = p + p
  <2>1. q = Cardinality(A \cup Z)
    BY <1>5, <1>8, <1>9
  <2> HIDE DEF A, Z
  <2>2. q = p + p - 0
    BY <1>7, <1>9, <2>1
  <2>3. QED
    BY <2>2
<1>11. QED
  BY <1>9, <1>10

\* The empty product.
LEMMA PowerZero == 2^0 = 1
OBVIOUS

\* Powers are positive, and their exponents add up.
LEMMA PowerSum ==
  ASSUME NEW m \in Nat, NEW n \in Nat
  PROVE  2^(m + n) = 2^m * 2^n /\ 2^n > 0
<1> DEFINE S == {k \in 0..n : 2^(m + k) = 2^m * 2^k /\ 2^k > 0}
<1>1. 0 \in S
  <2>1. m + 0 = m
    OBVIOUS
  <2>2. 2^m \in Nat
    BY PowerType
  <2>3. 2^m = 2^m * 1
    BY <2>2
  <2>4. QED
    BY <2>1, <2>3, PowerZero
<1>2. ASSUME NEW k \in 1..n, k - 1 \in S PROVE k \in S
  <2>1. PICK j \in Nat : j = k - 1
    OBVIOUS
  <2>2. k = j + 1 /\ m + k = (m + j) + 1 /\ m + j \in Nat
    BY <2>1
  <2>3. PICK p \in Nat, q \in Nat, r \in Nat : p = 2^m /\ q = 2^j /\ r = 2^(m + j)
    BY <2>2, PowerType
  <2>4. 2^k = 2 * q /\ 2^(m + k) = 2 * r
    BY <2>2, <2>3, PowerNext
  <2>5. r = p * q /\ q > 0
    BY <1>2, <2>1, <2>3
  <2>6. 2 * r = p * (2 * q) /\ 2 * q > 0
    BY <2>5
  <2>7. QED
    BY <2>3, <2>4, <2>6
<1> HIDE DEF S
<1>3. 0..n \subseteq S
  BY <1>1, <1>2, UpTo
<1>4. n \in S
  BY <1>3
<1>5. QED
  BY <1>4 DEF S

\* Quotient and remainder are the only ones.
LEMMA DivisionIs ==
  ASSUME NEW d \in Nat, d > 0, NEW q \in Nat, NEW r \in Nat, r < d, NEW n, n = r + d * q
  PROVE  n \div d = q /\ n % d = r
<1>1. n \in Nat
  BY SMT
<1>2. PICK s \in Nat, t \in Nat : s = n \div d /\ t = n % d
  BY <1>1, Division
<1>3. t < d /\ n = t + d * s
  BY <1>1, <1>2, Division
<1>4. ~ (s < q)
  <2> SUFFICES ASSUME s < q PROVE FALSE
    OBVIOUS
  <2>1. PICK e \in Nat : q = s + 1 + e
    <3>1. q - s - 1 \in Nat /\ q = s + 1 + (q - s - 1)
      OBVIOUS
    <3>2. QED
      BY <3>1
  <2>2. d * q = d * s + d + d * e
    BY <2>1
  <2>3. d * e \in Nat /\ d * s \in Nat
    OBVIOUS
  <2>4. QED
    BY <1>3, <2>2, <2>3
<1>5. ~ (q < s)
  <2> SUFFICES ASSUME q < s PROVE FALSE
    OBVIOUS
  <2>1. PICK e \in Nat : s = q + 1 + e
    <3>1. s - q - 1 \in Nat /\ s = q + 1 + (s - q - 1)
      OBVIOUS
    <3>2. QED
      BY <3>1
  <2>2. d * s = d * q + d + d * e
    BY <2>1
  <2>3. d * e \in Nat /\ d * q \in Nat
    OBVIOUS
  <2>4. QED
    BY <1>3, <2>2, <2>3
<1>6. s = q
  BY <1>4, <1>5
<1>7. t = r
  <2>1. d * q \in Nat
    OBVIOUS
  <2>2. QED
    BY <1>3, <1>6, <2>1
<1>8. QED
  BY <1>2, <1>6, <1>7

\* The remainder of a sum.
LEMMA RemainderIs ==
  ASSUME NEW d \in Nat, NEW q \in Nat, NEW r \in Nat, r < d
  PROVE  (r + d * q) % d = r
<1>1. d > 0
  OBVIOUS
<1>2. PICK n : n = r + d * q
  OBVIOUS
<1>3. n % d = r
  BY <1>1, <1>2, DivisionIs
<1>4. QED
  BY <1>2, <1>3

\* A quotient between bounds.
LEMMA QuotientIs ==
  ASSUME NEW d \in Nat, d > 0, NEW q \in Nat, NEW n \in Nat, d * q <= n, n < d * (q + 1)
  PROVE  n \div d = q
<1>1. d * (q + 1) = d * q + d /\ d * q \in Nat
  OBVIOUS
<1>2. PICK r \in Nat : r = n - d * q
  <2>1. n - d * q \in Nat
    BY <1>1
  <2>2. QED
    BY <2>1
<1>3. r < d /\ n = r + d * q
  BY <1>1, <1>2
<1>4. QED
  BY <1>3, DivisionIs

-----------------------------------------------------------------------------
(* Varints *)

\* The numbers of a varint's bytes.
LEMMA ByteFacts ==
  /\ ByteBits \in 1..9 /\ ByteBits \in Nat
  /\ Byte \in Nat /\ Byte > 0 /\ Byte = 2^ByteBits
<1>1. ByteBits \in 1..9 /\ ByteBits \in Nat
  BY ByteBitsAssumption
<1>2. 2^ByteBits \in Nat
  BY <1>1, PowerType
<1>3. 2^ByteBits > 0
  BY <1>1, PowerSum
<1>4. QED
  BY <1>1, <1>2, <1>3 DEF Byte

\* A multiple of a power is one of each smaller power.
LEMMA PowerDivides ==
  ASSUME NEW m \in Nat, NEW n \in Nat, m <= n, NEW k \in Nat
  PROVE  (2^n * k) % 2^m = 0
<1>1. PICK d \in Nat : n = m + d
  <2>1. n - m \in Nat /\ n = m + (n - m)
    OBVIOUS
  <2>2. QED
    BY <2>1
<1>2. PICK p \in Nat, q \in Nat : p = 2^m /\ q = 2^d
  BY PowerType
<1>3. 2^n = p * q /\ p > 0
  <2>1. 2^(m + d) = 2^m * 2^d /\ 2^m > 0
    <3>1. 2^(0 + m) = 2^0 * 2^m /\ 2^m > 0
      BY PowerSum
    <3>2. QED
      BY <3>1, PowerSum
  <2>2. QED
    BY <1>1, <1>2, <2>1
<1>4. PICK e \in Nat : e = q * k
  <2>1. q * k \in Nat
    OBVIOUS
  <2>2. QED
    BY <2>1
<1>5. 2^n * k = 0 + p * e
  <2>1. (p * q) * k = p * (q * k)
    OBVIOUS
  <2>2. QED
    BY <1>3, <1>4, <2>1
<1>6. (2^n * k) % p = 0
  BY <1>3, <1>5, DivisionIs
<1>7. QED
  BY <1>2, <1>6

\* benz_ctz64 ends.
LEMMA TrailingZerosAre ==
  ASSUME NEW x \in Nat
  PROVE  /\ TrailingZeros(x) \in 0..ByteBits
         /\ x % 2^TrailingZeros(x) = 0
         /\ TrailingZeros(x) = ByteBits \/ x % 2^(TrailingZeros(x) + 1) # 0
<1> DEFINE Fits(n) == x % 2^n = 0 /\ (n = ByteBits \/ x % 2^(n + 1) # 0)
           S == {n \in 0..ByteBits : x % 2^n = 0}
<1>1. ByteBits \in Nat
  BY ByteFacts
<1>2. \E n \in 0..ByteBits : Fits(n)
  <2> SUFFICES ASSUME \A n \in 0..ByteBits : ~ Fits(n) PROVE FALSE
    OBVIOUS
  <2>1. 0 \in S
    <3>1. x = 0 + 1 * x
      OBVIOUS
    <3>2. x % 1 = 0
      BY <3>1, DivisionIs
    <3>3. QED
      BY <1>1, <3>2, PowerZero
  <2>2. ASSUME NEW n \in 1..ByteBits, n - 1 \in S PROVE n \in S
    <3>1. n - 1 \in 0..ByteBits /\ x % 2^(n - 1) = 0 /\ n - 1 # ByteBits /\ (n - 1) + 1 = n
      BY <1>1, <2>2
    <3>2. ~ Fits(n - 1)
      BY <3>1
    <3>3. x % 2^n = 0
      BY <3>1, <3>2
    <3>4. QED
      BY <3>3
  <2> HIDE DEF S
  <2>3. 0..ByteBits \subseteq S
    BY <1>1, <2>1, <2>2, UpTo
  <2>4. ByteBits \in S
    BY <1>1, <2>3
  <2>5. Fits(ByteBits)
    BY <2>4 DEF S
  <2>6. QED
    BY <1>1, <2>5
<1> DEFINE t == CHOOSE n \in 0..ByteBits : Fits(n)
<1>3. t = TrailingZeros(x)
  BY DEF TrailingZeros
<1>4. t \in 0..ByteBits /\ Fits(t)
  <2> HIDE DEF Fits
  <2>1. QED
    BY <1>2
<1>5. QED
  BY <1>3, <1>4

\* Every number has a length: the first of which it fits in the bits.
LEMMA VarintBytesAre ==
  ASSUME NEW v \in Nat
  PROVE  /\ VarintBytes(v) \in 1..(ByteBits + 1)
         /\ VarintBytes(v) <= ByteBits => v < 2^((ByteBits - 1) * VarintBytes(v))
<1> DEFINE C == ByteBits - 1
           Fits(f) == /\ f <= ByteBits => v < 2^(C * f)
                      /\ f > 1 => v >= 2^(C * (f - 1))
           S == {f \in 0..ByteBits : f = 0 \/ v >= 2^(C * f)}
<1>1. ByteBits \in Nat /\ ByteBits > 0 /\ C \in Nat
  BY ByteFacts
<1>2. \E f \in 1..(ByteBits + 1) : Fits(f)
  <2> SUFFICES ASSUME \A f \in 1..(ByteBits + 1) : ~ Fits(f) PROVE FALSE
    OBVIOUS
  <2>1. 0 \in S
    BY <1>1
  <2>2. ASSUME NEW f \in 1..ByteBits, f - 1 \in S PROVE f \in S
    <3>1. f \in 1..(ByteBits + 1) /\ f <= ByteBits /\ (f > 1 => v >= 2^(C * (f - 1)))
      BY <1>1, <2>2
    <3>2. ~ (v < 2^(C * f))
      BY <3>1
    <3>3. C * f \in Nat
      BY <1>1
    <3>4. 2^(C * f) \in Nat
      BY <3>3, PowerType
    <3>5. v >= 2^(C * f)
      BY <3>2, <3>4
    <3>6. QED
      BY <1>1, <3>5
  <2> HIDE DEF S
  <2>3. 0..ByteBits \subseteq S
    BY <1>1, <2>1, <2>2, UpTo
  <2>4. ByteBits \in S
    BY <1>1, <2>3
  <2>5. v >= 2^(C * ByteBits)
    BY <1>1, <2>4 DEF S
  <2>6. Fits(ByteBits + 1)
    <3>1. (ByteBits + 1) - 1 = ByteBits /\ ~ (ByteBits + 1 <= ByteBits)
      BY <1>1
    <3>2. QED
      BY <2>5, <3>1
  <2>7. QED
    BY <1>1, <2>6
<1> DEFINE g == CHOOSE f \in 1..(ByteBits + 1) : Fits(f)
<1>3. g = VarintBytes(v)
  BY DEF VarintBytes
<1>4. g \in 1..(ByteBits + 1) /\ Fits(g)
  <2> HIDE DEF Fits
  <2>1. QED
    BY <1>2
<1>5. QED
  BY <1>3, <1>4

\* The bytes of a number, and what is left of it behind each: nothing behind the
\* last when they hold it.
LEMMA LittleEndIs ==
  ASSUME NEW v \in Nat, NEW n \in Nat
  PROVE  \E rest \in [0..n -> Nat] :
           /\ rest[0] = v
           /\ \A i \in 1..n : rest[i - 1] = (rest[i - 1] % Byte) + Byte * rest[i]
           /\ v < 2^(ByteBits * n) => rest[n] = 0
           /\ LittleEnd(v, n) = [i \in 1..n |-> rest[i - 1] % Byte]
<1> DEFINE step == [t \in (1..n) \X Nat |-> t[2] \div Byte]
           Walk(f) == f = [i \in 0..n |-> IF i = 0 THEN v ELSE f[i - 1] \div Byte]
<1>1. \A m \in Nat : m \div Byte \in Nat
  BY ByteFacts
<1>2. step \in [(1..n) \X Nat -> Nat]
  BY <1>1
<1>3. PICK f \in Runs(n, Nat, v, step) : TRUE
  <2> HIDE DEF step
  <2>1. Runs(n, Nat, v, step) # {}
    BY <1>2, Recursion
  <2>2. QED
    BY <2>1
<1>4. f \in [0..n -> Nat] /\ f[0] = v /\ \A i \in 1..n : f[i] = f[i - 1] \div Byte
  <2>1. f \in [0..n -> Nat] /\ f[0] = v /\ \A i \in 1..n : f[i] = step[<<i, f[i - 1]>>]
    BY <1>3 DEF Runs
  <2>2. \A i \in 1..n : i - 1 \in 0..n
    OBVIOUS
  <2>3. \A i \in 1..n : f[i - 1] \in Nat
    BY <2>1, <2>2
  <2>4. QED
    BY <2>1, <2>3
<1>5. Walk(f)
  BY <1>4
<1>6. \A g : Walk(g) => g = f
  <2> SUFFICES ASSUME NEW g, Walk(g) PROVE g = f
    OBVIOUS
  <2>1. \A i \in 0..n : g[i] = IF i = 0 THEN v ELSE g[i - 1] \div Byte
    OBVIOUS
  <2> DEFINE S == {i \in 0..n : g[i] = f[i]}
  <2>2. 0 \in S
    BY <1>4, <2>1
  <2>3. \A i \in 1..n : i - 1 \in S => i \in S
    BY <1>4, <2>1
  <2> HIDE DEF S
  <2>4. 0..n \subseteq S
    BY <2>2, <2>3, UpTo
  <2>5. g = [i \in 0..n |-> g[i]]
    OBVIOUS
  <2>6. QED
    BY <1>4, <2>4, <2>5 DEF S
<1> DEFINE at == CHOOSE g : Walk(g)
<1>7. Walk(at)
  BY <1>5
<1>8. at = f
  <2> HIDE DEF Walk, at
  <2>1. QED
    BY <1>6, <1>7
<1>9. LittleEnd(v, n) = [i \in 1..n |-> at[i - 1] % Byte]
  BY DEF LittleEnd
<1>10. ASSUME NEW i \in 1..n PROVE f[i - 1] = (f[i - 1] % Byte) + Byte * f[i] /\ f[i - 1] \in Nat /\ f[i] \in Nat
  <2>1. f[i - 1] \in Nat /\ f[i] = f[i - 1] \div Byte /\ f[i] \in Nat
    BY <1>4
  <2>2. PICK x \in Nat, b \in Nat : x = f[i - 1] /\ b = Byte /\ b > 0
    BY <2>1, ByteFacts
  <2>3. x = (x % b) + b * (x \div b)
    BY <2>2, Division
  <2>4. QED
    BY <2>1, <2>2, <2>3
<1>11. ASSUME v < 2^(ByteBits * n) PROVE f[n] = 0
  <2> DEFINE S == {i \in 0..n : f[i] < 2^(ByteBits * (n - i))}
  <2>1. 0 \in S
    BY <1>4, <1>11
  <2>2. ASSUME NEW i \in 1..n, i - 1 \in S PROVE i \in S
    <3>1. PICK p \in Nat : p = 2^(ByteBits * (n - i))
      <4>1. n - i \in Nat /\ ByteBits \in Nat
        BY ByteFacts
      <4>2. ByteBits * (n - i) \in Nat
        BY <4>1
      <4>3. QED
        BY <4>2, PowerType
    <3>2. 2^(ByteBits * (n - (i - 1))) = Byte * p
      <4>1. PICK e \in Nat : e = ByteBits * (n - i)
        BY ByteFacts
      <4>2. ByteBits * (n - (i - 1)) = ByteBits + e
        BY <4>1, ByteFacts
      <4>3. 2^(ByteBits + e) = 2^ByteBits * 2^e
        BY ByteFacts, PowerSum
      <4>4. QED
        BY <3>1, <4>1, <4>2, <4>3, ByteFacts
    <3>3. f[i - 1] < Byte * p
      BY <2>2, <3>2
    <3>4. PICK q \in Nat, a \in Nat : q = f[i] /\ a = f[i - 1] % Byte
      BY <1>10, ByteFacts, Division
    <3>5. a + Byte * q < Byte * p
      BY <1>10, <3>3, <3>4
    <3>6. q < p
      <4> SUFFICES ASSUME q >= p PROVE FALSE
        OBVIOUS
      <4>1. PICK d \in Nat : q = p + d
        <5>1. q - p \in Nat /\ q = p + (q - p)
          OBVIOUS
        <5>2. QED
          BY <5>1
      <4>2. Byte * q = Byte * p + Byte * d
        BY <4>1, ByteFacts
      <4>3. Byte * d \in Nat /\ Byte * p \in Nat
        BY ByteFacts
      <4>4. QED
        BY <3>5, <4>2, <4>3
    <3>7. QED
      BY <3>1, <3>4, <3>6
  <2> HIDE DEF S
  <2>3. 0..n \subseteq S
    BY <2>1, <2>2, UpTo
  <2>4. n \in S
    BY <2>3
  <2>5. f[n] < 2^0
    <3>1. ByteBits * (n - n) = 0
      BY ByteFacts
    <3>2. QED
      BY <2>4, <3>1 DEF S
  <2>6. f[n] \in Nat
    BY <1>4
  <2>7. QED
    BY <2>5, <2>6, PowerZero
<1>12. QED
  BY <1>4, <1>8, <1>9, <1>10, <1>11

\* benz_getle64(r, -8): the bytes in front of r, the last one highest.
LEMMA WordBeforeIs ==
  ASSUME NEW inode \in PackedInode, NEW r \in Nat, ByteBits <= r, r <= Len(inode.fields)
  PROVE  \E le \in [0..ByteBits -> Nat] :
           /\ le[0] = 0
           /\ \A i \in 1..ByteBits : /\ inode.fields[r - i + 1] \in 0..(Byte - 1)
                                     /\ le[i] = Byte * le[i - 1] + inode.fields[r - i + 1]
           /\ WordBefore(inode, r) = le[ByteBits]
<1> DEFINE n == ByteBits
           byte == inode.fields
           step == [t \in (1..n) \X Nat |-> Byte * t[2] + byte[r - t[1] + 1]]
           Walk(f) == f = [i \in 0..n |-> IF i = 0 THEN 0 ELSE Byte * f[i - 1] + byte[r - i + 1]]
<1>1. n \in Nat /\ Byte \in Nat /\ Byte > 0
  BY ByteFacts
<1>2. \A i \in 1..n : byte[r - i + 1] \in 0..(Byte - 1)
  <2>1. byte \in Seq(0..(Byte - 1))
    BY DEF PackedInode
  <2>2. \A i \in 1..n : r - i + 1 \in 1..Len(byte)
    BY <1>1
  <2> HIDE DEF byte
  <2>3. QED
    BY <2>1, <2>2, ElementOfSeq
<1> HIDE DEF byte
<1>3. \A i \in 1..n, m \in Nat : Byte * m + byte[r - i + 1] \in Nat
  BY <1>1, <1>2
<1>4. step \in [(1..n) \X Nat -> Nat]
  BY <1>3
<1>5. PICK f \in Runs(n, Nat, 0, step) : TRUE
  <2> HIDE DEF step
  <2>1. Runs(n, Nat, 0, step) # {}
    BY <1>1, <1>4, Recursion
  <2>2. QED
    BY <2>1
<1>6. f \in [0..n -> Nat] /\ f[0] = 0 /\ \A i \in 1..n : f[i] = Byte * f[i - 1] + byte[r - i + 1]
  <2>1. f \in [0..n -> Nat] /\ f[0] = 0 /\ \A i \in 1..n : f[i] = step[<<i, f[i - 1]>>]
    BY <1>5 DEF Runs
  <2>2. \A i \in 1..n : i - 1 \in 0..n
    BY <1>1
  <2>3. \A i \in 1..n : f[i - 1] \in Nat
    BY <2>1, <2>2
  <2>4. QED
    BY <2>1, <2>3
<1>7. Walk(f)
  BY <1>6
<1>8. \A g : Walk(g) => g = f
  <2> SUFFICES ASSUME NEW g, Walk(g) PROVE g = f
    OBVIOUS
  <2>1. \A i \in 0..n : g[i] = IF i = 0 THEN 0 ELSE Byte * g[i - 1] + byte[r - i + 1]
    OBVIOUS
  <2> DEFINE S == {i \in 0..n : g[i] = f[i]}
  <2>2. 0 \in S
    BY <1>1, <1>6, <2>1
  <2>3. ASSUME NEW i \in 1..n, i - 1 \in S PROVE i \in S
    <3>1. i \in 0..n /\ i # 0
      BY <1>1
    <3>2. g[i - 1] = f[i - 1]
      BY <2>3
    <3>3. g[i] = Byte * g[i - 1] + byte[r - i + 1]
      BY <2>1, <3>1
    <3>4. QED
      BY <1>6, <3>1, <3>2, <3>3
  <2> HIDE DEF S
  <2>4. 0..n \subseteq S
    BY <1>1, <2>2, <2>3, UpTo
  <2>5. g = [i \in 0..n |-> g[i]]
    OBVIOUS
  <2>6. QED
    BY <1>6, <2>4, <2>5 DEF S
<1> DEFINE at == CHOOSE g : Walk(g)
<1>9. Walk(at)
  BY <1>7
<1>10. at = f
  <2> HIDE DEF Walk, at
  <2>1. QED
    BY <1>8, <1>9
<1>11. WordBefore(inode, r) = at[n]
  BY DEF WordBefore, byte
<1>12. QED
  BY <1>2, <1>6, <1>10, <1>11 DEF byte

\* A varint has a length.
LEMMA LengthIs ==
  ASSUME NEW inode \in PackedInode, NEW r \in Nat
  PROVE  Length(inode, r) \in 1..(ByteBits + 1)
<1>1. CASE r < Len(inode.fields)
  <2>1. r + 1 \in 1..Len(inode.fields) /\ inode.fields \in Seq(0..(Byte - 1))
    BY <1>1 DEF PackedInode
  <2>2. inode.fields[r + 1] \in 0..(Byte - 1)
    BY <2>1, ElementOfSeq
  <2>3. inode.fields[r + 1] + 1 \in Nat
    BY <2>2, ByteFacts
  <2>4. TrailingZeros(inode.fields[r + 1] + 1) \in 0..ByteBits
    BY <2>3, TrailingZerosAre
  <2>5. QED
    BY <1>1, <2>4, ByteFacts DEF Length
<1>2. CASE ~ (r < Len(inode.fields))
  BY <1>2, ByteFacts DEF Length
<1>3. QED
  BY <1>1, <1>2

\* The scan goes from varint to varint, at least a byte each time.
LEMMA ScanIs ==
  ASSUME NEW inode \in PackedInode
  PROVE  /\ Scan(inode) \in [0..9 -> Nat]
         /\ Scan(inode)[0] = 0
         /\ \A n \in 1..9 : Scan(inode)[n] = Scan(inode)[n - 1] + Length(inode, Scan(inode)[n - 1])
         /\ Scan(inode)[9] >= 9
<1> DEFINE step == [t \in (1..9) \X Nat |-> t[2] + Length(inode, t[2])]
           Walk(f) == f = [i \in 0..9 |-> IF i = 0 THEN 0 ELSE f[i - 1] + Length(inode, f[i - 1])]
<1>1. \A m \in Nat : m + Length(inode, m) \in Nat /\ m + Length(inode, m) >= m + 1
  <2> SUFFICES ASSUME NEW m \in Nat
               PROVE  m + Length(inode, m) \in Nat /\ m + Length(inode, m) >= m + 1
    OBVIOUS
  <2>1. Length(inode, m) \in 1..(ByteBits + 1)
    BY LengthIs
  <2>2. QED
    BY <2>1, ByteFacts
<1>2. step \in [(1..9) \X Nat -> Nat]
  BY <1>1
<1>3. PICK f \in Runs(9, Nat, 0, step) : TRUE
  <2> HIDE DEF step
  <2>1. Runs(9, Nat, 0, step) # {}
    BY <1>2, Recursion
  <2>2. QED
    BY <2>1
<1>4. f \in [0..9 -> Nat] /\ f[0] = 0 /\ \A i \in 1..9 : f[i] = f[i - 1] + Length(inode, f[i - 1])
  <2>1. \A i \in 1..9 : f[i] = step[<<i, f[i - 1]>>] /\ f[i - 1] \in Nat
    BY <1>3 DEF Runs
  <2>2. QED
    BY <1>3, <2>1 DEF Runs
<1>5. Walk(f)
  BY <1>4
<1>6. \A g : Walk(g) => g = f
  <2> SUFFICES ASSUME NEW g, Walk(g) PROVE g = f
    OBVIOUS
  <2>1. \A i \in 0..9 : g[i] = IF i = 0 THEN 0 ELSE g[i - 1] + Length(inode, g[i - 1])
    OBVIOUS
  <2> DEFINE S == {i \in 0..9 : g[i] = f[i]}
  <2>2. 0 \in S
    BY <1>4, <2>1
  <2>3. \A i \in 1..9 : i - 1 \in S => i \in S
    BY <1>4, <2>1
  <2> HIDE DEF S
  <2>4. 0..9 \subseteq S
    BY <2>2, <2>3, UpTo
  <2>5. g = [i \in 0..9 |-> g[i]]
    OBVIOUS
  <2>6. QED
    BY <1>4, <2>4, <2>5 DEF S
<1> DEFINE at == CHOOSE g : Walk(g)
<1>7. Walk(at)
  BY <1>5
<1>8. at = f
  <2> HIDE DEF Walk, at
  <2>1. QED
    BY <1>6, <1>7
<1>9. Scan(inode) = at
  BY DEF Scan
<1>10. f[9] >= 9
  <2> DEFINE S == {i \in 0..9 : f[i] >= i}
  <2>1. 0 \in S
    BY <1>4
  <2>2. ASSUME NEW i \in 1..9, i - 1 \in S PROVE i \in S
    <3>1. f[i - 1] \in Nat /\ f[i - 1] >= i - 1 /\ f[i] = f[i - 1] + Length(inode, f[i - 1])
      BY <1>4, <2>2
    <3>2. f[i] >= f[i - 1] + 1 /\ f[i] \in Nat
      BY <1>1, <3>1
    <3>3. QED
      BY <3>1, <3>2
  <2> HIDE DEF S
  <2>3. 0..9 \subseteq S
    BY <2>1, <2>2, UpTo
  <2>4. QED
    BY <2>3 DEF S
<1>11. QED
  BY <1>4, <1>8, <1>9, <1>10

\* Where the varints end.
LEMMA EndsAre ==
  ASSUME NEW numbers, \A n \in 1..9 : numbers[n] \in Nat
  PROVE  /\ Ends(numbers) \in [0..9 -> Nat]
         /\ Ends(numbers)[0] = 0
         /\ \A n \in 1..9 : Ends(numbers)[n] = Ends(numbers)[n - 1] + VarintBytes(numbers[n])
         /\ \A n \in 0..9 : Ends(numbers)[n] <= Ends(numbers)[9]
<1> DEFINE long == [i \in 1..9 |-> VarintBytes(numbers[i])]
           step == [t \in (1..9) \X Nat |-> t[2] + long[t[1]]]
           Walk(f) == f = [i \in 0..9 |-> IF i = 0 THEN 0 ELSE f[i - 1] + VarintBytes(numbers[i])]
<1>1. long \in [1..9 -> Nat]
  <2> SUFFICES ASSUME NEW i \in 1..9 PROVE VarintBytes(numbers[i]) \in Nat
    OBVIOUS
  <2>1. numbers[i] \in Nat
    OBVIOUS
  <2>2. VarintBytes(numbers[i]) \in 1..(ByteBits + 1)
    BY <2>1, VarintBytesAre
  <2>3. QED
    BY <2>2, ByteFacts
<1> HIDE DEF long
<1>2. step \in [(1..9) \X Nat -> Nat]
  BY <1>1
<1>3. PICK f \in Runs(9, Nat, 0, step) : TRUE
  <2> HIDE DEF step
  <2>1. Runs(9, Nat, 0, step) # {}
    BY <1>2, Recursion
  <2>2. QED
    BY <2>1
<1>4. f \in [0..9 -> Nat] /\ f[0] = 0 /\ \A i \in 1..9 : f[i] = f[i - 1] + long[i]
  <2>1. \A i \in 1..9 : f[i] = step[<<i, f[i - 1]>>] /\ f[i - 1] \in Nat
    BY <1>3 DEF Runs
  <2>2. QED
    BY <1>3, <2>1 DEF Runs
<1>5. Walk(f)
  BY <1>4 DEF long
<1>6. \A g : Walk(g) => g = f
  <2> SUFFICES ASSUME NEW g, Walk(g) PROVE g = f
    OBVIOUS
  <2>1. \A i \in 0..9 : g[i] = IF i = 0 THEN 0 ELSE g[i - 1] + VarintBytes(numbers[i])
    OBVIOUS
  <2> DEFINE S == {i \in 0..9 : g[i] = f[i]}
  <2>2. 0 \in S
    BY <1>4, <2>1
  <2>3. \A i \in 1..9 : i - 1 \in S => i \in S
    BY <1>4, <2>1 DEF long
  <2> HIDE DEF S
  <2>4. 0..9 \subseteq S
    BY <2>2, <2>3, UpTo
  <2>5. g = [i \in 0..9 |-> g[i]]
    OBVIOUS
  <2>6. QED
    BY <1>4, <2>4, <2>5 DEF S
<1> DEFINE at == CHOOSE g : Walk(g)
<1>7. Walk(at)
  BY <1>5
<1>8. at = f
  <2> HIDE DEF Walk, at
  <2>1. QED
    BY <1>6, <1>7
<1>9. Ends(numbers) = at
  BY DEF Ends
<1>10. \A n \in 0..9 : f[n] <= f[9]
  <2>1. \A n \in 0..8 : f[n] \in Nat /\ f[n + 1] \in Nat /\ f[n] <= f[n + 1]
    <3> SUFFICES ASSUME NEW n \in 0..8 PROVE f[n] \in Nat /\ f[n + 1] \in Nat /\ f[n] <= f[n + 1]
      OBVIOUS
    <3>1. PICK m \in 1..9 : m = n + 1 /\ m - 1 = n
      OBVIOUS
    <3>2. f[m] = f[m - 1] + long[m] /\ f[m - 1] \in Nat
      BY <1>4
    <3>3. QED
      BY <1>1, <3>1, <3>2
  <2> DEFINE S == {m \in 0..9 : f[9 - m] <= f[9]}
  <2>2. 0 \in S
    BY <1>4
  <2>3. ASSUME NEW m \in 1..9, m - 1 \in S PROVE m \in S
    <3>1. PICK n \in 0..8 : n = 9 - m /\ n + 1 = 9 - (m - 1)
      OBVIOUS
    <3>2. f[n + 1] <= f[9] /\ f[9] \in Nat
      BY <1>4, <2>3, <3>1
    <3>3. f[n] <= f[9]
      BY <2>1, <3>2
    <3>4. QED
      BY <3>1, <3>3
  <2> HIDE DEF S
  <2>4. 0..9 \subseteq S
    BY <2>2, <2>3, UpTo
  <2>5. ASSUME NEW n \in 0..9 PROVE f[n] <= f[9]
    <3>1. 9 - n \in S /\ 9 - (9 - n) = n
      BY <2>4
    <3>2. QED
      BY <3>1 DEF S
  <2>6. QED
    BY <2>5
<1>11. QED
  BY <1>4, <1>8, <1>9, <1>10 DEF long

\* The word in front of r begins, from its high end, with the number whose bytes
\* end there.
LEMMA ReadBytes ==
  ASSUME NEW inode \in PackedInode, NEW x \in Nat, NEW n \in 1..ByteBits, x < 2^(ByteBits * n),
         NEW r \in Nat, ByteBits <= r, r <= Len(inode.fields),
         \A i \in 1..n : inode.fields[r - n + i] = LittleEnd(x, n)[i]
  PROVE  LET P == 2^(ByteBits * (ByteBits - n))
         IN P * x <= WordBefore(inode, r) /\ WordBefore(inode, r) < P * (x + 1)
<1>1. ByteBits \in Nat /\ Byte \in Nat /\ Byte > 0 /\ n \in Nat
  BY ByteFacts
<1>2. PICK rest \in [0..n -> Nat] :
        /\ rest[0] = x
        /\ \A i \in 1..n : rest[i - 1] = (rest[i - 1] % Byte) + Byte * rest[i]
        /\ rest[n] = 0
        /\ LittleEnd(x, n) = [i \in 1..n |-> rest[i - 1] % Byte]
  <2>1. \E rest \in [0..n -> Nat] :
          /\ rest[0] = x
          /\ \A i \in 1..n : rest[i - 1] = (rest[i - 1] % Byte) + Byte * rest[i]
          /\ x < 2^(ByteBits * n) => rest[n] = 0
          /\ LittleEnd(x, n) = [i \in 1..n |-> rest[i - 1] % Byte]
    BY <1>1, LittleEndIs, Zenon
  <2>2. QED
    BY <2>1, Zenon
<1>3. PICK le \in [0..ByteBits -> Nat] :
        /\ le[0] = 0
        /\ \A i \in 1..ByteBits : /\ inode.fields[r - i + 1] \in 0..(Byte - 1)
                                  /\ le[i] = Byte * le[i - 1] + inode.fields[r - i + 1]
        /\ WordBefore(inode, r) = le[ByteBits]
  BY WordBeforeIs
<1> DEFINE S == {i \in 0..n : le[i] = rest[n - i]}
<1>4. 0 \in S
  BY <1>1, <1>2, <1>3
<1>5. ASSUME NEW i \in 1..n, i - 1 \in S PROVE i \in S
  <2>1. PICK j \in 1..n : j = n - i + 1
    BY <1>1
  <2>2. n - (i - 1) = j /\ n - i = j - 1 /\ r - i + 1 = r - n + j /\ i \in 1..ByteBits
    BY <1>1, <2>1
  <2>3. PICK byte \in Int : byte = inode.fields[r - i + 1]
    <3>1. inode.fields[r - i + 1] \in 0..(Byte - 1)
      BY <1>3, <2>2
    <3>2. 0..(Byte - 1) \subseteq Int
      BY <1>1
    <3>3. QED
      BY <3>1, <3>2, Zenon
  <2>4. byte = rest[j - 1] % Byte
    BY <1>2, <2>1, <2>2, <2>3
  <2>5. le[i] = Byte * rest[j] + byte
    <3>1. le[i - 1] = rest[j]
      BY <1>5, <2>2
    <3>2. QED
      BY <1>3, <2>2, <2>3, <3>1
  <2>6. rest[j - 1] = byte + Byte * rest[j]
    BY <1>2, <2>1, <2>4
  <2>7. PICK c \in Nat : c = Byte * rest[j]
    <3>1. j \in 0..n
      BY <1>1
    <3>2. rest[j] \in Nat
      BY <1>2, <3>1
    <3>3. Byte * rest[j] \in Nat
      BY <1>1, <3>2
    <3>4. QED
      BY <3>3
  <2>8. le[i] = rest[j - 1]
    <3>1. le[i] = c + byte
      BY <2>5, <2>7
    <3>2. rest[j - 1] = byte + c
      BY <2>6, <2>7
    <3>3. QED
      BY <3>1, <3>2
  <2>9. i \in 0..n
    OBVIOUS
  <2>10. QED
    BY <2>2, <2>8, <2>9
<1> HIDE DEF S
<1>6. 0..n \subseteq S
  BY <1>1, <1>4, <1>5, UpTo
<1>7. le[n] = x
  <2>1. n \in S
    BY <1>1, <1>6
  <2>2. n - n = 0
    BY <1>1
  <2>3. QED
    BY <1>2, <2>1, <2>2 DEF S
<1> DEFINE T == {i \in 0..(ByteBits - n) :
                   2^(ByteBits * i) * x <= le[n + i] /\ le[n + i] < 2^(ByteBits * i) * (x + 1)}
<1>8. 0 \in T
  <2>1. ByteBits * 0 = 0 /\ n + 0 = n /\ 0 \in 0..(ByteBits - n)
    BY <1>1
  <2>2. 1 * x <= le[n] /\ le[n] < 1 * (x + 1)
    BY <1>7
  <2>3. QED
    BY <2>1, <2>2, PowerZero
<1>9. ASSUME NEW i \in 1..(ByteBits - n), i - 1 \in T PROVE i \in T
  <2>1. PICK m \in Nat : m = ByteBits * (i - 1)
    <3>1. i - 1 \in Nat
      OBVIOUS
    <3>2. QED
      BY <1>1, <3>1
  <2>2. ByteBits * i = ByteBits + m
    BY <1>1, <2>1
  <2>3. PICK p \in Nat : p = 2^m
    BY PowerType
  <2>4. 2^(ByteBits * i) = Byte * p
    BY <1>1, <2>2, <2>3, PowerSum DEF Byte
  <2>5. n + i \in 1..ByteBits /\ n + (i - 1) \in 0..ByteBits /\ (n + i) - 1 = n + (i - 1)
    BY <1>1
  <2>6. PICK a \in Nat, byte \in 0..(Byte - 1) :
          a = le[n + (i - 1)] /\ byte = inode.fields[r - (n + i) + 1]
    BY <1>3, <2>5
  <2>7. le[n + i] = Byte * a + byte
    BY <1>3, <2>5, <2>6
  <2>8. p * x <= a /\ a < p * (x + 1)
    BY <1>9, <2>1, <2>3, <2>6
  <2>9. (Byte * p) * x <= Byte * a + byte
    <3>1. PICK d \in Nat : a = p * x + d
      <4>1. p * x \in Nat
        OBVIOUS
      <4>2. a - p * x \in Nat /\ a = p * x + (a - p * x)
        BY <2>8, <4>1
      <4>3. QED
        BY <4>2
    <3>2. Byte * a = (Byte * p) * x + Byte * d /\ Byte * d \in Nat /\ (Byte * p) * x \in Nat
      BY <1>1, <3>1
    <3>3. PICK y \in Nat, z \in Nat : y = (Byte * p) * x /\ z = Byte * d
      BY <3>2
    <3>4. Byte * a = y + z /\ byte \in Nat
      BY <1>1, <3>2, <3>3
    <3>5. y <= (y + z) + byte
      BY <3>4
    <3>6. QED
      BY <3>3, <3>4, <3>5
  <2>10. Byte * a + byte < (Byte * p) * (x + 1)
    <3>1. PICK d \in Nat : p * (x + 1) = a + 1 + d
      <4>1. p * (x + 1) \in Nat
        OBVIOUS
      <4>2. PICK t \in Nat : t = p * (x + 1)
        BY <4>1
      <4>3. t - a - 1 \in Nat /\ t = a + 1 + (t - a - 1)
        BY <2>8, <4>2
      <4>4. QED
        BY <4>2, <4>3
    <3>2. (Byte * p) * (x + 1) = Byte * (p * (x + 1))
      BY <1>1
    <3>3. Byte * (a + 1 + d) = Byte * a + Byte + Byte * d
      BY <1>1
    <3>4. PICK y \in Nat, z \in Nat : y = Byte * a /\ z = Byte * d
      <4>1. Byte * d \in Nat /\ Byte * a \in Nat
        BY <1>1
      <4>2. QED
        BY <4>1
    <3>5. (Byte * p) * (x + 1) = y + Byte + z
      BY <3>1, <3>2, <3>3, <3>4
    <3>6. y + byte < y + Byte + z
      BY <1>1
    <3>7. QED
      BY <3>4, <3>5, <3>6
  <2>11. QED
    BY <2>4, <2>7, <2>9, <2>10
<1> HIDE DEF T
<1>10. 0..(ByteBits - n) \subseteq T
  <2>1. ByteBits - n \in Nat
    BY <1>1
  <2>2. QED
    BY <1>8, <1>9, <2>1, UpTo
<1>11. ByteBits - n \in T /\ n + (ByteBits - n) = ByteBits
  BY <1>1, <1>10
<1>12. QED
  BY <1>3, <1>11 DEF T

\* A varint of a byte's bits or fewer is a number of its bytes, at the low end of
\* which there are its length in ones and a zero.
LEMMA ShortVarint ==
  ASSUME NEW v \in Nat, VarintBytes(v) <= ByteBits
  PROVE  \E f \in 1..ByteBits, x \in Nat, h \in Nat :
           /\ f = VarintBytes(v)
           /\ h = 2^(f - 1) /\ h > 0 /\ 2^f = 2 * h
           /\ x = v * (2 * h) + h - 1
           /\ x < 2^(ByteBits * f)
           /\ Varint(v) = LittleEnd(x, f)
<1>1. ByteBits \in Nat /\ ByteBits > 0
  BY ByteFacts
<1>2. PICK f \in 1..ByteBits : f = VarintBytes(v) /\ v < 2^((ByteBits - 1) * f)
  <2>1. VarintBytes(v) \in 1..(ByteBits + 1) /\ v < 2^((ByteBits - 1) * VarintBytes(v))
    BY VarintBytesAre
  <2>2. VarintBytes(v) \in 1..ByteBits
    BY <1>1, <2>1
  <2>3. QED
    BY <2>1, <2>2
<1>3. PICK g \in Nat : g = f - 1 /\ f = g + 1
  <2>1. f - 1 \in Nat /\ f = (f - 1) + 1
    OBVIOUS
  <2>2. QED
    BY <2>1
<1>4. PICK h \in Nat : h = 2^(f - 1) /\ h > 0 /\ 2^f = 2 * h
  <2>1. 2^g \in Nat /\ 2^g > 0 /\ 2^(g + 1) = 2 * 2^g
    BY <1>3, PowerType, PowerSum, PowerNext
  <2>2. QED
    BY <1>3, <2>1
<1>5. PICK x \in Nat : x = v * (2 * h) + h - 1
  <2>1. v * (2 * h) \in Nat
    BY <1>4
  <2>2. v * (2 * h) + h - 1 \in Nat
    BY <1>4, <2>1
  <2>3. QED
    BY <2>2
<1>6. x < 2^(ByteBits * f)
  <2>1. PICK c \in Nat : c = (ByteBits - 1) * f /\ ByteBits * f = c + f
    <3>1. ByteBits - 1 \in Nat /\ f \in Nat
      BY <1>1
    <3>2. (ByteBits - 1) * f \in Nat
      BY <3>1
    <3>3. ByteBits * f = (ByteBits - 1) * f + f
      BY <1>1
    <3>4. QED
      BY <3>2, <3>3
  <2>2. PICK q \in Nat : q = 2^c
    BY PowerType
  <2>3. 2^(c + f) = q * (2 * h)
    <3>1. 2^(c + f) = 2^c * 2^f
      BY PowerSum
    <3>2. QED
      BY <1>4, <2>2, <3>1
  <2>4. PICK d \in Nat : q = v + 1 + d
    <3>1. q - v - 1 \in Nat /\ q = v + 1 + (q - v - 1)
      BY <1>2, <2>1, <2>2
    <3>2. QED
      BY <3>1
  <2>5. (v + 1 + d) * (2 * h) = v * (2 * h) + 2 * h + d * (2 * h)
    BY <1>4
  <2>6. d * (2 * h) \in Nat /\ v * (2 * h) \in Nat
    BY <1>4
  <2>7. QED
    BY <1>4, <1>5, <2>1, <2>3, <2>4, <2>5, <2>6
<1>7. Varint(v) = LittleEnd(v * 2^f + 2^(f - 1) - 1, f)
  BY <1>2 DEF Varint
<1>8. QED
  BY <1>2, <1>4, <1>5, <1>6, <1>7

\* One of more bytes is a byte of ones and a word.
LEMMA LongVarint ==
  ASSUME NEW v \in Nat, ~ (VarintBytes(v) <= ByteBits)
  PROVE  /\ VarintBytes(v) = ByteBits + 1
         /\ Varint(v)[1] = Byte - 1
         /\ \A i \in 1..ByteBits : Varint(v)[i + 1] = LittleEnd(v, ByteBits)[i]
<1>1. ByteBits \in Nat /\ Byte \in Nat
  BY ByteFacts
<1>2. VarintBytes(v) = ByteBits + 1
  <2>1. VarintBytes(v) \in 1..(ByteBits + 1)
    BY VarintBytesAre
  <2>2. QED
    BY <1>1, <2>1
<1>3. PICK s \in Seq(Int) : s = LittleEnd(v, ByteBits) /\ Len(s) = ByteBits
  <2>1. PICK rest \in [0..ByteBits -> Nat] :
          LittleEnd(v, ByteBits) = [i \in 1..ByteBits |-> rest[i - 1] % Byte]
    BY <1>1, LittleEndIs
  <2>2. \A i \in 1..ByteBits : rest[i - 1] % Byte \in Int
    <3> SUFFICES ASSUME NEW i \in 1..ByteBits PROVE rest[i - 1] % Byte \in Int
      OBVIOUS
    <3>1. rest[i - 1] \in Nat
      BY <1>1
    <3>2. QED
      BY <3>1, ByteFacts
  <2>3. LittleEnd(v, ByteBits) \in [1..ByteBits -> Int]
    BY <2>1, <2>2
  <2>4. LittleEnd(v, ByteBits) \in Seq(Int) /\ Len(LittleEnd(v, ByteBits)) = ByteBits
    BY <1>1, <2>3, SeqDef, LenProperties
  <2>5. QED
    BY <2>4
<1>4. Varint(v) = <<Byte - 1>> \o s
  BY <1>2, <1>3 DEF Varint
<1>5. (<<Byte - 1>> \o s)[1] = Byte - 1 /\ \A i \in 1..ByteBits : (<<Byte - 1>> \o s)[i + 1] = s[i]
  <2>1. <<Byte - 1>> \in Seq(Int) /\ Len(<<Byte - 1>>) = 1 /\ <<Byte - 1>>[1] = Byte - 1
    BY <1>1
  <2>2. QED
    BY <1>1, <1>3, <2>1, ConcatProperties
<1>6. QED
  BY <1>2, <1>3, <1>4, <1>5

\* A word that begins with a number, shifted to the number's high part.
LEMMA ShiftedWord ==
  ASSUME NEW p \in Nat, p > 0, NEW h \in Nat, h > 0, NEW v \in Nat, NEW w \in Nat, NEW x \in Nat,
         x = v * (2 * h) + h - 1, p * x <= w, w < p * (x + 1)
  PROVE  w \div (p * (2 * h)) = v
<1>1. PICK a \in Nat, u \in Nat : a = p * h /\ u = a * v
  <2>1. p * h \in Nat
    OBVIOUS
  <2>2. (p * h) * v \in Nat
    BY <2>1
  <2>3. QED
    BY <2>1, <2>2
<1>2. a > 0
  BY <1>1
<1>3. p * (x + 1) = 2 * u + a
  <2>1. x + 1 = v * (2 * h) + h
    BY SMT
  <2>2. p * (v * (2 * h) + h) = 2 * ((p * h) * v) + p * h
    OBVIOUS
  <2>3. QED
    BY <1>1, <2>1, <2>2
<1>4. p * x = 2 * u + a - p
  <2>1. p * (x + 1) = p * x + p
    OBVIOUS
  <2>2. PICK b \in Nat : b = p * x
    OBVIOUS
  <2>3. QED
    BY <1>3, <2>1, <2>2
<1>5. a >= p
  <2>1. PICK c \in Nat : h = c + 1
    <3>1. h - 1 \in Nat /\ h = (h - 1) + 1
      OBVIOUS
    <3>2. QED
      BY <3>1
  <2>2. p * (c + 1) = p * c + p /\ p * c \in Nat
    BY <2>1
  <2>3. QED
    BY <1>1, <2>1, <2>2
<1>6. PICK d \in Nat : d = p * (2 * h) /\ d = 2 * a
  <2>1. p * (2 * h) = 2 * (p * h)
    OBVIOUS
  <2>2. QED
    BY <1>1, <2>1
<1>7. d * v = 2 * u
  BY <1>1, <1>6
<1>8. d * (v + 1) = 2 * u + 2 * a
  <2>1. d * (v + 1) = d * v + d
    BY <1>6
  <2>2. QED
    BY <1>6, <1>7, <2>1
<1>9. d * v <= w
  BY <1>1, <1>4, <1>5, <1>7
<1>10. w < d * (v + 1)
  BY <1>1, <1>3, <1>8
<1>11. w \div d = v
  BY <1>2, <1>6, <1>9, <1>10, QuotientIs
<1>12. QED
  BY <1>6, <1>11

\* The word in front of a varint's end, shifted, is its value.
LEMMA VarintRead ==
  ASSUME NEW inode \in PackedInode, NEW v \in Nat, v < 2^(ByteBits * ByteBits),
         NEW e \in Nat, NEW r \in Nat, r = e + VarintBytes(v),
         ByteBits <= r, r <= Len(inode.fields),
         \A i \in 1..VarintBytes(v) : inode.fields[e + i] = Varint(v)[i]
  PROVE  WordBefore(inode, r) \div 2^Shift(VarintBytes(v)) = v
<1>1. ByteBits \in Nat /\ ByteBits > 0
  BY ByteFacts
<1>2. PICK w \in Nat : w = WordBefore(inode, r)
  <2>1. PICK le \in [0..ByteBits -> Nat] : WordBefore(inode, r) = le[ByteBits]
    BY WordBeforeIs
  <2>2. le[ByteBits] \in Nat
    BY <1>1
  <2>3. QED
    BY <2>1, <2>2
<1>3. CASE VarintBytes(v) <= ByteBits
  <2>1. PICK f \in 1..ByteBits, x \in Nat, h \in Nat :
          /\ f = VarintBytes(v)
          /\ h = 2^(f - 1) /\ h > 0 /\ 2^f = 2 * h
          /\ x = v * (2 * h) + h - 1
          /\ x < 2^(ByteBits * f)
          /\ Varint(v) = LittleEnd(x, f)
    BY <1>3, ShortVarint
  <2>2. \A i \in 1..f : inode.fields[r - f + i] = LittleEnd(x, f)[i]
    <3>1. PICK n \in Nat : n = f /\ r = e + n
      BY <2>1
    <3>2. r - n = e
      BY <3>1
    <3>3. QED
      BY <2>1, <3>1, <3>2
  <2>3. PICK m \in Nat : m = ByteBits * (ByteBits - f)
    <3>1. ByteBits - f \in Nat
      BY <1>1
    <3>2. QED
      BY <1>1, <3>1
  <2>4. PICK p \in Nat : p = 2^m /\ p > 0
    BY PowerType, PowerSum
  <2>5. p * x <= w /\ w < p * (x + 1)
    BY <1>2, <2>1, <2>2, <2>3, <2>4, ReadBytes
  <2>6. Shift(f) = m + f
    <3>1. f # ByteBits + 1
      BY <1>1
    <3>2. Shift(f) = ByteBits * ByteBits - (ByteBits - 1) * f
      BY <3>1 DEF Shift
    <3>3. ByteBits * (ByteBits - f) = ByteBits * ByteBits - ByteBits * f
      BY <1>1
    <3>4. (ByteBits - 1) * f = ByteBits * f - f
      BY <1>1
    <3>5. PICK y \in Nat, z \in Nat : y = ByteBits * ByteBits /\ z = ByteBits * f
      BY <1>1
    <3>6. QED
      BY <2>3, <3>2, <3>3, <3>4, <3>5
  <2>7. w \div (p * (2 * h)) = v
    BY <2>1, <2>4, <2>5, ShiftedWord
  <2>8. 2^Shift(f) = p * (2 * h)
    <3>1. f \in Nat
      BY <1>1
    <3>2. 2^(m + f) = 2^m * 2^f
      BY <3>1, PowerSum
    <3>3. QED
      BY <2>1, <2>4, <2>6, <3>2
  <2>9. QED
    BY <1>2, <2>1, <2>7, <2>8
<1>4. CASE ~ (VarintBytes(v) <= ByteBits)
  <2>1. VarintBytes(v) = ByteBits + 1 /\ \A i \in 1..ByteBits : Varint(v)[i + 1] = LittleEnd(v, ByteBits)[i]
    BY <1>4, LongVarint
  <2>2. \A i \in 1..ByteBits : inode.fields[r - ByteBits + i] = LittleEnd(v, ByteBits)[i]
    <3> SUFFICES ASSUME NEW i \in 1..ByteBits
                 PROVE  inode.fields[r - ByteBits + i] = LittleEnd(v, ByteBits)[i]
      OBVIOUS
    <3>1. PICK j \in 1..VarintBytes(v) : j = i + 1 /\ e + j = r - ByteBits + i
      BY <1>1, <2>1
    <3>2. QED
      BY <2>1, <3>1
  <2>3. ByteBits * (ByteBits - ByteBits) = 0 /\ ByteBits \in 1..ByteBits
    BY <1>1
  <2>4. 1 * v <= w /\ w < 1 * (v + 1)
    BY <1>2, <2>2, <2>3, PowerZero, ReadBytes
  <2>5. w \div 1 = v
    BY <2>4, QuotientIs
  <2>6. Shift(VarintBytes(v)) = 0
    BY <2>1 DEF Shift
  <2>7. QED
    BY <1>2, <2>5, <2>6, PowerZero
<1>5. QED
  BY <1>3, <1>4

\* The first byte of a varint that has no more bytes than a byte has bits: one more
\* is an odd number of the bit that tells the length.
LEMMA FirstByte ==
  ASSUME NEW v \in Nat, VarintBytes(v) <= ByteBits
  PROVE  \E f \in 1..ByteBits, h \in Nat, k \in Nat :
           /\ f = VarintBytes(v)
           /\ h = 2^(f - 1) /\ h > 0 /\ 2^f = 2 * h
           /\ Varint(v)[1] + 1 = h + (2 * h) * k
<1>1. ByteBits \in Nat /\ Byte \in Nat /\ Byte > 0 /\ Byte = 2^ByteBits
  BY ByteFacts
<1>2. PICK f \in 1..ByteBits, x \in Nat, h \in Nat :
        /\ f = VarintBytes(v)
        /\ h = 2^(f - 1) /\ h > 0 /\ 2^f = 2 * h
        /\ x = v * (2 * h) + h - 1
        /\ Varint(v) = LittleEnd(x, f)
  BY ShortVarint
<1>3. f \in Nat /\ ByteBits - f \in Nat /\ f + (ByteBits - f) = ByteBits
  BY <1>1
<1>4. PICK y \in Nat : y = (x % Byte) + 1 /\ y > 0
  BY <1>1, Division
<1>5. Varint(v)[1] + 1 = y
  <2>1. PICK rest \in [0..f -> Nat] :
          /\ rest[0] = x
          /\ \A i \in 1..f : rest[i - 1] = (rest[i - 1] % Byte) + Byte * rest[i]
          /\ x < 2^(ByteBits * f) => rest[f] = 0
          /\ LittleEnd(x, f) = [i \in 1..f |-> rest[i - 1] % Byte]
    BY <1>3, LittleEndIs
  <2>2. LittleEnd(x, f)[1] = rest[1 - 1] % Byte
    BY <2>1
  <2>3. QED
    BY <1>2, <1>4, <2>1, <2>2
<1>6. PICK g \in Nat : Byte = (2 * h) * g
  <2>1. 2^(f + (ByteBits - f)) = 2^f * 2^(ByteBits - f) /\ 2^(ByteBits - f) \in Nat
    BY <1>3, PowerSum, PowerType
  <2>2. QED
    BY <1>1, <1>2, <1>3, <2>1
<1>7. PICK q \in Nat : x = (y - 1) + Byte * q
  <2>1. x \div Byte \in Nat /\ x = (x % Byte) + Byte * (x \div Byte)
    BY <1>1, Division
  <2>2. x % Byte = y - 1
    <3>1. x % Byte \in Nat
      BY <1>1, Division
    <3>2. QED
      BY <1>4, <3>1
  <2>3. QED
    BY <2>1, <2>2
<1>8. v * (2 * h) + h - 1 = (y - 1) + ((2 * h) * g) * q
  BY <1>2, <1>6, <1>7
<1>9. \E k \in Nat : y = h + (2 * h) * k
  <2>1. PICK c \in Nat : c = g * q
    OBVIOUS
  <2>2. ((2 * h) * g) * q = (2 * h) * c
    <3>1. ((2 * h) * g) * q = (2 * h) * (g * q)
      OBVIOUS
    <3>2. QED
      BY <2>1, <3>1
  <2>3. PICK a \in Nat, b \in Nat : a = v * (2 * h) /\ b = (2 * h) * c
    <3>1. v * (2 * h) \in Nat /\ (2 * h) * c \in Nat
      OBVIOUS
    <3>2. QED
      BY <3>1
  <2>4. y + b = a + h
    <3>1. a + h - 1 = (y - 1) + b
      BY <1>8, <2>2, <2>3
    <3>2. QED
      BY <3>1
  <2>5. ~ (v < c)
    <3> SUFFICES ASSUME v < c PROVE FALSE
      OBVIOUS
    <3>1. PICK e \in Nat : c = v + 1 + e
      <4>1. c - v - 1 \in Nat /\ c = v + 1 + (c - v - 1)
        OBVIOUS
      <4>2. QED
        BY <4>1
    <3>2. (2 * h) * (v + 1 + e) = v * (2 * h) + 2 * h + (2 * h) * e
      OBVIOUS
    <3>3. PICK u \in Nat : u = (2 * h) * e
      <4>1. (2 * h) * e \in Nat
        OBVIOUS
      <4>2. QED
        BY <4>1
    <3>4. b = a + 2 * h + u
      BY <2>3, <3>1, <3>2, <3>3
    <3>5. QED
      BY <1>4, <2>4, <3>4
  <2>6. PICK k \in Nat : v = c + k
    <3>1. v - c \in Nat /\ v = c + (v - c)
      BY <2>5
    <3>2. QED
      BY <3>1
  <2>7. a = b + (2 * h) * k
    <3>1. (c + k) * (2 * h) = (2 * h) * c + (2 * h) * k
      OBVIOUS
    <3>2. QED
      BY <2>3, <2>6, <3>1
  <2>8. PICK m \in Nat : m = (2 * h) * k
    <3>1. (2 * h) * k \in Nat
      OBVIOUS
    <3>2. QED
      BY <3>1
  <2>9. y = h + m
    BY <2>4, <2>7, <2>8
  <2>10. QED
    BY <2>8, <2>9
<1>10. QED
  BY <1>2, <1>5, <1>9

\* An odd number of a bit ends in as many zeros.
LEMMA OddMultiple ==
  ASSUME NEW f \in 1..ByteBits, NEW h \in Nat, NEW k \in Nat, NEW y \in Nat,
         h = 2^(f - 1), h > 0, 2^f = 2 * h, y = h + (2 * h) * k
  PROVE  TrailingZeros(y) = f - 1
<1>1. ByteBits \in Nat /\ f \in Nat /\ f - 1 \in Nat
  BY ByteFacts
<1>2. PICK t \in 0..ByteBits : t = TrailingZeros(y) /\ y % 2^t = 0
                               /\ (t = ByteBits \/ y % 2^(t + 1) # 0)
  BY TrailingZerosAre
<1>3. y % 2^f = h
  <2>1. PICK d \in Nat : d = 2 * h /\ d > 0 /\ h < d
    OBVIOUS
  <2>2. y = h + d * k
    BY <2>1
  <2>3. (h + d * k) % d = h
    BY <2>1, RemainderIs
  <2>4. QED
    BY <2>1, <2>2, <2>3
<1>4. ASSUME NEW m \in Nat, m <= f - 1 PROVE y % 2^m = 0
  <2>1. PICK j \in Nat : j = 1 + 2 * k
    OBVIOUS
  <2>2. y = 2^(f - 1) * j
    <3>1. h * (1 + 2 * k) = h + (2 * h) * k
      OBVIOUS
    <3>2. QED
      BY <2>1, <3>1
  <2>3. (2^(f - 1) * j) % 2^m = 0
    BY <1>1, <1>4, PowerDivides
  <2>4. QED
    BY <2>2, <2>3
<1>5. ~ (t < f - 1)
  <2> SUFFICES ASSUME t < f - 1 PROVE FALSE
    OBVIOUS
  <2>1. t + 1 \in Nat /\ t + 1 <= f - 1 /\ t # ByteBits
    BY <1>1
  <2>2. y % 2^(t + 1) = 0
    BY <1>4, <2>1
  <2>3. QED
    BY <1>2, <2>1, <2>2
<1>6. ~ (t >= f)
  <2> SUFFICES ASSUME t >= f PROVE FALSE
    OBVIOUS
  <2>1. t \in Nat /\ f <= t /\ 2^t \in Nat /\ 2^t > 0
    <3>1. t \in Nat
      BY <1>1
    <3>2. QED
      BY <1>1, <3>1, PowerType, PowerSum
  <2>2. PICK j \in Nat : j = y \div 2^t /\ y = 2^t * j
    <3>1. y \div 2^t \in Nat /\ y = (y % 2^t) + 2^t * (y \div 2^t)
      BY <2>1, Division
    <3>2. PICK j \in Nat : j = y \div 2^t
      BY <3>1
    <3>3. 2^t * j \in Nat
      BY <2>1
    <3>4. QED
      BY <1>2, <3>1, <3>2, <3>3
  <2>3. (2^t * j) % 2^f = 0
    BY <1>1, <2>1, PowerDivides
  <2>4. QED
    BY <1>3, <2>2, <2>3
<1>7. QED
  BY <1>1, <1>2, <1>5, <1>6

\* A varint's first byte tells its length.
LEMMA LengthRead ==
  ASSUME NEW inode \in PackedInode, NEW v \in Nat, NEW e \in Nat, e < Len(inode.fields),
         inode.fields[e + 1] = Varint(v)[1]
  PROVE  Length(inode, e) = VarintBytes(v)
<1>1. ByteBits \in Nat /\ ByteBits > 0 /\ Byte \in Nat /\ Byte > 0 /\ Byte = 2^ByteBits
  BY ByteFacts
<1>2. PICK y \in Nat : y = Varint(v)[1] + 1 /\ y > 0
  <2>1. e + 1 \in 1..Len(inode.fields) /\ inode.fields \in Seq(0..(Byte - 1))
    BY DEF PackedInode
  <2>2. inode.fields[e + 1] \in 0..(Byte - 1)
    BY <2>1, ElementOfSeq
  <2>3. inode.fields[e + 1] \in Nat
    BY <1>1, <2>2
  <2>4. QED
    BY <2>3
<1>3. PICK t \in 0..ByteBits : t = TrailingZeros(y) /\ y % 2^t = 0
                               /\ (t = ByteBits \/ y % 2^(t + 1) # 0)
  BY TrailingZerosAre
<1>4. Length(inode, e) = t + 1
  BY <1>2, <1>3 DEF Length
<1>5. CASE VarintBytes(v) <= ByteBits
  <2>1. PICK f \in 1..ByteBits, h \in Nat, k \in Nat :
          /\ f = VarintBytes(v)
          /\ h = 2^(f - 1) /\ h > 0 /\ 2^f = 2 * h
          /\ y = h + (2 * h) * k
    <3>1. \E f \in 1..ByteBits, h \in Nat, k \in Nat :
            /\ f = VarintBytes(v)
            /\ h = 2^(f - 1) /\ h > 0 /\ 2^f = 2 * h
            /\ Varint(v)[1] + 1 = h + (2 * h) * k
      BY <1>5, FirstByte
    <3>2. QED
      BY <1>2, <3>1, Zenon
  <2>2. TrailingZeros(y) = f - 1
    BY <2>1, OddMultiple
  <2>3. QED
    BY <1>1, <1>3, <1>4, <2>1, <2>2
<1>6. CASE ~ (VarintBytes(v) <= ByteBits)
  <2>1. VarintBytes(v) = ByteBits + 1 /\ Varint(v)[1] = Byte - 1
    BY <1>6, LongVarint
  <2>2. y = 2^ByteBits * 1
    BY <1>1, <1>2, <2>1
  <2>3. t = ByteBits
    <3> SUFFICES ASSUME t # ByteBits PROVE FALSE
      OBVIOUS
    <3>1. t + 1 \in Nat /\ t + 1 <= ByteBits
      BY <1>1, <1>3
    <3>2. (2^ByteBits * 1) % 2^(t + 1) = 0
      BY <1>1, <3>1, PowerDivides
    <3>3. QED
      BY <1>3, <2>2, <3>1, <3>2
  <2>4. QED
    BY <1>4, <2>1, <2>3
<1>7. QED
  BY <1>5, <1>6

\* A size is a number.
LEMMA SizeType ==
  ASSUME NEW inode \in PackedInode
  PROVE  UnpackSize(inode) \in Nat
<1> DEFINE r == Scan(inode)
<1>1. CASE Scanned(inode) /\ \A n \in 1..9 : r[n] <= Len(inode.fields)
  <2>1. r \in [0..9 -> Nat] /\ r[9] = r[9 - 1] + Length(inode, r[9 - 1]) /\ r[9] >= 9
    BY ScanIs
  <2>2. PICK e \in Nat, f \in 1..(ByteBits + 1) : e = r[8] /\ r[9] = e + f
    <3>1. r[8] \in Nat /\ 9 - 1 = 8
      BY <2>1
    <3>2. Length(inode, r[8]) \in 1..(ByteBits + 1)
      BY <3>1, LengthIs
    <3>3. QED
      BY <2>1, <3>1, <3>2
  <2>3. PICK w \in Nat : w = WordBefore(inode, r[9])
    <3>1. ByteBits <= r[9] /\ r[9] <= Len(inode.fields) /\ r[9] \in Nat
      <4>1. r[9] <= Len(inode.fields)
        BY <1>1
      <4>2. r[9] = e + f /\ r[9] >= 9
        BY <2>1, <2>2
      <4> HIDE DEF r
      <4>3. ByteBits <= e + f /\ e + f \in Nat
        BY <4>2, ByteFacts
      <4>4. QED
        BY <4>1, <4>2, <4>3
    <3>2. PICK le \in [0..ByteBits -> Nat] : WordBefore(inode, r[9]) = le[ByteBits]
      BY <3>1, WordBeforeIs
    <3>3. le[ByteBits] \in Nat
      BY ByteFacts
    <3>4. QED
      BY <3>2, <3>3
  <2>4. Shift(f) \in Nat
    <3>1. CASE f = ByteBits + 1
      BY <3>1 DEF Shift
    <3>2. CASE f # ByteBits + 1
      <4>1. PICK d \in Nat : ByteBits = f + d
        <5>1. ByteBits - f \in Nat /\ ByteBits = f + (ByteBits - f)
          BY <3>2, ByteFacts
        <5>2. QED
          BY <5>1
      <4>2. (f + d) * (f + d) - ((f + d) - 1) * f = (f + d) * d + f
        BY <4>1
      <4>3. (f + d) * d \in Nat
        BY <4>1
      <4>4. QED
        BY <3>2, <4>1, <4>2, <4>3 DEF Shift
    <3>3. QED
      BY <3>1, <3>2
  <2>5. w \div 2^Shift(f) \in Nat
    <3>1. 2^Shift(f) \in Nat /\ 2^Shift(f) > 0
      BY <2>4, PowerType, PowerSum
    <3>2. QED
      BY <3>1, Division
  <2>6. r[9] - r[8] = f
    BY <2>2
  <2>7. QED
    BY <1>1, <2>3, <2>5, <2>6 DEF UnpackSize
<1>2. CASE ~ (Scanned(inode) /\ \A n \in 1..9 : r[n] <= Len(inode.fields))
  BY <1>2 DEF UnpackSize
<1>3. QED
  BY <1>1, <1>2

\* The size that is unpacked is the one that was written.
LEMMA SizeIs ==
  ASSUME NEW inode \in PackedInode, inode.new_varint,
         NEW numbers \in Seq(Nat), IsEncoded(inode, numbers)
  PROVE  UnpackSize(inode) = numbers[9]
<1> DEFINE r == Scan(inode)
           e == Ends(numbers)
<1>1. Len(numbers) = 9 /\ \A n \in 1..9 : numbers[n] \in Nat /\ numbers[n] < 2^(ByteBits * ByteBits)
  <2>1. Len(numbers) = 9 /\ \A n \in 1..9 : numbers[n] < 2^(ByteBits * ByteBits)
    BY DEF IsEncoded
  <2>2. \A n \in 1..9 : numbers[n] \in Nat
    BY <2>1, ElementOfSeq
  <2>3. QED
    BY <2>1, <2>2
<1>2. /\ e \in [0..9 -> Nat] /\ e[0] = 0
      /\ \A n \in 1..9 : e[n] = e[n - 1] + VarintBytes(numbers[n])
      /\ \A n \in 0..9 : e[n] <= e[9]
  BY <1>1, EndsAre
<1>3. e[9] <= Len(inode.fields) /\ Len(inode.fields) \in Nat
  BY DEF IsEncoded, PackedInode
<1>4. /\ r \in [0..9 -> Nat] /\ r[0] = 0
      /\ \A n \in 1..9 : r[n] = r[n - 1] + Length(inode, r[n - 1])
      /\ r[9] >= 9
  BY ScanIs
<1>5. ASSUME NEW n \in 1..9, NEW i \in 1..VarintBytes(numbers[n])
      PROVE  inode.fields[e[n - 1] + i] = Varint(numbers[n])[i]
  BY DEF IsEncoded
<1> DEFINE S == {n \in 0..9 : r[n] = e[n]}
<1>6. 0 \in S
  BY <1>2, <1>4
<1>7. ASSUME NEW n \in 1..9, n - 1 \in S PROVE n \in S
  <2>1. PICK f \in 1..(ByteBits + 1) : f = VarintBytes(numbers[n])
    BY <1>1, VarintBytesAre
  <2>2. PICK d \in Nat : d = e[n - 1] /\ d = r[n - 1] /\ e[n] = d + f
    <3>1. n - 1 \in 0..9
      OBVIOUS
    <3>2. e[n - 1] \in Nat /\ e[n - 1] = r[n - 1]
      BY <1>2, <1>7, <3>1
    <3>3. QED
      BY <1>2, <2>1, <3>2
  <2>3. d < Len(inode.fields)
    <3>1. e[n] <= e[9] /\ e[9] \in Nat
      <4>1. n \in 0..9 /\ 9 \in 0..9
        OBVIOUS
      <4> HIDE DEF e
      <4>2. QED
        BY <1>2, <4>1
    <3>2. QED
      BY <1>3, <2>2, <3>1
  <2>4. inode.fields[d + 1] = Varint(numbers[n])[1]
    <3>1. 1 \in 1..VarintBytes(numbers[n])
      BY <2>1, ByteFacts
    <3>2. QED
      BY <1>5, <2>2, <3>1
  <2>5. Length(inode, d) = VarintBytes(numbers[n])
    BY <1>1, <2>3, <2>4, LengthRead
  <2>6. r[n] = d + f
    BY <1>4, <2>1, <2>2, <2>5
  <2>7. QED
    BY <2>2, <2>6
<1> HIDE DEF S
<1>8. 0..9 \subseteq S
  BY <1>6, <1>7, UpTo
<1>9. \A n \in 0..9 : r[n] = e[n]
  BY <1>8 DEF S
<1>10. \A n \in 1..9 : r[n] <= Len(inode.fields)
  <2> SUFFICES ASSUME NEW n \in 1..9 PROVE r[n] <= Len(inode.fields)
    OBVIOUS
  <2>1. r[n] = e[n] /\ e[n] <= e[9] /\ e[n] \in Nat /\ e[9] \in Nat
    <3>1. n \in 0..9 /\ 9 \in 0..9
      OBVIOUS
    <3> HIDE DEF e, r
    <3>2. QED
      BY <1>2, <1>9, <3>1
  <2>2. QED
    BY <1>3, <2>1
<1>11. CASE inode.nr_fields >= 5
  <2>1. Scanned(inode)
    BY <1>11 DEF Scanned, IsEncoded
  <2>2. PICK d \in Nat, v \in Nat, f \in 1..(ByteBits + 1) :
          d = r[8] /\ v = numbers[9] /\ f = VarintBytes(v) /\ r[9] = d + f /\ r[9] - r[8] = f
    <3>1. numbers[9] \in Nat /\ VarintBytes(numbers[9]) \in 1..(ByteBits + 1)
      <4>1. numbers[9] \in Nat
        BY <1>1
      <4>2. QED
        BY <4>1, VarintBytesAre
    <3>2. e[8] \in Nat /\ e[9] = e[9 - 1] + VarintBytes(numbers[9]) /\ 9 - 1 = 8
      BY <1>2
    <3>3. r[8] = e[8] /\ r[9] = e[9]
      BY <1>9
    <3>4. (e[8] + VarintBytes(numbers[9])) - e[8] = VarintBytes(numbers[9])
      BY <3>1, <3>2
    <3>5. QED
      BY <3>1, <3>2, <3>3, <3>4
  <2>3. UnpackSize(inode) = WordBefore(inode, r[9]) \div 2^Shift(f)
    BY <1>10, <2>1, <2>2 DEF UnpackSize
  <2>4. \A i \in 1..VarintBytes(v) : inode.fields[d + i] = Varint(v)[i]
    <3>1. d = e[9 - 1]
      BY <1>9, <2>2
    <3>2. QED
      BY <1>5, <2>2, <3>1
  <2>5. v < 2^(ByteBits * ByteBits)
    BY <1>1, <2>2
  <2>6. ByteBits <= r[9] /\ r[9] \in Nat /\ r[9] <= Len(inode.fields)
    <3>1. r[9] = d + f /\ r[9] >= 9
      BY <1>4, <2>2
    <3>2. r[9] <= Len(inode.fields)
      BY <1>10
    <3> HIDE DEF r
    <3>3. ByteBits <= d + f /\ d + f \in Nat
      BY <3>1, ByteFacts
    <3>4. QED
      BY <3>1, <3>2, <3>3
  <2>7. r[9] = d + VarintBytes(v)
    BY <2>2
  <2> HIDE DEF r
  <2>8. WordBefore(inode, r[9]) \div 2^Shift(VarintBytes(v)) = v
    BY <2>4, <2>5, <2>6, <2>7, VarintRead
  <2>9. QED
    BY <2>2, <2>3, <2>8
<1>12. CASE ~ (inode.nr_fields >= 5)
  <2>1. ~ Scanned(inode)
    BY <1>12 DEF Scanned
  <2>2. numbers[9] = 0
    <3>1. inode.nr_fields \in Nat
      BY DEF PackedInode
    <3>2. inode.nr_fields < 5
      BY <1>12, <3>1
    <3>3. QED
      BY <3>2 DEF IsEncoded
  <2>3. QED
    BY <2>1, <2>2 DEF UnpackSize
<1>13. QED
  BY <1>11, <1>12

-----------------------------------------------------------------------------
(* Records *)

\* The current key is one.
LEMMA KeyIs ==
  ASSUME Inv
  PROVE  /\ IsNode(node) /\ node.format \in Format /\ node.start \in Nat
         /\ IsKey(key, node.format)
<1>1. IsNode(node)
  BY NodesAssumption DEF Inv
<1>2. QED
  BY <1>1 DEF Inv, IsNode, key

\* What its fields unpack to are numbers.
LEMMA BkeyType ==
  ASSUME Inv
  PROVE  bkey \in [Field -> Nat]
<1> DEFINE buffer == ParseBuffer(key, node.format, 6)
<1>1. node.format \in Format /\ IsKey(key, node.format)
  BY KeyIs
<1>2. ASSUME NEW i \in Field PROVE buffer[i] \in Nat
  <2>1. ~ (i > 6) /\ node.format.offset[i] \in Nat /\ key.fields[i] \in Nat
    BY <1>1 DEF Field, Format, IsKey
  <2>2. buffer[i] = IF key.format # "local" THEN key.fields[i]
                    ELSE IF node.format.bits[i] = 0 THEN node.format.offset[i]
                    ELSE (node.format.offset[i] + Raw(key, node.format, i)) % Word64
    BY <2>1 DEF ParseBuffer
  <2>3. ASSUME key.format = "local"
        PROVE  (node.format.offset[i] + Raw(key, node.format, i)) % Word64 \in Nat
    <3>1. PICK n \in Nat : n = node.format.offset[i] + Raw(key, node.format, i)
      <4>1. Raw(key, node.format, i) \in Nat
        BY <1>1, <2>3 DEF IsKey
      <4>2. node.format.offset[i] + Raw(key, node.format, i) \in Nat
        BY <2>1, <4>1
      <4>3. QED
        BY <4>2
    <3>2. n % Word64 \in Nat
      BY Widths, Division
    <3>3. QED
      BY <3>1, <3>2
  <2>4. QED
    BY <2>1, <2>2, <2>3
<1> HIDE DEF buffer
<1>3. CASE key.format # "local"
  BY <1>1, <1>3 DEF bkey, ParseBkey, IsKey
<1>4. CASE key.format = "local"
  <2>1. bkey = [i \in Field |-> IF i \in {Snapshot, Size, VersionHi} THEN buffer[i] % Word32
                                ELSE buffer[i]]
    BY <1>4 DEF bkey, ParseBkey, buffer
  <2>2. \A i \in Field : buffer[i] % Word32 \in Nat
    BY <1>2, Widths, Division
  <2>3. QED
    BY <1>2, <2>1, <2>2
<1>5. QED
  BY <1>3, <1>4

\* Values begin behind the key proper, and end with the key.
LEMMA ValueIs ==
  ASSUME Inv
  PROVE  \E w \in Nat, at \in Nat, u \in Nat :
           /\ at = key.at /\ u = key.u64s /\ u = KeyU64s(key, node.format) + w
           /\ FirstVal \in Nat /\ FirstVal = at + (u - w) * 8
           /\ KeyEnd = FirstVal + w * 8
           /\ InlineSize = w * 8
<1>1. IsKey(key, node.format) /\ node.format \in Format
  BY KeyIs
<1>2. PICK k \in Nat : k = KeyU64s(key, node.format)
  BY <1>1 DEF KeyU64s, BKEY_U64s, Format
<1>3. PICK u \in Nat, at \in Nat : u = key.u64s /\ at = key.at /\ u >= k
  BY <1>1, <1>2 DEF IsKey
<1>4. PICK w \in Nat : u = k + w
  <2>1. u - k \in Nat /\ u = k + (u - k)
    BY <1>3
  <2>2. QED
    BY <2>1
<1>5. FirstVal = at + k * 8
  BY <1>2, <1>3 DEF FirstVal
<1>6. KeyEnd = at + u * 8
  BY <1>3 DEF KeyEnd
<1>7. InlineSize = u * 8 - ((at + k * 8) - at)
  BY <1>3, <1>5 DEF InlineSize
<1>8. u - w = k /\ at + u * 8 = (at + k * 8) + w * 8 /\ at + k * 8 \in Nat
      /\ u * 8 - ((at + k * 8) - at) = w * 8
  BY <1>4
<1>9. /\ at = key.at /\ u = key.u64s /\ u = KeyU64s(key, node.format) + w
      /\ FirstVal \in Nat /\ FirstVal = at + (u - w) * 8
      /\ KeyEnd = FirstVal + w * 8
      /\ InlineSize = w * 8
  BY <1>2, <1>3, <1>4, <1>5, <1>6, <1>7, <1>8
<1>10. QED
  BY <1>9

\* A number of sectors has bytes.
LEMMA SectorBytes ==
  ASSUME NEW n \in Nat
  PROVE  n * SectorSize \in Nat /\ ExtentOffset(n) = n * SectorSize /\ ExtentOffset(n) \in Nat
<1>1. SectorSize \in Nat
  BY SectorAssumption
<1>2. QED
  BY <1>1 DEF ExtentOffset

\* Inline data ends where its key does.
LEMMA InlineIs ==
  ASSUME Inv
  PROVE  /\ InlineOffset \in Nat /\ InlineSize \in Nat
         /\ InlineOffset + InlineSize = ExtentOffset(node.start) + KeyEnd
<1>1. PICK w \in Nat, at \in Nat, u \in Nat :
        /\ FirstVal \in Nat /\ FirstVal = at + (u - w) * 8
        /\ KeyEnd = FirstVal + w * 8
        /\ InlineSize = w * 8
  BY ValueIs
<1>2. PICK s \in Nat : s = ExtentOffset(node.start)
  BY KeyIs, SectorBytes
<1>3. InlineOffset = FirstVal + s
  BY <1>2 DEF InlineOffset
<1>4. QED
  BY <1>1, <1>2, <1>3

\* Records have their types.
LEMMA RecordTypes ==
  ASSUME Inv
  PROVE  Extent \in ExtentRecord /\ InodeOf \in InodeRecord /\ Dirent \in DirentRecord
<1>1. IsKey(key, node.format)
  BY KeyIs
<1>2. key.value \in Value(key.type)
  BY <1>1 DEF IsKey
<1>3. bkey[Inode] \in Nat /\ bkey[Offset] \in Nat /\ bkey[Size] \in Nat
  BY BkeyType DEF Field, Inode, Offset, Size
<1>4. Extent \in ExtentRecord
  <2>1. FileOffset \in Nat /\ RegularSize \in Nat
    <3>1. PICK n \in Int : n = (bkey[Offset] - bkey[Size]) * SectorSize
      BY <1>3, SectorAssumption
    <3>2. n % Word64 \in Nat
      BY Widths
    <3>3. PICK m \in Nat : m = bkey[Size] * SectorSize
      BY <1>3, SectorBytes
    <3>4. m % Word32 \in Nat
      BY Widths, Division
    <3>5. QED
      BY <3>1, <3>2, <3>3, <3>4 DEF FileOffset, RegularSize
  <2>2. CASE key.type = "extent"
    <3>1. key.value.offset \in Nat
      BY <1>2, <2>2 DEF Value, ExtentPtr
    <3>2. ExtentOffset(key.value.offset) \in Nat
      BY <3>1, SectorBytes
    <3>3. Extent = [kind |-> "extent", inode |-> bkey[Inode], file_offset |-> FileOffset,
                    offset |-> ExtentOffset(key.value.offset), size |-> RegularSize]
      BY <2>2 DEF Extent
    <3>4. QED
      BY <1>3, <2>1, <3>2, <3>3 DEF ExtentRecord
  <2>3. CASE key.type = "inline_data"
    <3>1. Extent = [kind |-> "extent", inode |-> bkey[Inode], file_offset |-> FileOffset,
                    offset |-> InlineOffset, size |-> InlineSize]
      BY <2>3 DEF Extent
    <3>2. QED
      BY <1>3, <2>1, <3>1, InlineIs DEF ExtentRecord
  <2>4. CASE key.type \notin {"extent", "inline_data"}
    <3>1. Extent = NoExtent
      BY <2>4 DEF Extent
    <3>2. QED
      BY <3>1 DEF NoExtent, ExtentRecord
  <2>5. QED
    BY <2>2, <2>3, <2>4
<1>5. InodeOf \in InodeRecord
  <2>1. CASE key.type = "inode"
    <3>1. key.value.packed \in PackedInode
      BY <1>2, <2>1 DEF Value, Inode_
    <3>2. UnpackSize(key.value.packed) \in Nat /\ key.value.packed.bi_hash_seed \in Nat
      BY <3>1, SizeType DEF PackedInode
    <3>3. QED
      BY <1>3, <2>1, <3>2 DEF InodeOf, InodeRecord
  <2>2. CASE key.type # "inode"
    BY <2>2 DEF InodeOf, NoInode, InodeRecord
  <2>3. QED
    BY <2>1, <2>2
<1>6. Dirent \in DirentRecord
  <2>1. CASE key.type = "dirent"
    <3>1. PICK length \in Nat, spill \in Nat : length = key.value.length /\ spill = key.value.spill
      BY <1>2, <2>1 DEF Value, Dirent_
    <3>2. key.value.d_inum \in Nat /\ key.value.d_type \in Nat
      BY <1>2, <2>1 DEF Value, Dirent_
    <3>3. PICK room \in Int : room = NameRoom
      <4>1. PICK w \in Nat : FirstVal \in Nat /\ KeyEnd = FirstVal + w * 8
        BY ValueIs
      <4>2. QED
        BY <4>1 DEF NameRoom
    <3>4. PICK str \in Nat : str = StrLen
      BY <3>1, <3>3 DEF StrLen
    <3>5. NameLen = IF str % 256 < room % 256 THEN str % 256 ELSE room % 256
      BY <3>3, <3>4 DEF NameLen
    <3>6. str % 256 \in 0..255 /\ room % 256 \in 0..255
      OBVIOUS
    <3>7. NameLen \in 0..255
      BY <3>5, <3>6
    <3>8. QED
      BY <1>3, <2>1, <3>2, <3>7 DEF Dirent, DirentRecord
  <2>2. CASE key.type # "dirent"
    BY <2>2 DEF Dirent, NoDirent, DirentRecord
  <2>3. QED
    BY <2>1, <2>2
<1>7. QED
  BY <1>4, <1>5, <1>6

\* The record is one of the current key.
OfKey == record \in {NoRecord, Extent, InodeOf, Dirent}

\* Each record is made of the node and the key that the iterator is at when it is
\* looked at: Bcachefs_next_iter makes it anew for the next.
THEOREM RecordOfKey == RecordsSpec => [](Inv /\ OfKey)
<1>1. RecordsInit => OfKey
  BY DEF RecordsInit, OfKey
<1>2. OfKey /\ [RecordsNext]_record_vars => OfKey'
  <2> SUFFICES ASSUME OfKey, [RecordsNext]_record_vars PROVE OfKey'
    OBVIOUS
  <2>1. CASE Advance
    <3>1. NoRecord' = NoRecord
      BY DEF NoRecord
    <3>2. QED
      BY <2>1, <3>1 DEF Advance, OfKey
  <2>2. CASE UNCHANGED <<node, pos>>
    <3>1. key' = key
      BY <2>2 DEF key
    <3>2. bkey' = bkey
      BY <2>2, <3>1 DEF bkey
    <3>3. FirstVal' = FirstVal /\ KeyEnd' = KeyEnd
      BY <2>2, <3>1 DEF FirstVal, KeyEnd
    <3>4. /\ FileOffset' = FileOffset /\ RegularSize' = RegularSize
          /\ InlineOffset' = InlineOffset /\ InlineSize' = InlineSize
      BY <2>2, <3>1, <3>2, <3>3 DEF FileOffset, RegularSize, InlineOffset, InlineSize
    <3>5. Extent' = Extent
      BY <3>1, <3>2, <3>4 DEF Extent
    <3>6. InodeOf' = InodeOf
      BY <3>1, <3>2 DEF InodeOf
    <3>7. NameRoom' = NameRoom
      BY <3>3 DEF NameRoom
    <3>8. StrLen' = StrLen
      BY <3>1, <3>7 DEF StrLen
    <3>9. NameLen' = NameLen
      BY <3>7, <3>8 DEF NameLen
    <3>10. Dirent' = Dirent
      BY <3>1, <3>2, <3>9 DEF Dirent
    <3>11. record' \in {record, Extent, InodeOf, Dirent} \/ Advance
      BY DEF RecordsNext, MakeExtent, MakeInode, MakeDirent, record_vars
    <3>12. QED
      BY <2>1, <3>5, <3>6, <3>10, <3>11 DEF OfKey
  <2>3. QED
    BY <2>1, <2>2 DEF RecordsNext, MakeExtent, MakeInode, MakeDirent, record_vars
<1>3. QED
  BY <1>1, <1>2, KeyOfNode, PTL DEF RecordsSpec

\* TypeOK: records have their types for every node, and the bytes of inline data
\* are those of its value, whatever lies behind the key.
THEOREM RecordsTyped == RecordsSpec => []TypeOK
<1>1. Inv /\ OfKey => TypeOK
  <2> SUFFICES ASSUME Inv, OfKey PROVE TypeOK
    OBVIOUS
  <2>1. IsNode(node) /\ pos \in 1..Len(node.keys)
    BY KeyIs DEF Inv
  <2>2. Extent \in ExtentRecord /\ InodeOf \in InodeRecord /\ Dirent \in DirentRecord
    BY RecordTypes
  <2>3. record \in {NoRecord} \cup ExtentRecord \cup InodeRecord \cup DirentRecord
    BY <2>2 DEF OfKey
  <2>4. ASSUME record.kind = "extent", key.type = "inline_data"
        PROVE  record.offset + record.size <= ExtentOffset(node.start) + KeyEnd
    <3>1. record = Extent
      BY <2>2, <2>4 DEF OfKey, NoRecord, InodeRecord, DirentRecord
    <3>2. Extent.offset = InlineOffset /\ Extent.size = InlineSize
      BY <2>4 DEF Extent
    <3>3. InlineOffset \in Nat /\ InlineSize \in Nat
          /\ InlineOffset + InlineSize = ExtentOffset(node.start) + KeyEnd
      BY InlineIs
    <3>4. InlineOffset + InlineSize \in Nat
      BY <3>3
    <3>5. QED
      BY <3>1, <3>2, <3>3, <3>4
  <2>5. QED
    BY <2>1, <2>3, <2>4 DEF TypeOK
<1>2. QED
  BY <1>1, RecordOfKey, PTL

\* What an extent says of the file and of the disk.
LEMMA ExtentExact ==
  ASSUME Inv, Regular(key), Written, UnpackingsAgree, key.type \in {"extent", "inline_data"}
  PROVE  /\ Extent.inode = key.fields[Inode]
         /\ Extent.file_offset + key.fields[Size] * SectorSize = key.fields[Offset] * SectorSize
         /\ key.type = "extent" => Extent.size = key.fields[Size] * SectorSize
         /\ key.type = "inline_data" => Extent.offset + Extent.size = ExtentOffset(node.start) + KeyEnd
<1>1. /\ Inode \in Field /\ Offset \in Field /\ Size \in Field
  BY DEF Field, Inode, Offset, Size
<1>2. \A i \in Field : bkey[i] = key.fields[i]
  BY DEF UnpackingsAgree
<1>3. PICK o \in Nat, s \in Nat : /\ o = key.fields[Offset] /\ o = bkey[Offset]
                                  /\ s = key.fields[Size] /\ s = bkey[Size]
  <2>1. bkey[Offset] \in Nat /\ bkey[Size] \in Nat
    BY <1>1, BkeyType
  <2>2. QED
    BY <1>1, <1>2, <2>1
<1>4. s <= o /\ o * SectorSize < Word64 /\ s * SectorSize < Word32
  BY <1>3 DEF Written
<1>5. PICK p \in Nat, q \in Nat : p = o * SectorSize /\ q = s * SectorSize
  BY SectorBytes
<1>6. PICK d \in Nat : o = s + d
  <2>1. o - s \in Nat /\ o = s + (o - s)
    BY <1>4
  <2>2. QED
    BY <2>1
<1>7. PICK r \in Nat : r = d * SectorSize
  BY SectorBytes
<1>8. p = q + r /\ (o - s) * SectorSize = r
  <2>1. (s + d) * SectorSize = s * SectorSize + d * SectorSize
    BY SectorAssumption
  <2>2. o - s = d
    BY <1>6
  <2>3. QED
    BY <1>5, <1>6, <1>7, <2>1, <2>2
<1>9. FileOffset = r
  <2>1. r < Word64
    BY <1>4, <1>5, <1>8, Widths
  <2>2. r % Word64 = r
    BY <2>1, Widths
  <2>3. QED
    BY <1>3, <1>8, <2>2 DEF FileOffset
<1>10. RegularSize = q
  <2>1. q % Word32 = q
    BY <1>4, <1>5, Widths
  <2>2. QED
    BY <1>3, <1>5, <2>1 DEF RegularSize
<1>11. Extent.inode = bkey[Inode] /\ Extent.file_offset = FileOffset
  BY DEF Extent
<1>12. key.type = "extent" => Extent.size = RegularSize
  BY DEF Extent
<1>13. key.type = "inline_data" => Extent.offset = InlineOffset /\ Extent.size = InlineSize
  BY DEF Extent
<1>14. Extent.file_offset + key.fields[Size] * SectorSize = key.fields[Offset] * SectorSize
  <2>1. r + q = p
    BY <1>8
  <2>2. QED
    BY <1>3, <1>5, <1>9, <1>11, <2>1
<1>15. key.type = "extent" => Extent.size = key.fields[Size] * SectorSize
  BY <1>3, <1>5, <1>10, <1>12
<1>16. QED
  BY <1>1, <1>2, <1>11, <1>13, <1>14, <1>15, InlineIs

\* What an inode says of the file.
LEMMA InodeExact ==
  ASSUME Inv, Regular(key), Written, UnpackingsAgree, key.type = "inode"
  PROVE  /\ InodeOf.inode = key.fields[Offset]
         /\ InodeOf.size = IF key.value.packed.new_varint THEN key.value.numbers[9] ELSE 0
<1>1. key.value.packed \in PackedInode /\ key.value.numbers \in Seq(Nat)
  BY KeyIs DEF IsKey, Value, Inode_
<1>2. bkey[Offset] = key.fields[Offset]
  BY DEF UnpackingsAgree, Field, Offset
<1>3. CASE key.value.packed.new_varint
  <2>1. IsEncoded(key.value.packed, key.value.numbers)
    BY <1>3 DEF Written
  <2>2. UnpackSize(key.value.packed) = key.value.numbers[9]
    BY <1>1, <1>3, <2>1, SizeIs
  <2>3. QED
    BY <1>2, <1>3, <2>2 DEF InodeOf
<1>4. CASE ~ key.value.packed.new_varint
  <2>1. UnpackSize(key.value.packed) = 0
    BY <1>4 DEF UnpackSize, Scanned
  <2>2. QED
    BY <1>2, <1>4, <2>1 DEF InodeOf
<1>5. QED
  BY <1>3, <1>4

\* What an entry of a directory says of its name: it has the room that the words of
\* its key leave, seven bytes and a number of words.
LEMMA DirentExact ==
  ASSUME Inv, Regular(key), Written, UnpackingsAgree, key.type = "dirent"
  PROVE  /\ Dirent.parent_inode = key.fields[Inode]
         /\ StrLen < 256 => Dirent.name_len = key.value.length
<1>1. PICK length \in Nat, spill \in Nat : length = key.value.length /\ spill = key.value.spill
  BY KeyIs DEF IsKey, Value, Dirent_
<1>2. PICK w \in Nat : NameRoom = w * 8 - 9
  <2>1. PICK w \in Nat : FirstVal \in Nat /\ KeyEnd = FirstVal + w * 8
    BY ValueIs
  <2>2. QED
    BY <2>1 DEF NameRoom
<1>3. length <= w * 8 - 9 /\ w * 8 - 9 < length + 8 /\ length < 256
  BY <1>1, <1>2 DEF Written
<1>4. PICK room \in 0..255 : room = NameRoom /\ length <= room
  <2>1. w * 8 - 9 < 263 /\ w * 8 - 9 >= 0
    BY <1>3
  <2>2. w <= 33
    BY <2>1
  <2>3. w * 8 - 9 <= 255
    BY <2>2
  <2>4. QED
    BY <1>2, <1>3, <2>1, <2>3
<1>5. StrLen = IF length < room THEN length ELSE length + spill
  BY <1>1, <1>4 DEF StrLen
<1>6. ASSUME StrLen < 256 PROVE NameLen = length
  <2>1. PICK str \in Nat : str = StrLen /\ str < 256 /\ length <= str /\ (length = room \/ str = length)
    BY <1>1, <1>4, <1>5, <1>6
  <2>2. str % 256 = str /\ room % 256 = room
    BY <2>1
  <2>3. NameLen = IF str < room THEN str ELSE room
    BY <1>4, <2>1, <2>2 DEF NameLen
  <2>4. CASE str < room
    BY <1>4, <2>1, <2>3, <2>4
  <2>5. CASE ~ (str < room)
    BY <1>4, <2>1, <2>3, <2>5
  <2>6. QED
    BY <2>4, <2>5
<1>7. bkey[Inode] = key.fields[Inode]
  BY DEF UnpackingsAgree, Field, Inode
<1>8. QED
  BY <1>1, <1>6, <1>7 DEF Dirent

\* RecordsExact: of a key as the kernel writes it, a record gives the place of the
\* bytes in the file and on disk, the size of the file and the length of the name,
\* whatever the format of the node, the numbers and the address of the key.
THEOREM RecordsAlwaysExact == RecordsSpec => []RecordsExact
<1>1. Inv /\ OfKey /\ UnpackingsAgree => RecordsExact
  <2> SUFFICES ASSUME Inv, OfKey, UnpackingsAgree, record # NoRecord, Regular(key), Written
               PROVE  RecordsExact
    BY DEF RecordsExact
  <2>1. Extent \in ExtentRecord /\ InodeOf \in InodeRecord /\ Dirent \in DirentRecord
    BY RecordTypes
  <2>2. Extent.kind = "extent" /\ InodeOf.kind = "inode" /\ Dirent.kind = "dirent"
    BY <2>1 DEF ExtentRecord, InodeRecord, DirentRecord
  <2>3. record = Extent \/ record = InodeOf \/ record = Dirent
    BY DEF OfKey
  <2>4. CASE record = Extent /\ key.type \in {"extent", "inline_data"}
    <3>1. /\ record.inode = key.fields[Inode]
          /\ record.file_offset + key.fields[Size] * SectorSize = key.fields[Offset] * SectorSize
          /\ key.type = "extent" => record.size = key.fields[Size] * SectorSize
          /\ key.type = "inline_data" => record.offset + record.size = ExtentOffset(node.start) + KeyEnd
      BY <2>4, ExtentExact
    <3>2. record.kind = "extent"
      BY <2>2, <2>4
    <3>3. QED
      BY <2>4, <3>1, <3>2 DEF RecordsExact
  <2>5. CASE record = InodeOf /\ key.type = "inode"
    <3>1. /\ record.inode = key.fields[Offset]
          /\ record.size = IF key.value.packed.new_varint THEN key.value.numbers[9] ELSE 0
      BY <2>5, InodeExact
    <3>2. record.kind = "inode"
      BY <2>2, <2>5
    <3>3. QED
      BY <2>5, <3>1, <3>2 DEF RecordsExact
  <2>6. CASE record = Dirent /\ key.type = "dirent"
    <3>1. /\ record.parent_inode = key.fields[Inode]
          /\ StrLen < 256 => record.name_len = key.value.length
      BY <2>6, DirentExact
    <3>2. record.kind = "dirent"
      BY <2>2, <2>6
    <3>3. QED
      BY <2>6, <3>1, <3>2 DEF RecordsExact
  <2>7. CASE /\ ~ (record = Extent /\ key.type \in {"extent", "inline_data"})
             /\ ~ (record = InodeOf /\ key.type = "inode")
             /\ ~ (record = Dirent /\ key.type = "dirent")
    <3>1. key.type \notin {"extent", "inline_data"} => Extent = NoExtent
      BY DEF Extent
    <3>2. key.type # "inode" => InodeOf = NoInode
      BY DEF InodeOf
    <3>3. key.type # "dirent" => Dirent = NoDirent
      BY DEF Dirent
    <3>4. record \in {NoExtent, NoInode, NoDirent}
      BY <2>3, <2>7, <3>1, <3>2, <3>3
    <3>5. /\ ~ (record.kind = "extent" /\ key.type \in {"extent", "inline_data"})
          /\ ~ (record.kind = "inode" /\ key.type = "inode")
          /\ ~ (record.kind = "dirent" /\ key.type = "dirent")
      BY <2>2, <2>3, <2>7
    <3>6. QED
      BY <3>4, <3>5 DEF RecordsExact
  <2>8. QED
    BY <2>4, <2>5, <2>6, <2>7
<1>2. QED
  BY <1>1, RecordOfKey, UnpackingsAlwaysAgree, PTL

-----------------------------------------------------------------------------
(* Images *)

\* What a search returns is one of its hits, or None.
LEMMA FoundIn ==
  ASSUME NEW S
  PROVE  Found(S) = None \/ Found(S) \in S
BY DEF Found

\* The only hit of a search is what it returns.
LEMMA FoundOnly ==
  ASSUME NEW S, NEW e \in S, \A x \in S : x = e
  PROVE  Found(S) = e
BY DEF Found

\* A search without hits returns None.
LEMMA FoundNone == Found({}) = None
BY DEF Found

\* Directories alone have entries, an inode's entries have its type, and a
\* directory has one entry of a name and one at a hash.
LEMMA DirentFacts ==
  ASSUME NEW g, IsImage(g)
  PROVE  /\ ToSet(g.dirents) \subseteq DirentEntry
         /\ \A d \in ToSet(g.dirents) :
              /\ d.inode > RootInode
              /\ d.parent = RootInode \/ \E e \in ToSet(g.dirents) : e.inode = d.parent /\ IsDir(e)
         /\ \A d, e \in ToSet(g.dirents) :
              /\ d.inode = e.inode => d.type = e.type
              /\ d.parent = e.parent /\ (d.name = e.name \/ d.hash = e.hash) => d = e
<1> DEFINE list == g.dirents
<1>1. list \in Seq(DirentEntry) /\ Len(list) \in Nat /\ DOMAIN list = 1..Len(list)
  BY DEF IsImage
<1>2. \A i \in 1..Len(list) : list[i] \in DirentEntry
  BY <1>1
<1>3. \A i, j \in 1..Len(list) : i < j =>
        \/ list[i].parent < list[j].parent
        \/ list[i].parent = list[j].parent /\ list[i].hash < list[j].hash /\ list[i].name # list[j].name
  BY DEF IsImage
<1>4. \A i \in 1..Len(list) :
        /\ list[i].inode > RootInode
        /\ list[i].parent = RootInode
             \/ \E j \in 1..Len(list) : list[j].inode = list[i].parent /\ IsDir(list[j])
        /\ \A j \in 1..Len(list) : list[j].inode = list[i].inode => list[j].type = list[i].type
  BY DEF IsImage
<1>5. ToSet(list) = {list[i] : i \in 1..Len(list)}
  BY <1>1 DEF ToSet
<1> HIDE DEF list
<1>6. ASSUME NEW i \in 1..Len(list), NEW j \in 1..Len(list), list[i].parent = list[j].parent,
             list[i].name = list[j].name \/ list[i].hash = list[j].hash
      PROVE  i = j
  <2>1. /\ list[i].parent \in Nat /\ list[j].parent \in Nat
        /\ list[i].hash \in Nat /\ list[j].hash \in Nat
    BY <1>2 DEF DirentEntry
  <2>2. ~ (i < j)
    BY <1>3, <1>6, <2>1
  <2>3. ~ (j < i)
    BY <1>3, <1>6, <2>1
  <2>4. QED
    BY <1>1, <2>2, <2>3
<1>7. ToSet(list) \subseteq DirentEntry
  BY <1>2, <1>5
<1>8. \A d \in ToSet(list) :
        /\ d.inode > RootInode
        /\ d.parent = RootInode \/ \E e \in ToSet(list) : e.inode = d.parent /\ IsDir(e)
  BY <1>4, <1>5
<1>9. \A d, e \in ToSet(list) : d.inode = e.inode => d.type = e.type
  BY <1>4, <1>5
<1>10. \A d, e \in ToSet(list) :
         d.parent = e.parent /\ (d.name = e.name \/ d.hash = e.hash) => d = e
  BY <1>5, <1>6
<1>11. QED
  BY <1>7, <1>8, <1>9, <1>10 DEF list

\* The inodes of an image are inodes, and no two have one number.
LEMMA InodeFacts ==
  ASSUME NEW g, IsImage(g)
  PROVE  /\ ToSet(g.inodes) \subseteq InodeEntry
         /\ \A i, j \in ToSet(g.inodes) : i.inode = j.inode => i = j
<1> DEFINE list == g.inodes
<1>1. list \in Seq(InodeEntry) /\ Len(list) \in Nat /\ DOMAIN list = 1..Len(list)
  BY DEF IsImage
<1>2. \A i \in 1..Len(list) : list[i] \in InodeEntry
  BY <1>1
<1>3. \A i, j \in 1..Len(list) : i < j => list[i].inode < list[j].inode
  BY DEF IsImage
<1>4. ToSet(list) = {list[i] : i \in 1..Len(list)}
  BY <1>1 DEF ToSet
<1> HIDE DEF list
<1>5. ASSUME NEW i \in 1..Len(list), NEW j \in 1..Len(list), list[i].inode = list[j].inode
      PROVE  i = j
  <2>1. list[i].inode \in Nat /\ list[j].inode \in Nat
    BY <1>2 DEF InodeEntry
  <2>2. ~ (i < j) /\ ~ (j < i)
    BY <1>3, <1>5, <2>1
  <2>3. QED
    BY <1>1, <2>2
<1>6. QED
  BY <1>2, <1>4, <1>5 DEF list

\* Extents begin at sectors, and the keys of a file are in the order of their ends,
\* longer ones last.
LEMMA ExtentFacts ==
  ASSUME NEW g, IsImage(g)
  PROVE  /\ \A i \in 1..Len(g.extents) :
              /\ g.extents[i] \in ExtentEntry
              /\ g.extents[i].file_offset % SectorSize = 0
              /\ g.extents[i].file_offset + g.extents[i].size <= g.extents[i].end
         /\ \A i, j \in 1..Len(g.extents) : i < j =>
              /\ g.extents[i].inode <= g.extents[j].inode
              /\ g.extents[i].inode = g.extents[j].inode =>
                   \/ g.extents[i].end < g.extents[j].end
                   \/ /\ g.extents[i].end = g.extents[j].end
                      /\ g.extents[i].file_offset > g.extents[j].file_offset
<1> DEFINE list == g.extents
<1>1. list \in Seq(ExtentEntry) /\ Len(list) \in Nat /\ DOMAIN list = 1..Len(list)
  BY DEF IsImage
<1>2. \A i \in 1..Len(list) : list[i] \in ExtentEntry
  BY <1>1
<1>3. \A i, j \in 1..Len(list) : i < j =>
        \/ list[i].inode < list[j].inode
        \/ list[i].inode = list[j].inode /\ list[i].end < list[j].end
        \/ list[i].inode = list[j].inode /\ list[i].end = list[j].end
             /\ list[i].file_offset > list[j].file_offset
  BY DEF IsImage
<1>4. \A i \in 1..Len(list) :
        list[i].file_offset % SectorSize = 0 /\ list[i].file_offset + list[i].size <= list[i].end
  BY DEF IsImage
<1> HIDE DEF list
<1>5. ASSUME NEW i \in 1..Len(list), NEW j \in 1..Len(list), i < j
      PROVE  /\ list[i].inode <= list[j].inode
             /\ list[i].inode = list[j].inode =>
                  \/ list[i].end < list[j].end
                  \/ list[i].end = list[j].end /\ list[i].file_offset > list[j].file_offset
  <2>1. list[i].inode \in Nat /\ list[j].inode \in Nat
    BY <1>2 DEF ExtentEntry
  <2>2. QED
    BY <1>3, <1>5, <2>1
<1>6. QED
  BY <1>2, <1>4, <1>5 DEF list

\* What an iteration goes through is what can be read.
LEMMA DirentsAre ==
  ASSUME NEW g, IsImage(g)
  PROVE  Dirents(g) = ToSet(g.dirents) \ g.unread
<1> DEFINE items == Items(g, g.dirents, ZeroDirent)
<1>1. g.dirents \in Seq(DirentEntry) /\ DOMAIN g.dirents = 1..Len(g.dirents)
  BY DEF IsImage
<1>2. ToSet(g.dirents) = {g.dirents[i] : i \in 1..Len(g.dirents)}
  BY <1>1 DEF ToSet
<1>3. items = [i \in 1..Len(g.dirents) |-> IF g.dirents[i] \in g.unread THEN ZeroDirent ELSE g.dirents[i]]
  BY DEF Items
<1>4. ToSet(items) = {items[i] : i \in 1..Len(g.dirents)}
  BY <1>3 DEF ToSet
<1>5. \A i \in 1..Len(g.dirents) : g.dirents[i].inode # 0
  BY <1>2, DirentFacts DEF RootInode
<1>6. Dirents(g) = {e \in ToSet(items) : e.inode # 0}
  BY DEF Dirents, Kept
<1>7. ZeroDirent.inode = 0
  BY DEF ZeroDirent
<1> HIDE DEF items
<1>8. QED
  BY <1>2, <1>3, <1>4, <1>5, <1>6, <1>7

\* The iteration over inodes (BcachefsIterInode) gives those that can be read.
LEMMA InodesAre ==
  ASSUME NEW g, IsImage(g)
  PROVE  Inodes(g) = ToSet(g.inodes) \ g.unread
<1> DEFINE items == Items(g, g.inodes, ZeroInode)
<1>1. g.inodes \in Seq(InodeEntry) /\ DOMAIN g.inodes = 1..Len(g.inodes)
  BY DEF IsImage
<1>2. ToSet(g.inodes) = {g.inodes[i] : i \in 1..Len(g.inodes)}
  BY <1>1 DEF ToSet
<1>3. items = [i \in 1..Len(g.inodes) |-> IF g.inodes[i] \in g.unread THEN ZeroInode ELSE g.inodes[i]]
  BY DEF Items
<1>4. ToSet(items) = {items[i] : i \in 1..Len(g.inodes)}
  BY <1>3 DEF ToSet
<1>5. \A i \in 1..Len(g.inodes) : g.inodes[i].inode # 0
  BY <1>2, InodeFacts DEF InodeEntry
<1>6. Inodes(g) = {e \in ToSet(items) : e.inode # 0}
  BY DEF Inodes, Kept
<1>7. ZeroInode.inode = 0
  BY DEF ZeroInode
<1> HIDE DEF items
<1>8. QED
  BY <1>2, <1>3, <1>4, <1>5, <1>6, <1>7

-----------------------------------------------------------------------------
(* The cache *)

\* Directories a cursor is parsed at.
Bases == {Root} \cup {d \in Dirents(image) : IsDir(d)}

\* What can be in a directory of the cache.
LEMMA CacheFacts ==
  ASSUME IsImage(image), NEW base \in Bases
  PROVE  /\ base.inode \in Directories(base)
         /\ \A d \in Dirents(image) :
              IsDir(d) /\ d.parent \in Directories(base) => d.inode \in Directories(base)
         /\ RootInode \in Directories(base) => base = Root
<1> DEFINE dirs == {d \in Dirents(image) : IsDir(d)}
           all == {base.inode} \cup {d.inode : d \in dirs}
           IsWalk(S) == base.inode \in S /\ \A d \in dirs : d.parent \in S => d.inode \in S
<1>1. Directories(base) = {i \in all : \A S \in SUBSET all : IsWalk(S) => i \in S}
  BY DEF Directories
<1>2. base.inode \in Directories(base)
  BY <1>1
<1>3. ASSUME NEW d \in Dirents(image), IsDir(d), d.parent \in Directories(base)
      PROVE  d.inode \in Directories(base)
  <2>1. d \in dirs /\ d.inode \in all
    BY <1>3
  <2>2. ASSUME NEW S \in SUBSET all, IsWalk(S) PROVE d.inode \in S
    BY <1>1, <1>3, <2>1, <2>2
  <2>3. QED
    BY <1>1, <2>1, <2>2
<1>4. ASSUME base # Root PROVE RootInode \notin Directories(base)
  <2> DEFINE S == all \ {RootInode}
  <2>1. \A d \in dirs : d.inode # RootInode
    BY DirentsAre, DirentFacts DEF RootInode, DirentEntry
  <2>2. base \in dirs
    BY <1>4 DEF Bases
  <2>3. IsWalk(S)
    BY <2>1, <2>2
  <2>4. S \in SUBSET all /\ RootInode \notin S
    OBVIOUS
  <2>5. QED
    BY <1>1, <2>3, <2>4
<1>5. QED
  BY <1>2, <1>3, <1>4

\* Only directories have entries, and those of the cache are in it.
LEMMA InsideFacts ==
  ASSUME IsImage(image), NEW base \in Bases, NEW s \in {base} \cup Cached(base)
  PROVE  /\ IsDir(s) => s.inode \in Directories(base)
         /\ ~ IsDir(s) => \A e \in ToSet(image.dirents) : e.parent # s.inode
         /\ s = Root \/ s \in Dirents(image)
<1>1. s = Root \/ s \in Dirents(image)
  BY DEF Bases, Cached
<1>2. IsDir(s) => s.inode \in Directories(base)
  BY CacheFacts DEF Cached
<1>3. ASSUME ~ IsDir(s), NEW e \in ToSet(image.dirents) PROVE e.parent # s.inode
  <2>1. s # Root
    BY <1>3 DEF IsDir, Root
  <2>2. s \in ToSet(image.dirents) /\ s.inode # RootInode
    BY <1>1, <2>1, DirentsAre, DirentFacts DEF RootInode, DirentEntry
  <2>3. QED
    BY <1>3, <2>2, DirentFacts DEF IsDir
<1>4. QED
  BY <1>1, <1>2, <1>3

\* The entries that are listed before the iteration is broken off are all those of
\* the directory.
LEMMA ChildrenAre ==
  ASSUME IsImage(image), NEW d, d.inode \in Nat
  PROVE  Children(image, d) = {e \in Dirents(image) : e.parent = d.inode}
<1> DEFINE list == image.dirents
           items == Items(image, image.dirents, ZeroDirent)
           Passes(i) == items[i].inode = 0 \/ items[i].parent <= d.inode
<1>1. list \in Seq(DirentEntry) /\ Len(list) \in Nat /\ DOMAIN list = 1..Len(list)
  BY DEF IsImage
<1>2. \A i \in 1..Len(list) : list[i] \in DirentEntry
  BY <1>1
<1>3. \A i, j \in 1..Len(list) : i < j => list[i].parent <= list[j].parent
  <2>1. \A i, j \in 1..Len(list) : i < j =>
          \/ list[i].parent < list[j].parent
          \/ list[i].parent = list[j].parent
    BY DEF IsImage
  <2>2. \A i \in 1..Len(list) : list[i].parent \in Nat
    BY <1>2 DEF DirentEntry
  <2>3. QED
    BY <2>1, <2>2
<1>4. ToSet(list) = {list[i] : i \in 1..Len(list)}
  BY <1>1 DEF ToSet
<1>5. items = [i \in 1..Len(list) |-> IF list[i] \in image.unread THEN ZeroDirent ELSE list[i]]
  BY DEF Items
<1>6. Dirents(image) = ToSet(list) \ image.unread
  BY DirentsAre
<1>7. Children(image, d) =
        {e \in Dirents(image) : \E i \in DOMAIN items :
           e = items[i] /\ e.parent = d.inode /\ \A j \in 1..(i - 1) : Passes(j)}
  BY DEF Children
<1>8. ZeroDirent.inode = 0
  BY DEF ZeroDirent
<1> HIDE DEF list, items
<1>9. ASSUME NEW e \in Dirents(image), e.parent = d.inode
      PROVE  \E i \in DOMAIN items :
               e = items[i] /\ e.parent = d.inode /\ \A j \in 1..(i - 1) : Passes(j)
  <2>1. PICK i \in 1..Len(list) : e = list[i] /\ e \notin image.unread
    BY <1>4, <1>6
  <2>2. i \in DOMAIN items /\ e = items[i]
    BY <1>5, <2>1
  <2>3. ASSUME NEW j \in 1..(i - 1) PROVE Passes(j)
    <3>1. j \in 1..Len(list) /\ j < i
      BY <1>1
    <3>2. list[j].parent <= d.inode
      BY <1>3, <1>9, <2>1, <3>1
    <3>3. items[j] = IF list[j] \in image.unread THEN ZeroDirent ELSE list[j]
      BY <1>5, <3>1
    <3>4. QED
      BY <1>8, <3>2, <3>3
  <2>4. QED
    BY <1>9, <2>2, <2>3
<1>10. QED
  BY <1>7, <1>9

-----------------------------------------------------------------------------
(* Paths *)

\* What a search through the image comes to.
Reached(g) == {None, Root} \cup Dirents(g)

\* No directory entry, inode or extent of an image is None.
LEMMA NotNone ==
  ASSUME NEW g, IsImage(g)
  PROVE  /\ None \notin {Root} \cup Dirents(g) \cup Inodes(g)
         /\ None \notin ToSet(g.extents)
<1>1. Dirents(g) \subseteq DirentEntry /\ Inodes(g) \subseteq InodeEntry
  BY DirentsAre, DirentFacts, InodesAre, InodeFacts
<1>2. g.extents \in Seq(ExtentEntry) /\ DOMAIN g.extents = 1..Len(g.extents)
  BY DEF IsImage
<1>3. ToSet(g.extents) \subseteq ExtentEntry
  BY <1>2, ExtentFacts DEF ToSet
<1>4. QED
  BY <1>1, <1>3, NoneAssumption

\* What a mount finds in a directory that it can be in, it can be in.
LEMMA FindDirentReached ==
  ASSUME NEW g, IsImage(g), NEW n, NEW name
  PROVE  FindDirent(g, n, name) \in Reached(g)
<1> DEFINE hits == {d \in ToSet(g.dirents) \ g.unread : d.parent = n /\ d.hash = Hash[name]}
<1>1. FindDirent(g, n, name) \in {None, Found(hits)}
  BY DEF FindDirent
<1>2. Found(hits) = None \/ Found(hits) \in hits
  BY FoundIn
<1>3. QED
  BY <1>1, <1>2, DirentsAre DEF Reached

\* The mount's walk along a path, part by part.
LEMMA MountWalk ==
  ASSUME NEW g, IsImage(g), NEW from \in Reached(g), NEW parts \in Seq(DOMAIN Hash)
  PROVE  \E at \in [0..Len(parts) -> Reached(g)] :
           /\ at[0] = from
           /\ \A i \in 1..Len(parts) :
                at[i] = IF at[i - 1] = None THEN None ELSE FindDirent(g, at[i - 1].inode, parts[i])
           /\ FindFrom(g, from, parts) = at[Len(parts)]
<1> DEFINE N == Len(parts)
           V == Reached(g)
           step == [t \in (1..N) \X V |->
                      IF t[2] = None THEN None ELSE FindDirent(g, t[2].inode, parts[t[1]])]
           Walk(f) == f = [i \in 0..N |->
                             IF i = 0 THEN from
                             ELSE IF f[i - 1] = None THEN None
                             ELSE FindDirent(g, f[i - 1].inode, parts[i])]
           at == CHOOSE f : Walk(f)
<1>1. N \in Nat /\ None \in V /\ from \in V
  BY DEF Reached
<1>2. step \in [(1..N) \X V -> V]
  BY <1>1, FindDirentReached
<1>3. \A i \in 1..N, v \in V :
        step[<<i, v>>] = IF v = None THEN None ELSE FindDirent(g, v.inode, parts[i])
  OBVIOUS
<1> HIDE DEF step, N, V
<1>4. PICK f \in [0..N -> V] : f[0] = from /\ \A i \in 1..N : f[i] = step[<<i, f[i - 1]>>]
  <2>1. Runs(N, V, from, step) # {}
    BY <1>1, <1>2, Recursion
  <2>2. QED
    BY <2>1 DEF Runs
<1>5. \A i \in 1..N : i - 1 \in 0..N /\ f[i - 1] \in V
  <2>1. \A i \in 1..N : i - 1 \in 0..N
    BY <1>1
  <2>2. QED
    BY <1>4, <2>1
<1>6. \A i \in 0..N : f[i] = IF i = 0 THEN from
                             ELSE IF f[i - 1] = None THEN None
                             ELSE FindDirent(g, f[i - 1].inode, parts[i])
  <2> SUFFICES ASSUME NEW i \in 0..N
               PROVE  f[i] = IF i = 0 THEN from
                             ELSE IF f[i - 1] = None THEN None
                             ELSE FindDirent(g, f[i - 1].inode, parts[i])
    OBVIOUS
  <2>1. CASE i = 0
    BY <1>1, <1>4, <2>1
  <2>2. CASE i \in 1..N
    <3>1. f[i] = step[<<i, f[i - 1]>>]
      BY <1>1, <1>4, <2>2
    <3>2. step[<<i, f[i - 1]>>] =
            IF f[i - 1] = None THEN None ELSE FindDirent(g, f[i - 1].inode, parts[i])
      BY <1>3, <1>5, <2>2
    <3>3. i # 0
      BY <2>2
    <3>4. QED
      BY <3>1, <3>2, <3>3, Zenon
  <2>3. QED
    BY <1>1, <2>1, <2>2
<1>7. Walk(f)
  BY <1>4, <1>6
<1>8. Walk(at)
  BY <1>7, Zenon
<1>9. at = [i \in 0..N |-> IF i = 0 THEN from
                           ELSE IF at[i - 1] = None THEN None
                           ELSE FindDirent(g, at[i - 1].inode, parts[i])]
  BY <1>8
<1>10. FindFrom(g, from, parts) = at[N]
  BY DEF FindFrom, N
<1> HIDE DEF at
<1>11. at[0] = from
  BY <1>1, <1>9
<1>12. \A i \in 1..N : at[i] = IF at[i - 1] = None THEN None
                               ELSE FindDirent(g, at[i - 1].inode, parts[i])
  BY <1>1, <1>9
<1>13. \A i \in 0..N : at[i] \in V
  <2> DEFINE S == {i \in 0..N : at[i] \in V}
  <2>1. \A i \in 1..N : i - 1 \in S => i \in S
    BY <1>1, <1>12, FindDirentReached DEF V
  <2>2. 0 \in S
    BY <1>1, <1>11
  <2> HIDE DEF S
  <2>3. 0..N \subseteq S
    BY <1>1, <2>1, <2>2, UpTo
  <2>4. QED
    BY <2>3 DEF S
<1>14. at \in [0..N -> V]
  BY <1>9, <1>13
<1>15. QED
  BY <1>10, <1>11, <1>12, <1>14 DEF N, V

\* A cursor finds an entry of its cache or nothing.
LEMMA HitReached ==
  ASSUME NEW c, c.entries \subseteq Dirents(image), NEW n, NEW name
  PROVE  Found(EntryHits(c, n, name)) \in Reached(image)
BY FoundIn DEF EntryHits, Reached

\* The cursor's.
LEMMA CursorWalk ==
  ASSUME IsImage(image), NEW c, c.entries \subseteq Dirents(image),
         NEW path, path.parts \in Seq(DOMAIN Hash), From(c, path) \in Reached(image)
  PROVE  \E at \in [0..Len(path.parts) -> Reached(image)] :
           /\ at[0] = From(c, path)
           /\ \A i \in 1..Len(path.parts) :
                at[i] = IF at[i - 1] = None THEN None ELSE Found(EntryHits(c, at[i - 1].inode, path.parts[i]))
           /\ CursorFindPath(c, path) = at[Len(path.parts)]
<1> DEFINE N == Len(path.parts)
           V == Reached(image)
           step == [t \in (1..N) \X V |->
                      IF t[2] = None THEN None ELSE Found(EntryHits(c, t[2].inode, path.parts[t[1]]))]
           Walk(f) == f = [i \in 0..N |->
                             IF i = 0 THEN From(c, path)
                             ELSE IF f[i - 1] = None THEN None
                             ELSE Found(EntryHits(c, f[i - 1].inode, path.parts[i]))]
           at == CHOOSE f : Walk(f)
<1>1. N \in Nat /\ None \in V /\ From(c, path) \in V
  BY DEF Reached
<1>2. step \in [(1..N) \X V -> V]
  BY <1>1, HitReached
<1>3. \A i \in 1..N, v \in V :
        step[<<i, v>>] = IF v = None THEN None ELSE Found(EntryHits(c, v.inode, path.parts[i]))
  OBVIOUS
<1> HIDE DEF step, N, V
<1>4. PICK f \in [0..N -> V] : f[0] = From(c, path) /\ \A i \in 1..N : f[i] = step[<<i, f[i - 1]>>]
  <2>1. Runs(N, V, From(c, path), step) # {}
    BY <1>1, <1>2, Recursion
  <2>2. QED
    BY <2>1 DEF Runs
<1>5. \A i \in 1..N : i - 1 \in 0..N /\ f[i - 1] \in V
  <2>1. \A i \in 1..N : i - 1 \in 0..N
    BY <1>1
  <2>2. QED
    BY <1>4, <2>1
<1>6. \A i \in 0..N : f[i] = IF i = 0 THEN From(c, path)
                             ELSE IF f[i - 1] = None THEN None
                             ELSE Found(EntryHits(c, f[i - 1].inode, path.parts[i]))
  <2> SUFFICES ASSUME NEW i \in 0..N
               PROVE  f[i] = IF i = 0 THEN From(c, path)
                             ELSE IF f[i - 1] = None THEN None
                             ELSE Found(EntryHits(c, f[i - 1].inode, path.parts[i]))
    OBVIOUS
  <2>1. CASE i = 0
    BY <1>1, <1>4, <2>1
  <2>2. CASE i \in 1..N
    <3>1. f[i] = step[<<i, f[i - 1]>>]
      BY <1>1, <1>4, <2>2
    <3>2. step[<<i, f[i - 1]>>] =
            IF f[i - 1] = None THEN None ELSE Found(EntryHits(c, f[i - 1].inode, path.parts[i]))
      BY <1>3, <1>5, <2>2
    <3>3. i # 0
      BY <2>2
    <3>4. QED
      BY <3>1, <3>2, <3>3, Zenon
  <2>3. QED
    BY <1>1, <2>1, <2>2
<1>7. Walk(f)
  BY <1>4, <1>6
<1>8. Walk(at)
  BY <1>7, Zenon
<1>9. at = [i \in 0..N |-> IF i = 0 THEN From(c, path)
                           ELSE IF at[i - 1] = None THEN None
                           ELSE Found(EntryHits(c, at[i - 1].inode, path.parts[i]))]
  BY <1>8
<1>10. CursorFindPath(c, path) = at[N]
  BY DEF CursorFindPath, N
<1> HIDE DEF at
<1>11. at[0] = From(c, path)
  BY <1>1, <1>9
<1>12. \A i \in 1..N : at[i] = IF at[i - 1] = None THEN None
                               ELSE Found(EntryHits(c, at[i - 1].inode, path.parts[i]))
  BY <1>1, <1>9
<1>13. \A i \in 0..N : at[i] \in V
  <2> DEFINE S == {i \in 0..N : at[i] \in V}
  <2>1. \A i \in 1..N : i - 1 \in S => i \in S
    <3> SUFFICES ASSUME NEW i \in 1..N, i - 1 \in S PROVE i \in S
      OBVIOUS
    <3>1. at[i] = None \/ at[i] = Found(EntryHits(c, at[i - 1].inode, path.parts[i]))
      BY <1>12
    <3>2. at[i] \in V
      BY <1>1, <3>1, HitReached DEF V
    <3>3. QED
      BY <1>1, <3>2
  <2>2. 0 \in S
    BY <1>1, <1>11
  <2> HIDE DEF S
  <2>3. 0..N \subseteq S
    BY <1>1, <2>1, <2>2, UpTo
  <2>4. QED
    BY <2>3 DEF S
<1>14. at \in [0..N -> V]
  BY <1>9, <1>13
<1>15. QED
  BY <1>10, <1>11, <1>12, <1>14 DEF N, V


\* One part of a path: where a mount that stands in the cache comes to is where
\* the cursor comes to, bar what is not cached for being neither file nor directory.
Agree(base, there, found) ==
  \/ there = None /\ found = None
  \/ there \in Dirents(image) /\ there.type = "other" /\ found = None
  \/ there = found /\ there \in {base} \cup Cached(base)

\* Mount and cursor that agree on a directory agree on what they find in it.
LEMMA StepsAgree ==
  ASSUME IsImage(image), NEW base \in Bases, NEW s \in {base} \cup Cached(base),
         NEW c, c.entries = Cached(base), NEW name, Clear(name)
  PROVE  Agree(base, FindDirent(image, s.inode, name), Found(EntryHits(c, s.inode, name)))
<1> DEFINE hits == {d \in ToSet(image.dirents) \ image.unread :
                      d.parent = s.inode /\ d.hash = Hash[name]}
           cached == EntryHits(c, s.inode, name)
<1>1. Dirents(image) = ToSet(image.dirents) \ image.unread
  BY DirentsAre
<1>2. cached = {d \in Cached(base) : d.parent = s.inode /\ d.name = name}
  BY DEF EntryHits
<1>3. FindDirent(image, s.inode, name) =
        IF FindInode(image, s.inode) = None THEN None ELSE Found(hits)
  BY DEF FindDirent
<1>4. Cached(base) = {d \in Dirents(image) : d.parent \in Directories(base) /\ (IsDir(d) \/ IsFile(d))}
  BY DEF Cached
<1> HIDE DEF cached
<1>5. CASE ~ IsDir(s)
  <2>1. hits = {} /\ cached = {}
    BY <1>1, <1>2, <1>4, <1>5, InsideFacts
  <2> HIDE DEF hits
  <2>2. FindDirent(image, s.inode, name) = None /\ Found(cached) = None
    BY <1>3, <2>1, FoundNone
  <2>3. QED
    BY <2>2 DEF Agree, cached
<1>6. CASE IsDir(s)
  <2>1. s.inode \in Directories(base) /\ s \in {Root} \cup {e \in ToSet(image.dirents) : IsDir(e)}
    BY <1>1, <1>6, InsideFacts
  <2>2. /\ FindInode(image, s.inode) # None
        /\ \A e \in ToSet(image.dirents) : e.parent = s.inode => (e.hash = Hash[name] <=> e.name = name)
    BY <2>1 DEF Clear
  <2>3. hits = {d \in Dirents(image) : d.parent = s.inode /\ d.name = name}
    BY <1>1, <2>2
  <2> HIDE DEF hits
  <2>4. FindDirent(image, s.inode, name) = Found(hits)
    BY <1>3, <2>2
  <2>5. cached = {d \in hits : IsDir(d) \/ IsFile(d)} /\ hits \subseteq Dirents(image)
    BY <1>2, <1>4, <2>1, <2>3
  <2>6. CASE hits = {}
    <3>1. Found(hits) = None /\ Found(cached) = None
      BY <2>5, <2>6, FoundNone
    <3>2. QED
      BY <2>4, <3>1 DEF Agree, cached
  <2>7. CASE hits # {}
    <3>1. PICK e \in hits : \A d \in hits : d = e
      BY <1>1, <2>3, <2>7, DirentFacts
    <3>2. Found(hits) = e /\ e \in Dirents(image)
      BY <2>5, <3>1, FoundOnly
    <3>3. e.type \in {"dir", "file", "other"}
      BY <1>1, <3>2, DirentFacts DEF DirentEntry
    <3>4. CASE IsDir(e) \/ IsFile(e)
      <4>1. e \in cached /\ \A d \in cached : d = e
        BY <2>5, <3>1, <3>4
      <4>2. Found(cached) = e /\ e \in Cached(base)
        BY <1>2, <4>1, FoundOnly
      <4>3. QED
        BY <2>4, <3>2, <4>2 DEF Agree, cached
    <3>5. CASE ~ (IsDir(e) \/ IsFile(e))
      <4>1. e.type = "other"
        BY <3>3, <3>5 DEF IsDir, IsFile
      <4>2. cached = {}
        BY <2>5, <3>1, <3>5
      <4>3. Found(cached) = None
        BY <4>2, FoundNone
      <4>4. QED
        BY <2>4, <3>2, <4>1, <4>3 DEF Agree, cached
    <3>6. QED
      BY <3>4, <3>5
  <2>8. QED
    BY <2>6, <2>7
<1>7. QED
  BY <1>5, <1>6

\* Nothing is found in what is neither file nor directory.
LEMMA OtherEnds ==
  ASSUME IsImage(image), NEW s \in Dirents(image), s.type = "other", NEW name
  PROVE  FindDirent(image, s.inode, name) = None
<1> DEFINE hits == {d \in ToSet(image.dirents) \ image.unread :
                      d.parent = s.inode /\ d.hash = Hash[name]}
<1>1. s \in ToSet(image.dirents)
  BY DirentsAre
<1>2. \A e \in ToSet(image.dirents) : e.parent # s.inode
  BY <1>1, DirentFacts DEF IsDir, RootInode, DirentEntry
<1>3. hits = {}
  BY <1>2
<1>4. FindDirent(image, s.inode, name) \in {None, Found(hits)}
  BY DEF FindDirent
<1> HIDE DEF hits
<1>5. QED
  BY <1>3, <1>4, FoundNone

\* Whole paths.
LEMMA WalksAgree ==
  ASSUME IsImage(image), NEW base \in Bases, NEW c, c.entries = Cached(base),
         NEW path, path.parts \in Seq(DOMAIN Hash), IsClear(path),
         From(c, path) \in {base} \cup Cached(base)
  PROVE  Agree(base, FindFrom(image, From(c, path), path.parts), CursorFindPath(c, path))
<1> DEFINE N == Len(path.parts)
           V == Reached(image)
<1>1. {base} \cup Cached(base) \subseteq Reached(image) /\ c.entries \subseteq Dirents(image)
  BY DEF Bases, Cached, Reached
<1>2. None \notin {base} \cup Cached(base) /\ None \notin Dirents(image)
  BY NotNone DEF Bases, Cached
<1>3. PICK a \in [0..N -> V] :
        /\ a[0] = From(c, path)
        /\ \A i \in 1..N :
             a[i] = IF a[i - 1] = None THEN None ELSE FindDirent(image, a[i - 1].inode, path.parts[i])
        /\ FindFrom(image, From(c, path), path.parts) = a[N]
  <2>1. From(c, path) \in Reached(image)
    BY <1>1
  <2>2. QED
    BY <2>1, MountWalk, SMTT(30)
<1>4. PICK b \in [0..N -> V] :
        /\ b[0] = From(c, path)
        /\ \A i \in 1..N :
             b[i] = IF b[i - 1] = None THEN None ELSE Found(EntryHits(c, b[i - 1].inode, path.parts[i]))
        /\ CursorFindPath(c, path) = b[N]
  BY <1>1, CursorWalk
<1> DEFINE S == {i \in 0..N : Agree(base, a[i], b[i])}
<1>5. N \in Nat /\ 0 \in S
  BY <1>3, <1>4 DEF Agree
<1>6. ASSUME NEW i \in 1..N, i - 1 \in S PROVE i \in S
  <2>1. Clear(path.parts[i])
    BY DEF IsClear, ToSet
  <2>2. Agree(base, a[i - 1], b[i - 1])
    BY <1>6
  <2>3. Agree(base, a[i], b[i])
    <3>1. CASE a[i - 1] = None /\ b[i - 1] = None
      BY <1>3, <1>4, <3>1 DEF Agree
    <3>2. CASE a[i - 1] \in Dirents(image) /\ a[i - 1].type = "other" /\ b[i - 1] = None
      <4>1. a[i] = None /\ b[i] = None
        BY <1>2, <1>3, <1>4, <3>2, OtherEnds
      <4>2. QED
        BY <4>1 DEF Agree
    <3>3. CASE a[i - 1] = b[i - 1] /\ a[i - 1] \in {base} \cup Cached(base)
      <4>1. a[i - 1] # None
        BY <1>2, <3>3
      <4>2. a[i] = FindDirent(image, a[i - 1].inode, path.parts[i])
        BY <1>3, <4>1
      <4>3. b[i] = Found(EntryHits(c, a[i - 1].inode, path.parts[i]))
        BY <1>4, <3>3, <4>1
      <4>4. QED
        BY <2>1, <3>3, <4>2, <4>3, StepsAgree
    <3>4. QED
      BY <2>2, <3>1, <3>2, <3>3 DEF Agree
  <2>4. QED
    BY <1>5, <2>3
<1> HIDE DEF S
<1>7. 0..N \subseteq S
  BY <1>5, <1>6, UpTo
<1>8. N \in S
  BY <1>5, <1>7
<1>9. QED
  BY <1>3, <1>4, <1>8 DEF S


-----------------------------------------------------------------------------
(* The cursor of a client *)

\* A cursor that stands at a directory entry of the cache of base.
Stands(base, dirent) ==
  [dirent |-> dirent, base |-> base, directories |-> Directories(base), entries |-> Cached(base)]

\* A cursor's cache is that of its base, and it stands in it.
CursorInv ==
  /\ image \in Images
  /\ view # Mounted =>
       \E base \in Bases : \E dirent \in {base} \cup Cached(base) : view = Stands(base, dirent)

\* Absolute paths begin at the root if it is the base, and nowhere else.
LEMMA FromIs ==
  ASSUME IsImage(image), NEW base \in Bases, NEW dirent \in {base} \cup Cached(base), NEW path
  PROVE  From(Stands(base, dirent), path) =
           IF ~ path.absolute THEN dirent ELSE IF base = Root THEN Root ELSE None
<1>1. /\ Stands(base, dirent).dirent = dirent
      /\ Stands(base, dirent).directories = Directories(base)
  BY DEF Stands
<1>2. dirent = Root => base = Root
  <2>1. \A d \in Dirents(image) : d.inode # RootInode
    BY DirentsAre, DirentFacts DEF RootInode, DirentEntry
  <2>2. Root \notin Cached(base)
    BY <2>1 DEF Cached, Root
  <2>3. QED
    BY <2>2
<1>3. RootInode \in Directories(base) <=> base = Root
  <2>1. Root.inode = RootInode
    BY DEF Root
  <2>2. QED
    BY <2>1, CacheFacts
<1>4. QED
  BY <1>1, <1>2, <1>3 DEF From

\* A cursor stays in its cache.
LEMMA CursorStays ==
  ASSUME IsImage(image), NEW base \in Bases, NEW dirent \in {base} \cup Cached(base),
         NEW path, path.parts \in Seq(DOMAIN Hash)
  PROVE  CursorFindPath(Stands(base, dirent), path) \in {None, base} \cup Cached(base)
<1> DEFINE N == Len(path.parts)
           W == {None, base} \cup Cached(base)
<1>1. PICK c : c = Stands(base, dirent)
  OBVIOUS
<1>2. c.entries = Cached(base) /\ c.entries \subseteq Dirents(image)
  BY <1>1 DEF Stands, Cached
<1>3. From(c, path) \in W
  BY <1>1, FromIs
<1>4. W \subseteq Reached(image)
  BY DEF Reached, Bases, Cached
<1>5. PICK at \in [0..N -> Reached(image)] :
        /\ at[0] = From(c, path)
        /\ \A i \in 1..N :
             at[i] = IF at[i - 1] = None THEN None
                     ELSE Found(EntryHits(c, at[i - 1].inode, path.parts[i]))
        /\ CursorFindPath(c, path) = at[N]
  BY <1>2, <1>3, <1>4, CursorWalk
<1> DEFINE S == {i \in 0..N : at[i] \in W}
<1>6. N \in Nat /\ 0 \in S
  BY <1>3, <1>5
<1>7. \A i \in 1..N : i \in S
  <2> SUFFICES ASSUME NEW i \in 1..N PROVE at[i] \in W
    BY <1>6
  <2>1. at[i] = None \/ at[i] = Found(EntryHits(c, at[i - 1].inode, path.parts[i]))
    BY <1>5
  <2>2. EntryHits(c, at[i - 1].inode, path.parts[i]) \subseteq W
    BY <1>2 DEF EntryHits
  <2>3. QED
    BY <2>1, <2>2, FoundIn
<1> HIDE DEF S, W
<1>8. 0..N \subseteq S
  BY <1>6, <1>7, UpTo
<1>9. N \in S
  BY <1>6, <1>8
<1>10. at[N] \in W
  BY <1>9 DEF S
<1>11. QED
  BY <1>1, <1>5, <1>10 DEF W

\* A mount finds an entry of the image, the root, or nothing.
LEMMA FindPathReached ==
  ASSUME IsImage(image), NEW path, path.parts \in Seq(DOMAIN Hash)
  PROVE  FindPath(image, path) \in Reached(image)
<1> DEFINE N == Len(path.parts)
<1>1. Root \in Reached(image)
  BY DEF Reached
<1>2. PICK at \in [0..N -> Reached(image)] :
        FindFrom(image, Root, path.parts) = at[N]
  BY <1>1, MountWalk
<1>3. N \in 0..N
  OBVIOUS
<1>4. QED
  BY <1>2, <1>3 DEF FindPath

\* What changing directory does to the cursor.
LEMMA ParseStands ==
  ASSUME IsImage(image), NEW path, path.parts \in Seq(DOMAIN Hash), Parse(path)
  PROVE  /\ image' = image
         /\ \/ raised' # None /\ view' = view
            \/ /\ raised' = None
               /\ FindPath(image, path) \in Bases
               /\ view' = Stands(FindPath(image, path), FindPath(image, path))
<1> DEFINE dirent == FindPath(image, path)
<1>1. dirent \in Reached(image)
  BY FindPathReached
<1>2. "AttributeError" # None /\ "KeyError" # None
  BY RaisedAssumption
<1>3. CASE Fail("AttributeError") \/ Fail("KeyError")
  BY <1>2, <1>3 DEF Fail
<1>4. CASE dirent # None /\ IsDir(dirent) /\ Enter(CursorAt(dirent))
  <2>1. dirent \in Bases
    BY <1>1, <1>4 DEF Reached, Bases
  <2>2. CursorAt(dirent) = Stands(dirent, dirent)
    BY DEF CursorAt, Stands
  <2>3. QED
    BY <1>4, <2>1, <2>2 DEF Enter
<1>5. QED
  BY <1>3, <1>4 DEF Parse

\* The path that CursorCd looks for.
Asked(path) == IF path.parts = <<>> THEN [path EXCEPT !.absolute = TRUE] ELSE path

\* The path of a cd that is looked up is a path, the root's if it was empty.
LEMMA AskedIs ==
  ASSUME NEW path \in Paths
  PROVE  /\ path.parts \in Seq(DOMAIN Hash) /\ path.absolute \in BOOLEAN
         /\ Asked(path).parts = path.parts
         /\ Asked(path).absolute <=> path.absolute \/ path.parts = <<>>
<1>1. path \in [absolute: BOOLEAN, parts: Seq(DOMAIN Hash)]
  BY PathsAssumption
<1>2. path.parts \in Seq(DOMAIN Hash) /\ path.absolute \in BOOLEAN
  BY <1>1
<1>3. [path EXCEPT !.absolute = TRUE].parts = path.parts /\ [path EXCEPT !.absolute = TRUE].absolute = TRUE
  BY <1>1
<1>4. QED
  BY <1>2, <1>3 DEF Asked

\* A cd leaves the client with a cursor as CursorInv has it.
LEMMA CdStands ==
  ASSUME IsImage(image), NEW base \in Bases, NEW dirent \in {base} \cup Cached(base),
         view = Stands(base, dirent), NEW path \in Paths, CursorCd(path)
  PROVE  LET there == CursorFindPath(view, Asked(path)) IN
         \/ there = None /\ Parse(Asked(path))
         \/ there # None /\ raised' # None /\ Files(view) = {} /\ UNCHANGED <<image, view>>
         \/ /\ raised' = None /\ image' = image
            /\ there \in {base} \cup Cached(base)
            /\ view' = Stands(base, there)
<1> DEFINE there == CursorFindPath(view, Asked(path))
<1>1. \/ there = None /\ Parse(Asked(path))
      \/ there # None /\ Files(view) = {} /\ Fail("AttributeError")
      \/ there # None /\ Files(view) # {} /\ Enter([view EXCEPT !.dirent = there])
  BY DEF CursorCd, Asked
<1>2. there \in {None, base} \cup Cached(base)
  BY AskedIs, CursorStays
<1>3. [view EXCEPT !.dirent = there] = Stands(base, there)
  BY DEF Stands
<1>4. "AttributeError" # None
  BY RaisedAssumption
<1> HIDE DEF there
<1>5. QED
  BY <1>1, <1>2, <1>3, <1>4 DEF Fail, Enter, there

\* Caches depend on the image alone.
LEMMA SameImage ==
  ASSUME image' = image
  PROVE  /\ Bases' = Bases
         /\ \A base : Cached(base)' = Cached(base)
         /\ \A base, dirent : Stands(base, dirent)' = Stands(base, dirent)
<1>1. \A base : Directories(base)' = Directories(base)
  BY DEF Directories
<1>2. \A base : Cached(base)' = Cached(base)
  BY <1>1 DEF Cached
<1>3. Bases' = Bases
  BY DEF Bases
<1>4. QED
  BY <1>1, <1>2, <1>3 DEF Stands

\* However a client changes directory, a cursor stands in the cache of its base.
THEOREM ClientInvariant == Spec => []CursorInv
<1>1. Init => CursorInv
  BY DEF Init, CursorInv
<1>2. CursorInv /\ [Next]_vars => CursorInv'
  <2> SUFFICES ASSUME CursorInv, [Next]_vars PROVE CursorInv'
    OBVIOUS
  <2>1. image \in Images /\ IsImage(image)
    BY ImagesAssumption DEF CursorInv
  <2>2. ASSUME image' = image, view' = view PROVE CursorInv'
    BY <2>2, SameImage DEF CursorInv
  <2>3. ASSUME image' = image,
               NEW base \in Bases, NEW dirent \in {base} \cup Cached(base),
               view' = Stands(base, dirent)
        PROVE  CursorInv'
    BY <2>1, <2>3, SameImage DEF CursorInv
  <2>4. ASSUME NEW path, path.parts \in Seq(DOMAIN Hash), Parse(path) PROVE CursorInv'
    <3>1. CASE raised' # None
      BY <2>1, <2>2, <2>4, <3>1, ParseStands
    <3>2. CASE raised' = None
      BY <2>1, <2>3, <2>4, <3>2, ParseStands
    <3>3. QED
      BY <3>1, <3>2
  <2>5. ASSUME NEW path \in Paths, MountCd(path) PROVE CursorInv'
    BY <2>4, <2>5, AskedIs DEF MountCd
  <2>6. ASSUME NEW path \in Paths, CursorCd(path) PROVE CursorInv'
    <3>1. PICK base \in Bases : \E dirent \in {base} \cup Cached(base) : view = Stands(base, dirent)
      <4>1. view # Mounted
        BY <2>6 DEF CursorCd
      <4>2. QED
        BY <4>1 DEF CursorInv
    <3>7. PICK dirent \in {base} \cup Cached(base) : view = Stands(base, dirent)
      BY <3>1
    <3>2. CASE Parse(Asked(path))
      BY <2>4, <3>2, AskedIs
    <3>3. CASE UNCHANGED <<image, view>>
      BY <2>2, <3>3
    <3>4. CASE /\ image' = image
               /\ CursorFindPath(view, Asked(path)) \in {base} \cup Cached(base)
               /\ view' = Stands(base, CursorFindPath(view, Asked(path)))
      BY <2>3, <3>4
    <3>5. QED
      BY <2>1, <2>6, <3>7, <3>2, <3>3, <3>4, CdStands
  <2>7. CASE UNCHANGED vars
    BY <2>2, <2>7 DEF vars
  <2>8. QED
    BY <2>5, <2>6, <2>7 DEF Next
<1>3. QED
  BY <1>1, <1>2, PTL DEF Spec


\* A cursor in a state of the specification.
LEMMA ACursor ==
  ASSUME CursorInv, view # Mounted
  PROVE  /\ IsImage(image)
         /\ view.base \in Bases
         /\ view.dirent \in {view.base} \cup Cached(view.base)
         /\ view = Stands(view.base, view.dirent)
         /\ view.entries = Cached(view.base)
<1>1. IsImage(image)
  BY ImagesAssumption DEF CursorInv
<1>2. PICK base \in Bases : \E dirent \in {base} \cup Cached(base) : view = Stands(base, dirent)
  BY DEF CursorInv
<1>3. PICK dirent \in {base} \cup Cached(base) : view = Stands(base, dirent)
  BY <1>2
<1>4. view.base = base /\ view.dirent = dirent /\ view.entries = Cached(base)
  BY <1>3 DEF Stands
<1>5. QED
  BY <1>1, <1>2, <1>3, <1>4

\* A mount that has found nothing finds nothing further down.
LEMMA NoneEnds ==
  ASSUME IsImage(image), NEW c, c.entries \subseteq Dirents(image),
         NEW path, path.parts \in Seq(DOMAIN Hash), From(c, path) = None
  PROVE  CursorFindPath(c, path) = None
<1> DEFINE N == Len(path.parts)
<1>1. PICK at \in [0..N -> Reached(image)] :
        /\ at[0] = From(c, path)
        /\ \A i \in 1..N :
             at[i] = IF at[i - 1] = None THEN None
                     ELSE Found(EntryHits(c, at[i - 1].inode, path.parts[i]))
        /\ CursorFindPath(c, path) = at[N]
  BY CursorWalk DEF Reached
<1> DEFINE S == {i \in 0..N : at[i] = None}
<1>2. N \in Nat /\ 0 \in S /\ \A i \in 1..N : i - 1 \in S => i \in S
  BY <1>1
<1> HIDE DEF S
<1>3. 0..N \subseteq S
  BY <1>2, UpTo
<1>4. N \in S
  BY <1>2, <1>3
<1>5. QED
  BY <1>1, <1>4 DEF S

\* What a mount and a cursor find from where the path begins for both.
LEMMA BothFind ==
  ASSUME CursorInv, view # Mounted, NEW path, path.parts \in Seq(DOMAIN Hash),
         path.absolute \in BOOLEAN, IsClear(path)
  PROVE  LET there == FindFrom(image, IF path.absolute THEN Root ELSE view.dirent, path.parts)
             found == CursorFindPath(view, path)
         IN /\ path.absolute /\ view.base # Root => found = None
            /\ ~ (path.absolute /\ view.base # Root) =>
                 found = IF there # None /\ there.type = "other" THEN None ELSE there
<1> DEFINE there == FindFrom(image, IF path.absolute THEN Root ELSE view.dirent, path.parts)
           found == CursorFindPath(view, path)
           base == view.base
<1>1. /\ IsImage(image) /\ base \in Bases /\ view.entries = Cached(base)
      /\ view.dirent \in {base} \cup Cached(base)
      /\ From(view, path) =
           IF ~ path.absolute THEN view.dirent ELSE IF base = Root THEN Root ELSE None
  BY ACursor, FromIs
<1>2. view.entries \subseteq Dirents(image)
  BY <1>1 DEF Cached
<1> HIDE DEF base
<1>3. CASE path.absolute /\ base # Root
  BY <1>1, <1>2, <1>3, NoneEnds DEF base
<1>4. CASE ~ (path.absolute /\ base # Root)
  <2>1. /\ From(view, path) = IF path.absolute THEN Root ELSE view.dirent
        /\ From(view, path) \in {base} \cup Cached(base)
    BY <1>1, <1>4
  <2>2. Agree(base, there, found)
    BY <1>1, <2>1, WalksAgree
  <2>3. ASSUME there \in {base} \cup Cached(base) PROVE there.type # "other"
    BY <1>1, <2>3 DEF Bases, Cached, IsDir, IsFile, Root
  <2>4. None \notin Dirents(image)
    BY <1>1, NotNone
  <2> HIDE DEF there, found
  <2>5. found = IF there # None /\ there.type = "other" THEN None ELSE there
    BY <2>2, <2>3, <2>4 DEF Agree
  <2>6. QED
    BY <1>4, <2>5 DEF there, found, base
<1>5. QED
  BY <1>3, <1>4

\* The mount and every cursor find the same under every path that is clear, in every
\* image, bar what is neither file nor directory.
THEOREM LookupsAlwaysAgree == Spec => []LookupsAgree
<1>1. CursorInv => LookupsAgree
  <2> SUFFICES ASSUME CursorInv, view # Mounted, NEW path \in Paths, IsClear(path)
               PROVE  LET there == FindFrom(image, IF path.absolute THEN Root ELSE view.dirent, path.parts)
                          found == CursorFindPath(view, path)
                      IN IF path.absolute /\ view.base # Root THEN found \in {None, there}
                         ELSE IF there # None /\ there.type = "other" THEN found = None
                         ELSE found = there
    BY DEF LookupsAgree
  <2>1. path.parts \in Seq(DOMAIN Hash) /\ path.absolute \in BOOLEAN
    BY AskedIs
  <2>2. QED
    BY <2>1, BothFind
<1>2. QED
  BY <1>1, ClientInvariant, PTL

\* A directory of a cursor's cache has the entries of the image in it.
THEOREM ListingsAlwaysAgree == Spec => []ListingsAgree
<1>1. CursorInv => ListingsAgree
  <2> SUFFICES ASSUME CursorInv, view # Mounted,
                      NEW d \in {view.base} \cup {e \in view.entries : IsDir(e)}
               PROVE  CursorChildren(view, d) = {e \in Children(image, d) : IsDir(e) \/ IsFile(e)}
    BY DEF ListingsAgree
  <2> DEFINE base == view.base
  <2>1. IsImage(image) /\ base \in Bases /\ view.entries = Cached(base)
    BY ACursor
  <2>2. IsDir(d)
    BY <2>1 DEF Bases, IsDir, Root
  <2>3. d \in {base} \cup Cached(base)
    BY <2>1
  <2>4. d.inode \in Directories(base) /\ (d = Root \/ d \in Dirents(image))
    BY <2>1, <2>2, <2>3, InsideFacts
  <2>5. d.inode \in Nat
    BY <2>1, <2>4, DirentsAre, DirentFacts DEF Root, RootInode, DirentEntry
  <2>6. Children(image, d) = {e \in Dirents(image) : e.parent = d.inode}
    BY <2>1, <2>5, ChildrenAre
  <2>7. CursorChildren(view, d) = {e \in Cached(base) : e.parent = d.inode}
    BY <2>1 DEF CursorChildren
  <2>8. QED
    BY <2>4, <2>6, <2>7 DEF Cached
<1>2. QED
  BY <1>1, ClientInvariant, PTL

\* In every image cd goes where the paths say, and fails for the named reasons only.
THEOREM CdAlwaysLands == Spec => CdLands
<1> DEFINE Lands(path) ==
             LET below == FindFrom(image, view.dirent, path.parts)
                 top == FindPath(image, path)
                 goal == IF path.parts = <<>> THEN Root
                         ELSE IF path.absolute \/ below = None THEN top
                         ELSE IF below.type = "other" THEN top ELSE below
             IN IF raised' = None THEN view'.dirent = goal
                ELSE goal = None \/ ~IsDir(goal) \/ Files(view) = {} \/ HasOrphans
<1>1. CursorInv => \A path \in {p \in Paths : IsClear(p)} : view # Mounted /\ CursorCd(path) => Lands(path)
  <2> SUFFICES ASSUME CursorInv, NEW path \in Paths, IsClear(path), view # Mounted, CursorCd(path)
               PROVE  Lands(path)
    OBVIOUS
  <2> DEFINE asked == Asked(path)
             found == CursorFindPath(view, asked)
             below == FindFrom(image, view.dirent, path.parts)
             top == FindPath(image, path)
             goal == IF path.parts = <<>> THEN Root
                     ELSE IF path.absolute \/ below = None THEN top
                     ELSE IF below.type = "other" THEN top ELSE below
             there == FindFrom(image, IF asked.absolute THEN Root ELSE view.dirent, asked.parts)
  <2>1. /\ asked.parts = path.parts
        /\ asked.parts \in Seq(DOMAIN Hash) /\ asked.absolute \in BOOLEAN
        /\ asked.absolute <=> path.absolute \/ path.parts = <<>>
    BY AskedIs DEF Asked
  <2>2. IsClear(asked)
    BY <2>1 DEF IsClear
  <2>3. /\ asked.absolute /\ view.base # Root => found = None
        /\ ~ (asked.absolute /\ view.base # Root) =>
             found = IF there # None /\ there.type = "other" THEN None ELSE there
    BY <2>1, <2>2, BothFind
  <2>4. top = FindFrom(image, Root, path.parts)
    BY DEF FindPath
  <2>5. IsImage(image) /\ top \in Reached(image) /\ FindPath(image, asked) = top
    BY <2>1, ACursor, FindPathReached DEF FindPath
  <2>6. path.parts = <<>> => top = Root
    <3>1. PICK at \in [0..Len(path.parts) -> Reached(image)] :
            at[0] = Root /\ FindFrom(image, Root, path.parts) = at[Len(path.parts)]
      <4>1. Root \in Reached(image) /\ path.parts \in Seq(DOMAIN Hash)
        BY <2>1 DEF Reached
      <4>2. QED
        BY <2>5, <4>1, MountWalk
    <3>2. QED
      BY <2>4, <3>1
  <2>7. None # Root
    BY NoneAssumption
  <2>8. \/ found = None /\ Parse(asked)
        \/ found # None /\ raised' # None /\ Files(view) = {}
        \/ raised' = None /\ found # None /\ view'.dirent = found
    <3>1. \/ found = None /\ Parse(asked)
          \/ found # None /\ Files(view) = {} /\ Fail("AttributeError")
          \/ found # None /\ Files(view) # {} /\ Enter([view EXCEPT !.dirent = found])
      BY DEF CursorCd, Asked
    <3>2. [view EXCEPT !.dirent = found].dirent = found
      BY ACursor DEF Stands
    <3>3. "AttributeError" # None
      BY RaisedAssumption
    <3> HIDE DEF found, asked
    <3>4. ASSUME Enter([view EXCEPT !.dirent = found])
          PROVE  raised' = None /\ view'.dirent = found
      BY <3>2, <3>4 DEF Enter
    <3>5. ASSUME Fail("AttributeError") PROVE raised' # None
      BY <3>3, <3>5 DEF Fail
    <3>6. QED
      BY <3>1, <3>4, <3>5
  <2>9. found = None => goal = top
    BY <2>1, <2>3, <2>4, <2>6
  <2>10. found # None => goal = found
    BY <2>1, <2>3, <2>4, <2>6
  <2>11. CASE found = None /\ Parse(asked)
    <3>1. \/ FindPath(image, asked) = None /\ Fail("AttributeError")
          \/ (HasOrphans \/ ~ IsDir(FindPath(image, asked))) /\ Fail("KeyError")
          \/ Enter(CursorAt(FindPath(image, asked)))
      BY <2>11 DEF Parse
    <3>2. "AttributeError" # None /\ "KeyError" # None
      BY RaisedAssumption
    <3>3. CursorAt(top).dirent = top
      BY DEF CursorAt
    <3>4. goal = top
      BY <2>9, <2>11
    <3> HIDE DEF goal, top
    <3>5. IF raised' = None THEN view'.dirent = goal
          ELSE goal = None \/ ~IsDir(goal) \/ HasOrphans
      BY <2>5, <3>1, <3>2, <3>3, <3>4 DEF Fail, Enter
    <3>6. QED
      BY <3>5 DEF goal, top
  <2>12. CASE found # None /\ raised' # None /\ Files(view) = {}
    BY <2>12
  <2>13. CASE raised' = None /\ found # None /\ view'.dirent = found
    <3>1. view'.dirent = goal
      BY <2>10, <2>13
    <3>2. QED
      BY <2>13, <3>1
  <2>14. QED
    BY <2>8, <2>11, <2>12, <2>13
<1>2. QED
  BY <1>1, ClientInvariant, PTL DEF CdLands


-----------------------------------------------------------------------------
(* Files *)

\* Where the extents of an inode are in the image.
PlacesOf(n) == {i \in 1..Len(image.extents) : image.extents[i].inode = n}

\* Places of extents one behind the other from the first byte of a file to its last,
\* old versions of which begin in front of them.
Tiled(n, T) ==
  LET list == image.extents
      P == PlacesOf(n)
  IN /\ T \subseteq P
     /\ \A p \in P : list[p] \notin image.unread
     /\ \E p \in T : list[p].file_offset = 0
     /\ \A p \in T : list[p].file_offset = 0 \/ \E q \in T : Behind(list[q]) = list[p].file_offset
     /\ \A p, q \in T : p < q => Behind(list[p]) <= list[q].file_offset
     /\ \A p \in T, q \in P :
          q # p /\ Behind(list[q]) <= list[p].end => list[q].file_offset < list[p].file_offset
     /\ \E l \in T :
          /\ \A q \in P : q # l => list[q].file_offset < list[l].file_offset
          /\ \A i \in ToSet(image.inodes) : i.inode = n =>
               list[l].file_offset < i.size /\ i.size <= Behind(list[l])

\* What is at the places of a file's extents, and in which order.
LEMMA PlaceFacts ==
  ASSUME IsImage(image), NEW n
  PROVE  LET list == image.extents
             P == PlacesOf(n)
         IN /\ P \subseteq Nat /\ Len(list) \in Nat
            /\ \A p \in P :
                 /\ p \in 1..Len(list) /\ p >= 1 /\ list[p].inode = n /\ list[p] \in ToSet(list)
                 /\ list[p] \in ExtentEntry
                 /\ list[p].file_offset \in Nat /\ list[p].offset \in Nat /\ list[p].end \in Nat
                 /\ list[p].size \in Nat /\ list[p].size > 0
                 /\ list[p].file_offset % SectorSize = 0
                 /\ Behind(list[p]) \in Nat /\ Behind(list[p]) <= list[p].end
            /\ \A p, q \in P : p < q =>
                 \/ list[p].end < list[q].end
                 \/ list[p].end = list[q].end /\ list[p].file_offset > list[q].file_offset
            /\ {x \in ToSet(list) : x.inode = n} = {list[p] : p \in P}
            /\ \A p, q \in P : list[p] = list[q] => p = q
<1> DEFINE list == image.extents
           P == PlacesOf(n)
<1>1. list \in Seq(ExtentEntry) /\ Len(list) \in Nat /\ DOMAIN list = 1..Len(list)
  BY DEF IsImage
<1>2. ToSet(list) = {list[i] : i \in 1..Len(list)}
  BY <1>1 DEF ToSet
<1>3. P = {i \in 1..Len(list) : list[i].inode = n}
  BY DEF PlacesOf
<1>4. \A i \in 1..Len(list) :
        /\ list[i] \in ExtentEntry
        /\ list[i].file_offset % SectorSize = 0
        /\ list[i].file_offset + list[i].size <= list[i].end
  BY ExtentFacts
<1>5. \A i, j \in 1..Len(list) : i < j /\ list[i].inode = list[j].inode =>
        \/ list[i].end < list[j].end
        \/ list[i].end = list[j].end /\ list[i].file_offset > list[j].file_offset
  BY ExtentFacts
<1> HIDE DEF list, P
<1>6. \A x \in ExtentEntry :
        x.file_offset \in Nat /\ x.offset \in Nat /\ x.end \in Nat /\ x.size \in Nat /\ x.size > 0
  BY DEF ExtentEntry
<1>7. P \subseteq Nat
  BY <1>1, <1>3
<1>8. ASSUME NEW p \in P
      PROVE  /\ p \in 1..Len(list) /\ p >= 1 /\ list[p].inode = n /\ list[p] \in ToSet(list)
             /\ list[p] \in ExtentEntry
             /\ list[p].file_offset \in Nat /\ list[p].offset \in Nat /\ list[p].end \in Nat
             /\ list[p].size \in Nat /\ list[p].size > 0
             /\ list[p].file_offset % SectorSize = 0
             /\ Behind(list[p]) \in Nat /\ Behind(list[p]) <= list[p].end
  <2>1. p \in 1..Len(list) /\ list[p].inode = n /\ list[p] \in ToSet(list)
    BY <1>2, <1>3
  <2>2. p >= 1
    BY <1>1, <2>1
  <2>3. /\ list[p] \in ExtentEntry /\ list[p].file_offset % SectorSize = 0
        /\ list[p].file_offset + list[p].size <= list[p].end
    BY <1>4, <2>1
  <2>4. /\ list[p].file_offset \in Nat /\ list[p].offset \in Nat /\ list[p].end \in Nat
        /\ list[p].size \in Nat /\ list[p].size > 0
    BY <1>6, <2>3
  <2>5. Behind(list[p]) \in Nat /\ Behind(list[p]) <= list[p].end
    BY <2>3, <2>4 DEF Behind
  <2>6. QED
    BY <2>1, <2>2, <2>3, <2>4, <2>5
<1>9. ASSUME NEW p \in P, NEW q \in P, p < q
      PROVE  \/ list[p].end < list[q].end
             \/ list[p].end = list[q].end /\ list[p].file_offset > list[q].file_offset
  BY <1>3, <1>5, <1>9
<1>10. {x \in ToSet(list) : x.inode = n} = {list[p] : p \in P}
  BY <1>2, <1>3
<1>11. ASSUME NEW p \in P, NEW q \in P, list[p] = list[q] PROVE p = q
  <2>1. /\ p \in Nat /\ q \in Nat /\ list[p].end \in Nat /\ list[p].file_offset \in Nat
    BY <1>7, <1>8
  <2>2. ~ (p < q)
    BY <1>9, <1>11, <2>1
  <2>3. ~ (q < p)
    BY <1>9, <1>11, <2>1
  <2>4. QED
    BY <2>1, <2>2, <2>3
<1>12. QED
  BY <1>1, <1>7, <1>8, <1>9, <1>10, <1>11 DEF list, P

\* A file without holes has such places.
LEMMA SolidTiles ==
  ASSUME IsImage(image), NEW n, Solid(n)
  PROVE  \E T : Tiled(n, T)
<1> DEFINE list == image.extents
           P == PlacesOf(n)
           X == {x \in ToSet(list) : x.inode = n}
<1>1. X = {list[p] : p \in P} /\ \A p, q \in P : list[p] = list[q] => p = q
  BY PlaceFacts
<1>2. P \subseteq Nat /\ \A p \in P :
        /\ list[p].file_offset \in Nat /\ list[p].size \in Nat /\ list[p].size > 0
        /\ list[p].end \in Nat /\ Behind(list[p]) \in Nat /\ Behind(list[p]) <= list[p].end
  BY PlaceFacts
<1>3. \A p, q \in P : p < q =>
        \/ list[p].end < list[q].end
        \/ list[p].end = list[q].end /\ list[p].file_offset > list[q].file_offset
  BY PlaceFacts
<1>4. PICK tiles \in SUBSET X :
        /\ Tile(tiles, X)
        /\ \E x \in tiles :
             /\ \A y \in X \ {x} : y.file_offset < x.file_offset
             /\ \A i \in ToSet(image.inodes) : i.inode = n =>
                  x.file_offset < i.size /\ i.size <= Behind(x)
  BY DEF Solid
<1>5. X \cap image.unread = {}
  BY DEF Solid
<1> HIDE DEF list, P, X
<1> DEFINE T == {p \in P : list[p] \in tiles}
<1>6. tiles = {list[p] : p \in T}
  BY <1>1
<1>7. /\ \E x \in tiles : x.file_offset = 0
      /\ \A x \in tiles : x.file_offset = 0 \/ \E y \in tiles : Behind(y) = x.file_offset
      /\ \A x, y \in tiles : x.file_offset < y.file_offset => Behind(x) <= y.file_offset
      /\ \A x \in tiles : \A y \in X \ {x} : Behind(y) <= x.end => y.file_offset < x.file_offset
  BY <1>4 DEF Tile
<1>8. \A p, q \in P : q # p => list[q] \in X \ {list[p]}
  BY <1>1
<1>9. \A p \in T, q \in P :
        q # p /\ Behind(list[q]) <= list[p].end => list[q].file_offset < list[p].file_offset
  BY <1>6, <1>7, <1>8
<1>10. ASSUME NEW p \in T, NEW q \in T, p < q PROVE Behind(list[p]) <= list[q].file_offset
  <2>1. /\ list[p].file_offset \in Nat /\ list[q].file_offset \in Nat
        /\ list[p].end \in Nat /\ list[q].end \in Nat
        /\ Behind(list[p]) \in Nat /\ Behind(list[p]) <= list[p].end
        /\ p \in Nat /\ q \in Nat
    BY <1>2
  <2>2. list[p].end <= list[q].end
    BY <1>3, <1>10, <2>1
  <2>3. Behind(list[p]) <= list[q].end /\ p # q
    BY <1>10, <2>1, <2>2
  <2>4. list[p].file_offset < list[q].file_offset
    BY <1>9, <2>3
  <2>5. QED
    BY <1>6, <1>7, <2>4
<1>11. /\ \E p \in T : list[p].file_offset = 0
       /\ \A p \in T : list[p].file_offset = 0 \/ \E q \in T : Behind(list[q]) = list[p].file_offset
  BY <1>6, <1>7
<1>12. \E l \in T :
         /\ \A q \in P : q # l => list[q].file_offset < list[l].file_offset
         /\ \A i \in ToSet(image.inodes) : i.inode = n =>
              list[l].file_offset < i.size /\ i.size <= Behind(list[l])
  <2>1. PICK x \in tiles :
          /\ \A y \in X \ {x} : y.file_offset < x.file_offset
          /\ \A i \in ToSet(image.inodes) : i.inode = n =>
               x.file_offset < i.size /\ i.size <= Behind(x)
    BY <1>4
  <2>2. PICK l \in T : x = list[l]
    BY <1>6
  <2>3. \A q \in P : q # l => list[q].file_offset < list[l].file_offset
    BY <1>8, <2>1, <2>2
  <2>4. QED
    BY <2>1, <2>2, <2>3
<1>13. \A p \in P : list[p] \notin image.unread
  BY <1>1, <1>5
<1>14. T \subseteq P
  OBVIOUS
<1> HIDE DEF T
<1>15. Tiled(n, T)
  BY <1>9, <1>10, <1>11, <1>12, <1>13, <1>14 DEF Tiled, list, P
<1>16. QED
  BY <1>15

\* What is known of the tiles of a file.
LEMMA TiledFacts ==
  ASSUME IsImage(image), NEW n, NEW T, Tiled(n, T)
  PROVE  /\ T \subseteq Nat /\ Len(image.extents) \in Nat
         /\ \A p \in T :
              LET x == image.extents[p] IN
              /\ p \in 1..Len(image.extents) /\ p >= 1 /\ x.inode = n
              /\ x \in ExtentEntry /\ x \in ToSet(image.extents) \ image.unread
              /\ x.file_offset \in Nat /\ x.offset \in Nat /\ x.size \in Nat /\ x.size > 0
              /\ x.file_offset % SectorSize = 0
              /\ \/ x.file_offset = 0
                 \/ \E q \in T : Behind(image.extents[q]) = x.file_offset
         /\ \A p, q \in T : p < q =>
              Behind(image.extents[p]) <= image.extents[q].file_offset
         /\ \E p \in T : image.extents[p].file_offset = 0
<1>1. T \subseteq PlacesOf(n)
  BY DEF Tiled
<1>2. \A p \in T : image.extents[p] \notin image.unread
  BY <1>1 DEF Tiled
<1>3. /\ PlacesOf(n) \subseteq Nat /\ Len(image.extents) \in Nat
      /\ \A p \in PlacesOf(n) :
           /\ p \in 1..Len(image.extents) /\ p >= 1 /\ image.extents[p].inode = n
           /\ image.extents[p] \in ExtentEntry /\ image.extents[p] \in ToSet(image.extents)
           /\ image.extents[p].file_offset \in Nat /\ image.extents[p].offset \in Nat
           /\ image.extents[p].size \in Nat /\ image.extents[p].size > 0
           /\ image.extents[p].file_offset % SectorSize = 0
  BY PlaceFacts
<1>4. /\ \E p \in T : image.extents[p].file_offset = 0
      /\ \A p \in T : \/ image.extents[p].file_offset = 0
                      \/ \E q \in T : Behind(image.extents[q]) = image.extents[p].file_offset
      /\ \A p, q \in T : p < q => Behind(image.extents[p]) <= image.extents[q].file_offset
  BY DEF Tiled
<1>5. QED
  BY <1>1, <1>2, <1>3, <1>4

\* Of two extents of the file that follow each other in the image, the one begins
\* where the other ends.
LEMMA Adjacent ==
  ASSUME IsImage(image), NEW n, NEW T, Tiled(n, T),
         NEW p \in T, NEW q \in T, p < q,
         \A k \in T : ~ (p < k /\ k < q)
  PROVE  Behind(image.extents[p]) = image.extents[q].file_offset
<1> DEFINE list == image.extents
           P == T
<1>1. p \in Nat /\ q \in Nat /\ P \subseteq Nat
  BY TiledFacts
<1>2. \A k \in P : list[k].file_offset \in Nat /\ list[k].size \in Nat /\ list[k].size > 0
  BY TiledFacts
<1>3. \A j, k \in P : j < k => Behind(list[j]) <= list[k].file_offset
  BY TiledFacts
<1>4. list[q].file_offset = 0 \/ \E k \in P : Behind(list[k]) = list[q].file_offset
  BY TiledFacts
<1> HIDE DEF list, P
<1>5. list[q].file_offset >= list[p].file_offset + list[p].size
  BY <1>3 DEF Behind, P
<1>6. PICK k \in P : Behind(list[k]) = list[q].file_offset
  BY <1>2, <1>4, <1>5 DEF P
<1>7. k \in Nat /\ list[k].file_offset + list[k].size = list[q].file_offset
  BY <1>1, <1>6 DEF Behind
<1>8. ~ (k < p)
  <2>1. k < p => list[k].file_offset + list[k].size <= list[p].file_offset
    BY <1>3 DEF Behind, P
  <2>2. /\ list[p].file_offset \in Nat /\ list[p].size \in Nat /\ list[p].size > 0
        /\ list[q].file_offset \in Nat
    BY <1>2 DEF P
  <2>3. k < p => list[q].file_offset <= list[p].file_offset
    BY <1>7, <2>1
  <2>4. ~ (list[q].file_offset <= list[p].file_offset)
    BY <1>5, <2>2
  <2>5. QED
    BY <2>3, <2>4
<1>9. ~ (q < k)
  <2>1. q < k => list[q].file_offset + list[q].size <= list[k].file_offset
    BY <1>3 DEF Behind, P
  <2>2. QED
    BY <1>2, <1>7, <2>1 DEF P
<1>10. k # q
  BY <1>2, <1>7 DEF P
<1>11. k = p
  BY <1>1, <1>7, <1>8, <1>9, <1>10 DEF P
<1>12. QED
  BY <1>6, <1>11 DEF list

\* Behind an extent that is not the last another one begins.
LEMMA NextExtent ==
  ASSUME IsImage(image), NEW n, NEW T, Tiled(n, T), NEW p \in T, NEW q \in T, p < q
  PROVE  \E k \in T : image.extents[k].file_offset = Behind(image.extents[p])
<1> DEFINE P == T
           N == Len(image.extents)
           S == {i \in 0..N : (\E k \in P : p < k /\ k <= i) =>
                              \E k \in P : image.extents[k].file_offset = Behind(image.extents[p])}
<1>1. P \subseteq Nat /\ N \in Nat /\ p \in Nat /\ q \in 1..N
  BY TiledFacts
<1>2. 0 \in S
  BY <1>1
<1>3. ASSUME NEW i \in 1..N, i - 1 \in S PROVE i \in S
  <2>1. CASE \E k \in P : p < k /\ k <= i - 1
    BY <1>3, <2>1
  <2>2. CASE ~ \E k \in P : p < k /\ k <= i - 1
    <3>1. ASSUME NEW k \in P, p < k, k <= i
          PROVE  image.extents[k].file_offset = Behind(image.extents[p])
      <4>1. k \in Nat /\ i \in Nat
        BY <1>1
      <4>2. \A j \in P : ~ (p < j /\ j < k)
        <5> SUFFICES ASSUME NEW j \in P, p < j, j < k PROVE FALSE
          OBVIOUS
        <5>1. j \in Nat /\ j <= i - 1
          BY <1>1, <3>1, <4>1
        <5>2. QED
          BY <2>2, <5>1
      <4>3. QED
        BY <3>1, <4>2, Adjacent
    <3>2. QED
      BY <3>1
  <2>3. QED
    BY <2>1, <2>2
<1> HIDE DEF S
<1>4. 0..N \subseteq S
  BY <1>1, <1>2, <1>3, UpTo
<1>5. q \in S
  BY <1>1, <1>4
<1>6. q \in P /\ p < q /\ q <= q
  BY <1>1
<1>7. QED
  BY <1>5, <1>6 DEF S


\* No extent of the file begins at the end of a tile or behind it unless a tile
\* begins there.
LEMMA NothingBehind ==
  ASSUME IsImage(image), NEW n, NEW T, Tiled(n, T), NEW q \in T, NEW k \in PlacesOf(n),
         image.extents[k].file_offset >= Behind(image.extents[q])
  PROVE  \E p \in T : image.extents[p].file_offset = Behind(image.extents[q])
<1> DEFINE list == image.extents
           P == PlacesOf(n)
<1>1. PICK l \in T : \A p \in P : p # l => list[p].file_offset < list[l].file_offset
  BY DEF Tiled
<1>2. T \subseteq P
  BY DEF Tiled
<1>3. P \subseteq Nat /\ \A p \in P :
        list[p].file_offset \in Nat /\ list[p].size \in Nat /\ list[p].size > 0
  BY PlaceFacts
<1>4. \A i, j \in T : i < j => Behind(list[i]) <= list[j].file_offset
  BY TiledFacts
<1> HIDE DEF list, P
<1>5. list[q].file_offset + list[q].size <= list[k].file_offset
  BY DEF Behind, list
<1>6. q # l
  <2>1. k # l => list[k].file_offset < list[l].file_offset
    BY <1>1 DEF P
  <2>2. k \in P /\ q \in P
    BY <1>2 DEF P
  <2>3. QED
    BY <1>3, <1>5, <2>1, <2>2
<1>7. q < l
  <2>1. list[q].file_offset < list[l].file_offset
    BY <1>1, <1>2, <1>6
  <2>2. l < q => list[l].file_offset + list[l].size <= list[q].file_offset
    BY <1>4 DEF Behind
  <2>3. q \in Nat /\ l \in Nat
    BY <1>2, <1>3
  <2>4. QED
    BY <1>2, <1>3, <1>6, <2>1, <2>2, <2>3
<1>8. QED
  BY <1>7, NextExtent DEF list

\* What is looked up where a tile ends, or at the beginning, is the tile that begins
\* there: whatever the scan passes begins in front of it.
LEMMA FindsNext ==
  ASSUME IsImage(image), NEW n, NEW T, Tiled(n, T), NEW offset,
         offset = 0 \/ \E p \in T : offset = Behind(image.extents[p])
  PROVE  /\ \A p \in T :
              image.extents[p].file_offset = offset =>
                FindExtent(image, n, offset) = image.extents[p]
         /\ (\A p \in T : image.extents[p].file_offset # offset) =>
              FindExtent(image, n, offset) = None
<1> DEFINE list == image.extents
           P == PlacesOf(n)
           N == Len(list)
           Begins(x) == (IF x \in image.unread THEN x.end ELSE x.file_offset) \div SectorSize
           InFront(x) == x.inode < n \/ (x.inode = n /\ Begins(x) < Sector(offset))
           stops == {i \in DOMAIN list : ~InFront(list[i]) /\ \A j \in 1..(i - 1) : InFront(list[j])}
           hits == {x \in {list[i] : i \in stops} \ image.unread :
                      x.inode = n /\ Begins(x) = Sector(offset)}
<1>1. list \in Seq(ExtentEntry) /\ DOMAIN list = 1..N /\ N \in Nat
  BY DEF IsImage
<1>2. P = {i \in 1..N : list[i].inode = n} /\ T \subseteq P
  BY DEF PlacesOf, Tiled
<1>3. P \subseteq Nat /\ \A p \in P :
        /\ list[p].file_offset \in Nat /\ list[p].size \in Nat /\ list[p].size > 0
        /\ list[p].file_offset % SectorSize = 0 /\ list[p].end \in Nat
        /\ Behind(list[p]) \in Nat /\ Behind(list[p]) <= list[p].end
  BY PlaceFacts
<1>4. \A p \in P : list[p] \notin image.unread
  BY DEF Tiled
<1>5. FindExtent(image, n, offset) = Found(hits)
  BY DEF FindExtent
<1>6. \A i, j \in 1..N : i < j => list[i].inode <= list[j].inode
  BY ExtentFacts
<1>7. \A p, q \in P : p < q =>
        \/ list[p].end < list[q].end
        \/ list[p].end = list[q].end /\ list[p].file_offset > list[q].file_offset
  BY PlaceFacts
<1>8. \A p \in T, q \in P :
        q # p /\ Behind(list[q]) <= list[p].end => list[q].file_offset < list[p].file_offset
  BY DEF Tiled
<1>9. \A i \in 1..N : list[i].inode \in Nat
  <2>1. \A i \in 1..N : list[i] \in ExtentEntry
    BY ExtentFacts
  <2>2. \A x \in ExtentEntry : x.inode \in Nat
    BY DEF ExtentEntry
  <2> HIDE DEF list
  <2>3. QED
    BY <2>1, <2>2
<1>10. \A p \in P : Begins(list[p]) = list[p].file_offset \div SectorSize
  BY <1>4
<1> HIDE DEF list, P, N
<1>11. offset \in Nat
  <2>1. ASSUME NEW p \in T, offset = Behind(list[p]) PROVE offset \in Nat
    BY <1>2, <1>3, <2>1
  <2>2. QED
    BY <2>1 DEF list
<1>12. PICK S \in Nat : S = SectorSize /\ S > 0
  BY SectorAssumption
<1>13. ASSUME NEW p \in T, list[p].file_offset = offset
       PROVE  FindExtent(image, n, offset) = list[p]
  <2>1. p \in P /\ p \in 1..N /\ list[p].inode = n /\ p \in Nat /\ n \in Nat
    BY <1>2, <1>3, <1>9
  <2>2. offset % SectorSize = 0
    BY <1>3, <1>13, <2>1
  <2>3. PICK o \in Nat : o = offset
    BY <1>11
  <2>4. PICK d \in Nat : d = o \div S
    BY <1>12
  <2>5. o = S * d /\ Sector(offset) = d
    BY <1>12, <2>2, <2>3, <2>4 DEF Sector
  <2>6. Begins(list[p]) = Sector(offset)
    BY <1>10, <1>12, <1>13, <2>1, <2>3, <2>4, <2>5
  <2>7. ~ InFront(list[p])
    BY <2>1, <2>5, <2>6
  <2>8. ASSUME NEW j \in 1..N, j < p PROVE InFront(list[j])
    <3>1. list[j].inode <= n /\ list[j].inode \in Nat
      BY <1>6, <1>9, <2>1, <2>8
    <3>2. CASE list[j].inode = n
      <4>1. j \in P /\ j # p /\ j \in Nat
        BY <1>1, <1>2, <1>3, <2>1, <2>8, <3>2
      <4>2. list[j].end <= list[p].end
        BY <1>3, <1>7, <2>1, <2>8, <4>1
      <4>3. Behind(list[j]) <= list[p].end
        BY <1>3, <2>1, <4>1, <4>2
      <4>4. list[j].file_offset < o
        BY <1>8, <1>13, <2>3, <4>1, <4>3
      <4>5. PICK x \in Nat : x = list[j].file_offset /\ x % S = 0
        <5>1. list[j].file_offset \in Nat /\ list[j].file_offset % SectorSize = 0
          BY <1>3, <4>1
        <5>2. QED
          BY <1>12, <5>1
      <4>6. PICK e \in Nat : e = x \div S
        BY <1>12
      <4>7. x = S * e
        <5>1. S > 0 /\ x % S = 0 /\ e = x \div S
          BY <1>12, <4>5, <4>6
        <5>2. QED
          BY <5>1
      <4>8. e < d
        <5>1. ASSUME e >= d PROVE FALSE
          <6>1. PICK h \in Nat : e = d + h
            <7>1. e - d \in Nat /\ e = d + (e - d)
              BY <5>1, <2>4, <4>6
            <7>2. QED
              BY <7>1
          <6>2. S * e = S * d + S * h /\ S * h \in Nat
            BY <6>1
          <6>3. QED
            BY <2>5, <4>4, <4>5, <4>7, <6>2
        <5>2. QED
          BY <2>4, <4>6, <5>1
      <4>9. Begins(list[j]) = e
        BY <1>10, <1>12, <4>1, <4>5, <4>6
      <4>10. QED
        BY <2>5, <3>2, <4>8, <4>9
    <3>3. CASE list[j].inode # n
      <4>1. list[j].inode < n
        BY <2>1, <3>1, <3>3
      <4>2. QED
        BY <4>1
    <3>4. QED
      BY <3>2, <3>3
  <2> HIDE DEF InFront, Begins
  <2>9. stops = {p}
    <3>1. p \in stops
      <4>1. \A j \in 1..(p - 1) : j \in 1..N /\ j < p
        BY <1>1, <2>1
      <4>2. QED
        BY <1>1, <2>1, <2>7, <2>8, <4>1
    <3>2. ASSUME NEW i \in stops, i # p PROVE FALSE
      <4>1. i \in 1..N /\ ~ InFront(list[i]) /\ \A j \in 1..(i - 1) : InFront(list[j])
        BY <1>1
      <4>2. ~ (i < p)
        BY <2>8, <4>1
      <4>3. p \in 1..(i - 1)
        BY <1>1, <2>1, <3>2, <4>1, <4>2
      <4>4. QED
        BY <2>7, <4>1, <4>3
    <3>3. QED
      BY <3>1, <3>2
  <2>10. list[p] \in hits /\ \A x \in hits : x = list[p]
    BY <1>4, <2>1, <2>6, <2>9
  <2> HIDE DEF hits, stops
  <2>11. QED
    BY <1>5, <2>10, FoundOnly
<1>14. ASSUME \A p \in T : list[p].file_offset # offset
       PROVE  FindExtent(image, n, offset) = None
  <2>1. ASSUME NEW x \in hits PROVE FALSE
    <3>1. PICK k \in P : x = list[k]
      BY <1>1, <1>2
    <3>2. list[k].file_offset \div SectorSize = Sector(offset)
      BY <1>10, <2>1, <3>1
    <3>3. PICK y \in Nat : y = list[k].file_offset /\ y % S = 0
      BY <1>3, <1>12, <3>1
    <3>4. PICK d \in Nat : d = y \div S
      BY <1>12
    <3>5. y = S * d
      BY <1>12, <3>3, <3>4
    <3>6. PICK o \in Nat : o = offset
      BY <1>11
    <3>7. PICK e \in Nat, r \in Nat : e = o \div S /\ r = o % S /\ o = S * e + r
      BY <1>12
    <3>8. d = e + r
      BY <1>12, <3>2, <3>3, <3>4, <3>6, <3>7 DEF Sector
    <3>9. y >= o
      <4>1. S * d = S * e + S * r
        BY <1>12, <3>7, <3>8
      <4>2. S * r >= r
        <5>1. PICK h \in Nat : S = h + 1
          <6>1. S - 1 \in Nat /\ S = (S - 1) + 1
            BY <1>12
          <6>2. QED
            BY <6>1
        <5>2. S * r = h * r + r /\ h * r \in Nat
          BY <3>7, <5>1
        <5>3. QED
          BY <3>7, <5>2
      <4>3. QED
        BY <3>5, <3>7, <4>1, <4>2
    <3>10. offset # 0
      BY <1>14, TiledFacts DEF list
    <3>11. PICK q \in T : offset = Behind(list[q])
      BY <3>10 DEF list
    <3>12. list[k].file_offset >= Behind(list[q])
      BY <3>3, <3>6, <3>9, <3>11
    <3>13. \E p \in T : list[p].file_offset = Behind(list[q])
      BY <3>1, <3>12, NothingBehind DEF list, P
    <3>14. QED
      BY <1>14, <3>11, <3>13
  <2>2. hits = {}
    BY <2>1
  <2> HIDE DEF hits
  <2>3. QED
    BY <1>5, <2>2, FoundNone
<1>15. QED
  BY <1>13, <1>14 DEF list

\* A run of extents of the file and the one that is looked up behind it.
Grown(n, r) ==
  LET next == FindExtent(image, n, IF r = <<>> THEN 0 ELSE Behind(Last(r)))
  IN IF next = None THEN r ELSE Append(r, next)

\* A list with an extent of the image appended is a list of extents.
LEMMA GrownIn ==
  ASSUME IsImage(image), NEW n, NEW r \in Seq(ExtentEntry)
  PROVE  Grown(n, r) \in Seq(ExtentEntry)
<1> DEFINE offset == IF r = <<>> THEN 0 ELSE Behind(Last(r))
           next == FindExtent(image, n, offset)
<1>1. image.extents \in Seq(ExtentEntry) /\ DOMAIN image.extents = 1..Len(image.extents)
  BY DEF IsImage
<1>2. ToSet(image.extents) \subseteq ExtentEntry
  BY <1>1, ExtentFacts DEF ToSet
<1>3. next = None \/ next \in ToSet(image.extents)
  <2> DEFINE Begins(x) == (IF x \in image.unread THEN x.end ELSE x.file_offset) \div SectorSize
             InFront(x) == x.inode < n \/ (x.inode = n /\ Begins(x) < Sector(offset))
             stops == {i \in DOMAIN image.extents :
                         /\ ~InFront(image.extents[i])
                         /\ \A j \in 1..(i - 1) : InFront(image.extents[j])}
             hits == {x \in {image.extents[i] : i \in stops} \ image.unread :
                        x.inode = n /\ Begins(x) = Sector(offset)}
  <2>1. next = Found(hits)
    BY DEF FindExtent
  <2> HIDE DEF InFront
  <2>2. stops \subseteq DOMAIN image.extents
    OBVIOUS
  <2> HIDE DEF Begins, stops
  <2>3. \A x \in hits : x \in ToSet(image.extents)
    BY <2>2 DEF ToSet
  <2> HIDE DEF hits, next
  <2>4. QED
    BY <2>1, <2>3, FoundIn
<1> HIDE DEF next
<1>4. Grown(n, r) = IF next = None THEN r ELSE Append(r, next)
  BY DEF Grown, next
<1>5. next # None => Append(r, next) \in Seq(ExtentEntry)
  BY <1>2, <1>3
<1>6. QED
  BY <1>4, <1>5

\* The mount's search for all extents of a file, one by one.
LEMMA ChainRuns ==
  ASSUME IsImage(image), NEW n
  PROVE  \E run \in [0..Len(image.extents) -> Seq(ExtentEntry)] :
           /\ run[0] = <<>>
           /\ \A i \in 1..Len(image.extents) : run[i] = Grown(n, run[i - 1])
           /\ Chain(image, n) = run[Len(image.extents)]
<1> DEFINE N == Len(image.extents)
           V == Seq(ExtentEntry)
           step == [t \in (1..N) \X V |-> Grown(n, t[2])]
           IsRun(f) == f = [i \in 0..N |->
                         IF i = 0 THEN <<>>
                         ELSE LET offset == IF f[i - 1] = <<>> THEN 0 ELSE Behind(Last(f[i - 1]))
                                  next == FindExtent(image, n, offset)
                              IN IF next = None THEN f[i - 1] ELSE Append(f[i - 1], next)]
           run == CHOOSE f : IsRun(f)
<1>1. N \in Nat /\ <<>> \in V
  BY DEF IsImage
<1>2. step \in [(1..N) \X V -> V]
  BY GrownIn
<1>3. \A i \in 1..N, v \in V : step[<<i, v>>] = Grown(n, v)
  OBVIOUS
<1> HIDE DEF step, N, V
<1>4. PICK f \in [0..N -> V] : f[0] = <<>> /\ \A i \in 1..N : f[i] = step[<<i, f[i - 1]>>]
  <2>1. Runs(N, V, <<>>, step) # {}
    BY <1>1, <1>2, Recursion
  <2>2. QED
    BY <2>1 DEF Runs
<1>5. \A i \in 1..N : i - 1 \in 0..N /\ f[i - 1] \in V
  <2>1. \A i \in 1..N : i - 1 \in 0..N
    BY <1>1
  <2>2. QED
    BY <1>4, <2>1
<1>6. \A i \in 0..N : f[i] = IF i = 0 THEN <<>> ELSE Grown(n, f[i - 1])
  <2>1. \A i \in 1..N : f[i] = Grown(n, f[i - 1]) /\ i # 0
    <3> SUFFICES ASSUME NEW i \in 1..N PROVE f[i] = Grown(n, f[i - 1])
      OBVIOUS
    <3>1. f[i] = step[<<i, f[i - 1]>>] /\ f[i - 1] \in V
      BY <1>4, <1>5
    <3>2. QED
      BY <1>3, <3>1
  <2>2. \A i \in 0..N : i = 0 \/ i \in 1..N
    BY <1>1
  <2>3. QED
    BY <1>4, <2>1, <2>2
<1>7. f = [i \in 0..N |-> IF i = 0 THEN <<>> ELSE Grown(n, f[i - 1])]
  BY <1>6
<1>8. IsRun(f)
  BY <1>7 DEF Grown
<1>9. IsRun(run)
  BY <1>8, Zenon
<1>10. run = [i \in 0..N |-> IF i = 0 THEN <<>> ELSE Grown(n, run[i - 1])]
  BY <1>9 DEF Grown
<1>11. Chain(image, n) = run[N]
  BY DEF Chain, N
<1> HIDE DEF run
<1>12. run[0] = <<>> /\ \A i \in 1..N : run[i] = Grown(n, run[i - 1])
  BY <1>1, <1>10
<1>13. \A i \in 0..N : run[i] \in V
  <2> DEFINE S == {i \in 0..N : run[i] \in V}
  <2>1. \A i \in 1..N : i - 1 \in S => i \in S
    BY <1>1, <1>12, GrownIn DEF V
  <2>2. 0 \in S
    BY <1>1, <1>12
  <2> HIDE DEF S
  <2>3. 0..N \subseteq S
    BY <1>1, <2>1, <2>2, UpTo
  <2>4. QED
    BY <2>3 DEF S
<1>14. run \in [0..N -> V]
  BY <1>10, <1>13
<1>15. QED
  BY <1>11, <1>12, <1>14 DEF N, V

\* Extents one behind the other, from the beginning of the file.
IsTiling(r) ==
  /\ r \in Seq(ExtentEntry)
  /\ \A m \in 1..Len(r) : r[m].file_offset = IF m = 1 THEN 0 ELSE Behind(r[m - 1])

\* A run grows by the extent that begins where it ends, as long as there is one.
LEMMA RunGrows ==
  ASSUME IsImage(image), NEW n, NEW T, Tiled(n, T), NEW r, IsTiling(r),
         \A m \in 1..Len(r) : \E p \in T : p >= m /\ r[m] = image.extents[p]
  PROVE  \/ /\ Grown(n, r) = r /\ r # <<>>
            /\ \A p \in T : image.extents[p].file_offset # Behind(Last(r))
         \/ \E p \in T :
              /\ p >= Len(r) + 1
              /\ Grown(n, r) = Append(r, image.extents[p])
              /\ IsTiling(Append(r, image.extents[p]))
<1> DEFINE list == image.extents
           P == T
           offset == IF r = <<>> THEN 0 ELSE Behind(Last(r))
           next == FindExtent(image, n, offset)
<1>1. r \in Seq(ExtentEntry) /\ Len(r) \in Nat /\ (r = <<>> <=> Len(r) = 0)
  BY DEF IsTiling
<1>2. P \subseteq Nat /\ \A p \in P :
        /\ p >= 1 /\ list[p] \in ExtentEntry
        /\ list[p].file_offset \in Nat /\ list[p].size \in Nat /\ list[p].size > 0
  BY TiledFacts
<1>3. \A p, q \in P : p < q => Behind(list[p]) <= list[q].file_offset
  BY TiledFacts
<1>4. \E p \in P : list[p].file_offset = 0
  BY TiledFacts
<1>5. None \notin ToSet(list)
  BY NotNone
<1>6. \A p \in P : list[p] \in ToSet(list)
  BY TiledFacts
<1>7. Grown(n, r) = IF next = None THEN r ELSE Append(r, next)
  BY DEF Grown
<1> HIDE DEF list, P, next, offset
<1>8. ASSUME r # <<>>
      PROVE  \E p \in P : p >= Len(r) /\ Last(r) = list[p] /\ offset = Behind(list[p])
  <2>1. Len(r) \in 1..Len(r) /\ Last(r) = r[Len(r)]
    BY <1>1, <1>8 DEF Last
  <2>2. PICK p \in P : p >= Len(r) /\ r[Len(r)] = list[p]
    BY <2>1 DEF P, list
  <2>3. QED
    BY <1>8, <2>1, <2>2 DEF offset
<1>9. offset = 0 \/ \E p \in P : offset = Behind(list[p])
  BY <1>8 DEF offset
<1>10. CASE \A p \in P : list[p].file_offset # offset
  <2>1. next = None
    BY <1>9, <1>10, FindsNext DEF next, list, P
  <2>2. offset # 0
    BY <1>4, <1>10
  <2>3. r # <<>> /\ offset = Behind(Last(r))
    BY <2>2 DEF offset
  <2>4. QED
    BY <1>7, <1>10, <2>1, <2>3 DEF list, P
<1>11. CASE \E p \in P : list[p].file_offset = offset
  <2>1. PICK p \in P : list[p].file_offset = offset
    BY <1>11
  <2>2. next = list[p]
    BY <1>9, <2>1, FindsNext DEF next, list, P
  <2>3. next # None
    BY <1>5, <1>6, <2>2
  <2>4. Grown(n, r) = Append(r, list[p])
    BY <1>7, <2>2, <2>3
  <2>5. p >= Len(r) + 1
    <3>1. CASE r = <<>>
      BY <1>1, <1>2, <3>1
    <3>2. CASE r # <<>>
      <4>1. PICK q \in P : q >= Len(r) /\ offset = list[q].file_offset + list[q].size
        BY <1>8, <3>2 DEF Behind
      <4>2. ~ (p < q)
        <5>1. p < q => list[p].file_offset + list[p].size <= list[q].file_offset
          BY <1>3 DEF Behind
        <5>2. QED
          BY <1>2, <2>1, <4>1, <5>1
      <4>3. p # q
        BY <1>2, <2>1, <4>1
      <4>4. p \in Nat /\ q \in Nat
        BY <1>2
      <4>5. QED
        BY <1>1, <4>1, <4>2, <4>3, <4>4
    <3>3. QED
      BY <3>1, <3>2
  <2>6. IsTiling(Append(r, list[p]))
    <3>1. list[p] \in ExtentEntry
      BY <1>2
    <3>2. PICK s : s = Append(r, list[p])
      OBVIOUS
    <3>3. /\ s \in Seq(ExtentEntry) /\ Len(s) = Len(r) + 1
          /\ \A m \in 1..Len(r) : s[m] = r[m]
          /\ s[Len(r) + 1] = list[p]
      BY <1>1, <3>1, <3>2
    <3>4. ASSUME NEW m \in 1..Len(s)
          PROVE  s[m].file_offset = IF m = 1 THEN 0 ELSE Behind(s[m - 1])
      <4>1. CASE m \in 1..Len(r)
        <5>1. m # 1 => m - 1 \in 1..Len(r)
          BY <1>1, <4>1
        <5>2. r[m].file_offset = IF m = 1 THEN 0 ELSE Behind(r[m - 1])
          BY <4>1 DEF IsTiling
        <5>3. QED
          BY <3>3, <4>1, <5>1, <5>2
      <4>2. CASE m = Len(r) + 1
        <5>1. CASE r = <<>>
          BY <1>1, <2>1, <3>3, <4>2, <5>1 DEF offset
        <5>2. CASE r # <<>>
          <6>1. m # 1 /\ m - 1 = Len(r) /\ Len(r) \in 1..Len(r)
            BY <1>1, <4>2, <5>2
          <6>2. s[m - 1] = Last(r)
            BY <3>3, <6>1 DEF Last
          <6>3. QED
            BY <2>1, <3>3, <4>2, <5>2, <6>1, <6>2 DEF offset
        <5>3. QED
          BY <5>1, <5>2
      <4>3. QED
        BY <1>1, <3>3, <4>1, <4>2
    <3>5. QED
      BY <3>2, <3>3, <3>4 DEF IsTiling
  <2>7. QED
    BY <2>4, <2>5, <2>6 DEF list, P
<1>12. QED
  BY <1>10, <1>11


\* An open by the mount takes all extents of a file without holes, in order.
LEMMA ChainIs ==
  ASSUME IsImage(image), NEW n, NEW T, Tiled(n, T)
  PROVE  /\ IsTiling(Chain(image, n))
         /\ Chain(image, n) # <<>>
         /\ \A m \in 1..Len(Chain(image, n)) :
              \E p \in T : Chain(image, n)[m] = image.extents[p]
         /\ \A p \in T :
              /\ \E m \in 1..Len(Chain(image, n)) : Chain(image, n)[m] = image.extents[p]
              /\ Behind(image.extents[p]) <= Behind(Last(Chain(image, n)))
<1> DEFINE list == image.extents
           P == T
           N == Len(image.extents)
           IsEnd(r) == /\ Grown(n, r) = r /\ r # <<>>
                       /\ \A p \in P : list[p].file_offset # Behind(Last(r))
           IsRun(r) == /\ IsTiling(r)
                       /\ \A m \in 1..Len(r) : \E p \in P : p >= m /\ r[m] = list[p]
<1>1. P \subseteq Nat /\ N \in Nat /\ \A p \in P :
        /\ p \in 1..N
        /\ list[p].file_offset \in Nat /\ list[p].size \in Nat /\ list[p].size > 0
        /\ list[p].file_offset = 0 \/ \E q \in P : Behind(list[q]) = list[p].file_offset
  BY TiledFacts
<1>2. \A p, q \in P : p < q => Behind(list[p]) <= list[q].file_offset
  BY TiledFacts
<1>3. PICK run \in [0..N -> Seq(ExtentEntry)] :
        /\ run[0] = <<>>
        /\ \A i \in 1..N : run[i] = Grown(n, run[i - 1])
        /\ Chain(image, n) = run[N]
  BY ChainRuns
<1> DEFINE S == {i \in 0..N : IsRun(run[i]) /\ (Len(run[i]) = i \/ IsEnd(run[i]))}
<1>4. 0 \in S
  BY <1>1, <1>3 DEF IsTiling
<1> HIDE DEF list, P
<1>5. ASSUME NEW i \in 1..N, i - 1 \in S PROVE i \in S
  <2>1. PICK r : r = run[i - 1]
    OBVIOUS
  <2>2. IsRun(r) /\ (Len(r) = i - 1 \/ IsEnd(r)) /\ run[i] = Grown(n, r)
    BY <1>3, <1>5, <2>1
  <2>3. Len(r) \in Nat /\ r \in Seq(ExtentEntry)
    BY <2>2 DEF IsTiling
  <2>4. \/ IsEnd(r)
        \/ \E p \in P : /\ p >= Len(r) + 1
                        /\ Grown(n, r) = Append(r, list[p])
                        /\ IsTiling(Append(r, list[p]))
    BY <2>2, RunGrows DEF P, list
  <2>5. CASE IsEnd(r)
    <3>1. run[i] = r
      BY <2>2, <2>5
    <3>2. QED
      BY <1>1, <2>2, <2>5, <3>1
  <2>6. CASE ~ IsEnd(r)
    <3>1. PICK p \in P : /\ p >= Len(r) + 1
                         /\ run[i] = Append(r, list[p])
                         /\ IsTiling(Append(r, list[p]))
      BY <2>2, <2>4, <2>6
    <3>2. PICK s : s = run[i]
      OBVIOUS
    <3>3. Len(s) = Len(r) + 1 /\ s[Len(r) + 1] = list[p] /\ \A m \in 1..Len(r) : s[m] = r[m]
      BY <2>3, <3>1, <3>2
    <3>4. \A m \in 1..Len(s) : \E q \in P : q >= m /\ s[m] = list[q]
      <4> SUFFICES ASSUME NEW m \in 1..Len(s) PROVE \E q \in P : q >= m /\ s[m] = list[q]
        OBVIOUS
      <4>1. m \in 1..Len(r) \/ m = Len(r) + 1
        BY <2>3, <3>3
      <4>2. QED
        BY <2>2, <3>1, <3>3, <4>1
    <3>5. IsRun(s) /\ Len(s) = i
      BY <2>2, <2>3, <2>6, <3>1, <3>2, <3>3, <3>4
    <3>6. QED
      BY <1>1, <3>2, <3>5
  <2>7. QED
    BY <2>5, <2>6
<1> HIDE DEF S
<1>6. 0..N \subseteq S
  BY <1>1, <1>4, <1>5, UpTo
<1>7. N \in S
  BY <1>1, <1>6
<1>8. PICK r : r = Chain(image, n)
  OBVIOUS
<1>9. IsRun(r) /\ (Len(r) = N \/ IsEnd(r))
  BY <1>3, <1>7, <1>8 DEF S
<1>10. r \in Seq(ExtentEntry) /\ Len(r) \in Nat
  BY <1>9 DEF IsTiling
<1>11. r # <<>> /\ Len(r) >= 1
  <2>1. N >= 1
    BY <1>1, TiledFacts DEF P, list
  <2>2. QED
    BY <1>9, <1>10, <2>1
<1>12. \A p \in P : list[p].file_offset # Behind(r[Len(r)])
  <2>1. CASE IsEnd(r)
    BY <2>1 DEF Last
  <2>2. CASE Len(r) = N
    <3>1. PICK q \in P : q >= N /\ r[N] = list[q]
      BY <1>9, <1>11, <2>2
    <3>2. q = N
      BY <1>1, <3>1
    <3> SUFFICES ASSUME NEW p \in P, list[p].file_offset = list[q].file_offset + list[q].size
                 PROVE  FALSE
      BY <2>2, <3>1 DEF Behind
    <3>3. p < q => list[p].file_offset + list[p].size <= list[q].file_offset
      BY <1>2 DEF Behind
    <3>4. p <= q
      BY <1>1, <3>2
    <3>5. QED
      BY <1>1, <3>3, <3>4
  <2>3. QED
    BY <1>9, <2>1, <2>2
<1> DEFINE Had == {i \in 0..N : \A p \in P : p <= i => \E m \in 1..Len(r) : r[m] = list[p]}
<1>13. 0 \in Had
  BY <1>1
<1>14. ASSUME NEW i \in 1..N, i - 1 \in Had PROVE i \in Had
  <2>4. i \in 0..N
    BY <1>1
  <2> SUFFICES ASSUME NEW p \in P, p <= i PROVE \E m \in 1..Len(r) : r[m] = list[p]
    BY <2>4
  <2>1. CASE p <= i - 1
    BY <1>14, <2>1
  <2>2. CASE ~ (p <= i - 1)
    <3>1. p = i
      BY <1>1, <2>2
    <3>2. CASE list[p].file_offset = 0
      <4>1. 1 \in 1..Len(r) /\ r[1].file_offset = 0
        BY <1>9, <1>10, <1>11 DEF IsTiling
      <4>2. PICK q \in P : r[1] = list[q]
        BY <1>9, <4>1
      <4>3. /\ p < q => list[p].file_offset + list[p].size <= list[q].file_offset
            /\ q < p => list[q].file_offset + list[q].size <= list[p].file_offset
        BY <1>2 DEF Behind
      <4>4. p = q
        <5>1. list[q].file_offset = 0
          BY <4>1, <4>2
        <5>2. /\ p \in Nat /\ list[p].size \in Nat /\ list[p].size > 0
              /\ q \in Nat /\ list[q].size \in Nat /\ list[q].size > 0
          BY <1>1
        <5>3. ~ (p < q)
          BY <3>2, <4>3, <5>1, <5>2
        <5>4. ~ (q < p)
          BY <3>2, <4>3, <5>1, <5>2
        <5>5. QED
          BY <5>2, <5>3, <5>4
      <4>5. QED
        BY <4>1, <4>2, <4>4
    <3>3. CASE list[p].file_offset # 0
      <4>1. PICK q \in P : list[q].file_offset + list[q].size = list[p].file_offset
        BY <1>1, <3>3 DEF Behind
      <4>2. q <= i - 1
        <5>1. p < q => list[p].file_offset + list[p].size <= list[q].file_offset
          BY <1>2 DEF Behind
        <5>2. ~ (p < q) /\ p # q
          <6>1. /\ list[p].size \in Nat /\ list[p].size > 0
                /\ list[q].size \in Nat /\ list[q].size > 0
                /\ list[p].file_offset \in Nat /\ list[q].file_offset \in Nat
            BY <1>1
          <6>2. list[q].file_offset < list[p].file_offset
            BY <4>1, <6>1
          <6>3. ~ (list[p].file_offset + list[p].size <= list[q].file_offset)
            BY <6>1, <6>2
          <6>4. QED
            BY <5>1, <6>2, <6>1, <6>3
        <5>3. p \in Nat /\ q \in Nat
          BY <1>1
        <5>4. QED
          BY <3>1, <5>2, <5>3
      <4>3. PICK m \in 1..Len(r) : r[m] = list[q]
        BY <1>14, <4>2
      <4>4. m # Len(r)
        BY <1>12, <4>1, <4>3 DEF Behind
      <4>5. m + 1 \in 1..Len(r) /\ m + 1 # 1 /\ (m + 1) - 1 = m
        BY <1>10, <4>4
      <4>6. r[m + 1].file_offset = list[p].file_offset
        BY <1>9, <4>1, <4>3, <4>5, SMTT(30) DEF IsTiling, Behind
      <4>7. PICK k \in P : r[m + 1] = list[k]
        BY <1>9, <4>5
      <4>8. /\ p < k => list[p].file_offset + list[p].size <= list[k].file_offset
            /\ k < p => list[k].file_offset + list[k].size <= list[p].file_offset
        BY <1>2 DEF Behind
      <4>9. p = k
        BY <1>1, <4>6, <4>7, <4>8, SMTT(30)
      <4>10. QED
        BY <4>5, <4>7, <4>9
    <3>4. QED
      BY <3>2, <3>3
  <2>3. QED
    BY <2>1, <2>2
<1> HIDE DEF Had
<1>15. 0..N \subseteq Had
  BY <1>1, <1>13, <1>14, UpTo
<1>16. N \in Had
  BY <1>1, <1>15
<1>17. \A p \in P : \E m \in 1..Len(r) : r[m] = list[p]
  BY <1>1, <1>16 DEF Had
<1>18. ASSUME NEW p \in P PROVE Behind(list[p]) <= Behind(Last(r))
  <2>1. PICK q \in P : r[Len(r)] = list[q]
    BY <1>9, <1>10, <1>11
  <2>2. p \in Nat /\ q \in Nat
    BY <1>1
  <2>3. ~ (q < p)
    BY <1>12, <2>1, NextExtent DEF list, P
  <2>4. p < q => Behind(list[p]) <= list[q].file_offset
    BY <1>2
  <2>5. Last(r) = list[q]
    BY <2>1 DEF Last
  <2>6. QED
    BY <1>1, <2>2, <2>3, <2>4, <2>5, SMTT(30) DEF Behind
<1>19. QED
  BY <1>8, <1>9, <1>11, <1>17, <1>18 DEF list, P


\* The bytes of the image that an extent is.
BytesOf(x) == {<<x.file_offset + k, x.offset + k>> : k \in 0..(x.size - 1)}

\* The bytes of a list are the bytes of its extents.
LEMMA BytesAre ==
  ASSUME NEW r \in Seq(ExtentEntry), NEW b
  PROVE  b \in Bytes(r) <=> \E m \in 1..Len(r) : b \in BytesOf(r[m])
BY DEF Bytes, BytesOf

\* Two extents that are merged have the bytes of both.
LEMMA MergedBytes ==
  ASSUME NEW x \in ExtentEntry, NEW y \in ExtentEntry,
         Behind(x) = y.file_offset, x.offset + x.size = y.offset
  PROVE  LET z == [x EXCEPT !.size = @ + y.size] IN
         /\ z \in ExtentEntry /\ z.file_offset = x.file_offset
         /\ Behind(z) = Behind(y)
         /\ BytesOf(z) = BytesOf(x) \cup BytesOf(y)
<1> DEFINE z == [x EXCEPT !.size = @ + y.size]
<1>1. PICK f \in Nat, o \in Nat, s \in Nat, t \in Nat :
        /\ f = x.file_offset /\ o = x.offset /\ s = x.size /\ t = y.size
        /\ s > 0 /\ t > 0
  BY DEF ExtentEntry
<1>2. z \in ExtentEntry /\ z.file_offset = f /\ z.offset = o /\ z.size = s + t
  BY <1>1 DEF ExtentEntry
<1>3. y.file_offset = f + s /\ y.offset = o + s
  BY <1>1 DEF Behind
<1>4. BytesOf(x) = {<<f + k, o + k>> : k \in 0..(s - 1)}
  BY <1>1 DEF BytesOf
<1>5. BytesOf(y) = {<<f + s + k, o + s + k>> : k \in 0..(t - 1)}
  BY <1>1, <1>3 DEF BytesOf
<1> HIDE DEF z
<1>6. BytesOf(z) = {<<f + k, o + k>> : k \in 0..(s + t - 1)}
  BY <1>2 DEF BytesOf
<1>7. \A b \in BytesOf(x) : b \in BytesOf(z)
  <2>1. \A k \in 0..(s - 1) : k \in 0..(s + t - 1)
    BY <1>1
  <2>2. QED
    BY <1>4, <1>6, <2>1
<1>8. \A b \in BytesOf(y) : b \in BytesOf(z)
  <2>1. \A k \in 0..(t - 1) :
          s + k \in 0..(s + t - 1) /\ f + s + k = f + (s + k) /\ o + s + k = o + (s + k)
    BY <1>1
  <2>2. QED
    BY <1>5, <1>6, <2>1
<1>9. \A b \in BytesOf(z) : b \in BytesOf(x) \cup BytesOf(y)
  <2> SUFFICES ASSUME NEW k \in 0..(s + t - 1) PROVE <<f + k, o + k>> \in BytesOf(x) \cup BytesOf(y)
    BY <1>6
  <2>1. CASE k \in 0..(s - 1)
    BY <1>4, <2>1
  <2>2. CASE ~ (k \in 0..(s - 1))
    <3>1. k - s \in 0..(t - 1) /\ f + s + (k - s) = f + k /\ o + s + (k - s) = o + k
      BY <1>1, <2>2
    <3>2. QED
      BY <1>5, <3>1
  <2>3. QED
    BY <2>1, <2>2
<1>10. Behind(z) = Behind(y)
  BY <1>1, <1>2, <1>3 DEF Behind
<1>11. QED
  BY <1>1, <1>2, <1>7, <1>8, <1>9, <1>10 DEF z

\* What Prepend makes of a list and an extent that ends where it begins.
LEMMA PrependIs ==
  ASSUME NEW r \in Seq(ExtentEntry), NEW x \in ExtentEntry
  PROVE  /\ Prepend(r, x) \in Seq(ExtentEntry)
         /\ r = <<>> => Prepend(r, x) = <<x>>
         /\ r # <<>> /\ Behind(x) # r[1].file_offset => Prepend(r, x) = r
         /\ r # <<>> /\ Behind(x) = r[1].file_offset =>
              \/ /\ Len(Prepend(r, x)) = Len(r) + 1
                 /\ Prepend(r, x)[1] = x
                 /\ \A m \in 1..Len(r) : Prepend(r, x)[m + 1] = r[m]
              \/ /\ x.offset + x.size = r[1].offset
                 /\ Len(Prepend(r, x)) = Len(r)
                 /\ Prepend(r, x)[1] = [x EXCEPT !.size = @ + r[1].size]
                 /\ \A m \in 2..Len(r) : Prepend(r, x)[m] = r[m]
<1>1. CASE r = <<>>
  <2>1. Prepend(r, x) = <<x>>
    BY <1>1 DEF Prepend
  <2>2. <<x>> \in Seq(ExtentEntry)
    OBVIOUS
  <2>3. QED
    BY <1>1, <2>1, <2>2, Zenon
<1>2. CASE r # <<>>
  <2>1. r[1] \in ExtentEntry /\ Len(r) \in Nat /\ Len(r) >= 1
    BY <1>2
  <2>2. CASE Behind(x) # r[1].file_offset
    <3>1. Prepend(r, x) = r
      BY <1>2, <2>2 DEF Prepend, Behind
    <3>2. QED
      BY <1>2, <2>2, <3>1
  <2>3. CASE Behind(x) = r[1].file_offset /\ x.offset + x.size # r[1].offset
    <3>1. PICK s : s = <<x>> \o r
      OBVIOUS
    <3>2. Prepend(r, x) = s
      BY <1>2, <2>3, <3>1 DEF Prepend, Behind
    <3>3. s \in Seq(ExtentEntry) /\ Len(s) = Len(r) + 1 /\ s[1] = x
      BY <2>1, <3>1
    <3>4. \A m \in 1..Len(r) : s[m + 1] = r[m]
      BY <2>1, <3>1
    <3>5. QED
      BY <1>2, <2>3, <3>2, <3>3, <3>4
  <2>4. CASE Behind(x) = r[1].file_offset /\ x.offset + x.size = r[1].offset
    <3>1. PICK z : z = [x EXCEPT !.size = @ + r[1].size]
      OBVIOUS
    <3>2. z \in ExtentEntry
      BY <2>1, <2>4, <3>1, MergedBytes
    <3>3. PICK t : t = Tail(r)
      OBVIOUS
    <3>4. t \in Seq(ExtentEntry) /\ Len(t) = Len(r) - 1 /\ \A m \in 1..Len(t) : t[m] = r[m + 1]
      BY <2>1, <3>3
    <3>5. PICK s : s = <<z>> \o t
      OBVIOUS
    <3>6. Prepend(r, x) = s
      BY <1>2, <2>4, <3>1, <3>3, <3>5 DEF Prepend, Behind
    <3>7. s \in Seq(ExtentEntry) /\ Len(s) = Len(r) /\ s[1] = z
      BY <2>1, <3>2, <3>4, <3>5
    <3>8. \A m \in 1..Len(t) : s[m + 1] = t[m]
      BY <3>2, <3>4, <3>5
    <3>9. ASSUME NEW m \in 2..Len(r) PROVE s[m] = r[m]
      <4>1. m - 1 \in 1..Len(t) /\ (m - 1) + 1 = m
        BY <2>1, <3>4
      <4>2. QED
        BY <3>4, <3>8, <4>1
    <3>10. QED
      BY <1>2, <2>4, <3>1, <3>6, <3>7, <3>9
  <2>5. QED
    BY <2>2, <2>3, <2>4
<1>3. QED
  BY <1>1, <1>2


\* A list that holds the file from place k on: it begins with that part, goes on
\* without a hole to its end, and has its bytes.
Covers(r, T, k) ==
  LET Y == {p \in T : p >= k} IN
  /\ r \in Seq(ExtentEntry)
  /\ r = <<>> <=> Y = {}
  /\ r # <<>> =>
       /\ \E p \in Y : r[1].file_offset = image.extents[p].file_offset /\ \A q \in Y : p <= q
       /\ \A p \in Y : Behind(image.extents[p]) <= Behind(r[Len(r)])
  /\ \A m \in 2..Len(r) : r[m].file_offset = Behind(r[m - 1])
  /\ \A m \in 1..Len(r) : \E p \in Y : r[m].file_offset = image.extents[p].file_offset
  /\ \A b : (\E m \in 1..Len(r) : b \in BytesOf(r[m])) <=> (\E p \in Y : b \in BytesOf(image.extents[p]))

\* The extent before it is put in front of it.
LEMMA PrependCovers ==
  ASSUME IsImage(image), NEW n, NEW T, Tiled(n, T), NEW k \in T, NEW r, Covers(r, T, k + 1)
  PROVE  Covers(Prepend(r, image.extents[k]), T, k)
<1> DEFINE list == image.extents
           P == T
           Y == {p \in P : p >= k + 1}
           Z == {p \in P : p >= k}
<1>1. PICK x : x = list[k]
  OBVIOUS
<1>2. P \subseteq Nat /\ k \in Nat /\ \A p \in P :
        /\ list[p] \in ExtentEntry
        /\ list[p].file_offset \in Nat /\ list[p].size \in Nat /\ list[p].size > 0
  BY TiledFacts
<1>3. \A p, q \in P : p < q => Behind(list[p]) <= list[q].file_offset
  BY TiledFacts
<1>4. Z = Y \cup {k} /\ k \in Z /\ \A q \in Z : k <= q
  <2>1. k \in P
    OBVIOUS
  <2> HIDE DEF P
  <2>2. /\ \A p \in P : p >= k => p >= k + 1 \/ p = k
        /\ \A p \in P : p >= k + 1 \/ p = k => p >= k
        /\ \A p \in P : p >= k => k <= p
    <3>1. \A p \in P : p \in Nat
      BY <1>2
    <3>2. k \in Nat
      BY <1>2
    <3>3. \A a, b \in Nat : a >= b => a >= b + 1 \/ a = b
      OBVIOUS
    <3>4. \A a, b \in Nat : a >= b + 1 \/ a = b => a >= b
      OBVIOUS
    <3>5. \A a, b \in Nat : a >= b => b <= a
      OBVIOUS
    <3>6. QED
      BY <3>1, <3>2, <3>3, <3>4, <3>5, Zenon
  <2>3. k >= k
    BY <1>2
  <2>4. \A p : p \in Z <=> p \in Y \/ p = k
    BY <2>1, <2>2, <2>3
  <2>5. k \in Z /\ \A q \in Z : k <= q
    BY <2>1, <2>2, <2>3
  <2> HIDE DEF Y, Z
  <2>6. Z = Y \cup {k}
    BY <2>4
  <2>7. QED
    BY <2>5, <2>6
<1>5. x \in ExtentEntry /\ x.file_offset \in Nat /\ x.size \in Nat /\ x.size > 0
  BY <1>1, <1>2
<1>6. r \in Seq(ExtentEntry) /\ Len(r) \in Nat
  BY DEF Covers
<1>7. PICK s : s = Prepend(r, x)
  OBVIOUS
<1>8. s \in Seq(ExtentEntry) /\ Len(s) \in Nat
  <2>1. s \in Seq(ExtentEntry)
    BY <1>5, <1>6, <1>7, PrependIs
  <2>2. QED
    BY <2>1
<1>9. CASE r = <<>>
  <2>1. s = <<x>> /\ Len(s) = 1 /\ s[1] = x /\ s # <<>>
    <3>1. s = <<x>>
      BY <1>5, <1>6, <1>7, <1>9, PrependIs
    <3>2. QED
      BY <3>1
  <2>2. Z = {k}
    BY <1>4, <1>9 DEF Covers
  <2>3. \A b : (\E m \in 1..Len(s) : b \in BytesOf(s[m])) <=> (\E p \in Z : b \in BytesOf(list[p]))
    BY <1>1, <2>1, <2>2
  <2>4. /\ \E p \in Z : s[1].file_offset = list[p].file_offset /\ \A q \in Z : p <= q
        /\ \A m \in 1..Len(s) : \E p \in Z : s[m].file_offset = list[p].file_offset
    BY <1>1, <1>4, <2>1
  <2>5. \A p \in Z : Behind(list[p]) <= Behind(s[Len(s)])
    BY <1>1, <1>5, <2>1, <2>2 DEF Behind
  <2>6. \A m \in 2..Len(s) : s[m].file_offset = Behind(s[m - 1])
    BY <2>1
  <2>7. QED
    BY <1>1, <1>4, <1>7, <1>8, <2>1, <2>3, <2>4, <2>5, <2>6 DEF Covers
<1>10. CASE r # <<>>
  <2>1. PICK q \in Y : r[1].file_offset = list[q].file_offset /\ \A p \in Y : q <= p
    BY <1>10 DEF Covers
  <2>2. /\ \A p \in Y : Behind(list[p]) <= Behind(r[Len(r)])
        /\ \A m \in 2..Len(r) : r[m].file_offset = Behind(r[m - 1])
        /\ \A m \in 1..Len(r) : \E p \in Y : r[m].file_offset = list[p].file_offset
        /\ \A b : (\E m \in 1..Len(r) : b \in BytesOf(r[m])) <=> (\E p \in Y : b \in BytesOf(list[p]))
    BY <1>10 DEF Covers
  <2>3. q \in P /\ k < q /\ \A p \in P : ~ (k < p /\ p < q)
    <3>1. q \in P /\ q >= k + 1 /\ \A p \in P : p >= k + 1 => q <= p
      BY <2>1
    <3> HIDE DEF P
    <3>2. q \in Nat /\ k < q
      BY <1>2, <3>1
    <3>3. \A p \in P : k < p => p >= k + 1
      BY <1>2
    <3>4. \A p \in P : p \in Nat
      BY <1>2
    <3>5. QED
      BY <3>1, <3>2, <3>3, <3>4
  <2>4. Behind(x) = r[1].file_offset
    BY <1>1, <2>1, <2>3, Adjacent
  <2>5. Len(r) >= 1 /\ 1 \in 1..Len(r) /\ Len(r) \in 1..Len(r) /\ r[1] \in ExtentEntry
    BY <1>6, <1>10
  <2>6. \/ /\ Len(s) = Len(r) + 1
           /\ s[1] = x
           /\ \A m \in 1..Len(r) : s[m + 1] = r[m]
        \/ /\ x.offset + x.size = r[1].offset
           /\ Len(s) = Len(r)
           /\ s[1] = [x EXCEPT !.size = @ + r[1].size]
           /\ \A m \in 2..Len(r) : s[m] = r[m]
    BY <1>5, <1>6, <1>7, <1>10, <2>4, PrependIs
  <2>7. Behind(list[k]) <= Behind(r[Len(r)])
    <3>1. Behind(list[q]) <= Behind(r[Len(r)])
      BY <2>1, <2>2
    <3>2. r[Len(r)] \in ExtentEntry
      BY <1>6, <2>5
    <3>3. Behind(list[k]) <= list[q].file_offset
      BY <1>3, <2>3
    <3>4. QED
      <4>1. PICK a \in Nat, c \in Nat, d \in Nat :
              /\ a = list[q].file_offset /\ c = list[q].size
              /\ d = Behind(r[Len(r)])
        <5>1. Behind(r[Len(r)]) \in Nat
          BY <3>2 DEF Behind, ExtentEntry
        <5>2. list[q].file_offset \in Nat /\ list[q].size \in Nat
          BY <1>2, <2>3
        <5>3. QED
          BY <5>1, <5>2
      <4>2. Behind(list[k]) \in Nat /\ Behind(list[k]) <= a /\ a + c <= d
        BY <1>2, <3>1, <3>3, <4>1, SMTT(30) DEF Behind
      <4>3. QED
        BY <4>1, <4>2
  <2>8. \A p \in Z : Behind(list[p]) <= Behind(r[Len(r)])
    BY <1>4, <2>2, <2>7
  <2>9. s # <<>>
    BY <1>8, <2>5, <2>6
  <2> HIDE DEF Y, Z, list, P
  <2>10. CASE /\ Len(s) = Len(r) + 1
              /\ s[1] = x
              /\ \A m \in 1..Len(r) : s[m + 1] = r[m]
    <3>1. \A m \in 1..Len(s) : m = 1 \/ (m - 1 \in 1..Len(r) /\ s[m] = r[m - 1])
      <4> SUFFICES ASSUME NEW m \in 1..Len(s), m # 1 PROVE m - 1 \in 1..Len(r) /\ s[m] = r[m - 1]
        OBVIOUS
      <4>1. m - 1 \in 1..Len(r) /\ (m - 1) + 1 = m
        BY <1>6, <2>10
      <4>2. QED
        BY <2>10, <4>1
    <3>2. ASSUME NEW m \in 2..Len(s) PROVE s[m].file_offset = Behind(s[m - 1])
      <4>1. m \in 1..Len(s) /\ m # 1 /\ m - 1 \in 1..Len(s)
        BY <1>8
      <4>2. s[m] = r[m - 1] /\ m - 1 \in 1..Len(r)
        BY <3>1, <4>1
      <4>3. CASE m - 1 = 1
        BY <2>4, <2>10, <4>2, <4>3
      <4>4. CASE m - 1 # 1
        <5>1. m - 1 \in 2..Len(r)
          BY <1>6, <4>2, <4>4
        <5>2. r[m - 1].file_offset = Behind(r[(m - 1) - 1])
          BY <2>2, <5>1
        <5>3. s[m - 1] = r[(m - 1) - 1]
          BY <3>1, <4>1, <4>4
        <5>4. QED
          BY <4>2, <5>2, <5>3
      <4>5. QED
        BY <4>3, <4>4
    <3>3. \A m \in 1..Len(s) : \E p \in Z : s[m].file_offset = list[p].file_offset
      <4> SUFFICES ASSUME NEW m \in 1..Len(s) PROVE \E p \in Z : s[m].file_offset = list[p].file_offset
        OBVIOUS
      <4>1. CASE m = 1
        BY <1>1, <1>4, <2>10, <4>1
      <4>2. CASE m # 1
        <5>1. m - 1 \in 1..Len(r) /\ s[m] = r[m - 1]
          BY <3>1, <4>2
        <5>2. PICK p \in Y : r[m - 1].file_offset = list[p].file_offset
          BY <2>2, <5>1
        <5>3. QED
          BY <1>4, <5>1, <5>2
      <4>3. QED
        BY <4>1, <4>2
    <3>4. s[Len(s)] = r[Len(r)]
      BY <2>5, <2>10
    <3>5. ASSUME NEW b
          PROVE  (\E m \in 1..Len(s) : b \in BytesOf(s[m])) <=> (\E p \in Z : b \in BytesOf(list[p]))
      <4>1. (\E m \in 1..Len(s) : b \in BytesOf(s[m])) <=>
              b \in BytesOf(x) \/ \E m \in 1..Len(r) : b \in BytesOf(r[m])
        <5>1. \A m \in 1..Len(r) : m + 1 \in 1..Len(s)
          BY <1>6, <2>10
        <5>2. 1 \in 1..Len(s)
          BY <1>6, <2>10
        <5>3. QED
          BY <2>10, <3>1, <5>1, <5>2
      <4>2. QED
        BY <1>1, <1>4, <2>2, <4>1
    <3>6. s[1].file_offset = list[k].file_offset
      BY <1>1, <2>10
    <3>7. QED
      BY <1>1, <1>4, <1>7, <1>8, <2>8, <2>9, <3>2, <3>3, <3>4, <3>5, <3>6 DEF Covers, Z, P, list
  <2>11. CASE /\ x.offset + x.size = r[1].offset
              /\ Len(s) = Len(r)
              /\ s[1] = [x EXCEPT !.size = @ + r[1].size]
              /\ \A m \in 2..Len(r) : s[m] = r[m]
    <3>1. /\ s[1].file_offset = x.file_offset
          /\ Behind(s[1]) = Behind(r[1])
          /\ BytesOf(s[1]) = BytesOf(x) \cup BytesOf(r[1])
      BY <1>5, <2>4, <2>5, <2>11, MergedBytes
    <3>2. ASSUME NEW m \in 2..Len(s) PROVE s[m].file_offset = Behind(s[m - 1])
      <4>1. s[m] = r[m] /\ r[m].file_offset = Behind(r[m - 1])
        BY <2>2, <2>11
      <4>2. CASE m = 2
        BY <3>1, <4>1, <4>2
      <4>3. CASE m # 2
        <5>1. m - 1 \in 2..Len(r)
          BY <1>6, <2>11, <4>3
        <5>2. QED
          BY <2>11, <4>1, <5>1
      <4>4. QED
        BY <4>2, <4>3
    <3>3. ASSUME NEW m \in 1..Len(s) PROVE \E p \in Z : s[m].file_offset = list[p].file_offset
      <4>1. CASE m = 1
        BY <1>1, <1>4, <3>1, <4>1
      <4>2. CASE m # 1
        <5>1. m \in 2..Len(r) /\ m \in 1..Len(r)
          BY <1>6, <2>11, <4>2
        <5>2. QED
          BY <1>4, <2>2, <2>11, <5>1
      <4>3. QED
        BY <4>1, <4>2
    <3>4. Behind(s[Len(s)]) = Behind(r[Len(r)])
      <4>1. CASE Len(r) = 1
        BY <2>11, <3>1, <4>1
      <4>2. CASE Len(r) # 1
        <5>1. PICK l \in Nat : l = Len(r)
          BY <1>6
        <5>2. l \in 2..l
          BY <2>5, <4>2, <5>1
        <5>3. QED
          BY <2>11, <5>1, <5>2
      <4>3. QED
        BY <4>1, <4>2
    <3>5. ASSUME NEW b
          PROVE  (\E m \in 1..Len(s) : b \in BytesOf(s[m])) <=> (\E p \in Z : b \in BytesOf(list[p]))
      <4>1. \A m \in 1..Len(r) : m = 1 \/ m \in 2..Len(r)
        BY <1>6
      <4>2. (\E m \in 1..Len(s) : b \in BytesOf(s[m])) <=>
              b \in BytesOf(x) \/ \E m \in 1..Len(r) : b \in BytesOf(r[m])
        BY <2>5, <2>11, <3>1, <4>1
      <4>3. QED
        BY <1>1, <1>4, <2>2, <4>2
    <3>6. s[1].file_offset = list[k].file_offset
      BY <1>1, <3>1
    <3>7. QED
      BY <1>1, <1>4, <1>7, <1>8, <2>8, <2>9, <3>2, <3>3, <3>4, <3>5, <3>6 DEF Covers, Z, P, list
  <2>12. QED
    BY <2>6, <2>10, <2>11
<1>11. QED
  BY <1>9, <1>10

\* Of a set of places LastOf takes one that no other comes behind.
LEMMA LastIs ==
  ASSUME NEW list, NEW N \in Nat, NEW S, S \subseteq 1..N, S # {},
         \A q \in S : list[q].file_offset \in Nat
  PROVE  /\ LastOf(list, S) \in S
         /\ \A q \in S :
              \/ list[q].file_offset < list[LastOf(list, S)].file_offset
              \/ list[q].file_offset = list[LastOf(list, S)].file_offset /\ q <= LastOf(list, S)
<1> DEFINE IsLast(p, i) == \A q \in S : q <= i =>
             \/ list[q].file_offset < list[p].file_offset
             \/ list[q].file_offset = list[p].file_offset /\ q <= p
           Q == {i \in 0..N : (\E q \in S : q <= i) => \E p \in S : p <= i /\ IsLast(p, i)}
<1>1. \A q \in S : q \in Nat /\ q >= 1 /\ q <= N
  <2>1. \A q \in S : q \in 1..N
    OBVIOUS
  <2>2. \A q \in 1..N : q \in Nat /\ q >= 1 /\ q <= N
    OBVIOUS
  <2>3. QED
    BY <2>1, <2>2, Zenon
<1>2. 0 \in Q
  BY <1>1
<1>3. ASSUME NEW i \in 1..N, i - 1 \in Q PROVE i \in Q
  <2>1. i \in 0..N /\ i \in Nat /\ i >= 1
    OBVIOUS
  <2>2. \A q \in S : q <= i => q <= i - 1 \/ q = i
    BY <1>1, <2>1
  <2> SUFFICES ASSUME NEW e \in S, e <= i PROVE \E p \in S : p <= i /\ IsLast(p, i)
    BY <2>1
  <2>3. CASE \E q \in S : q <= i - 1
    <3>1. PICK p \in S : p <= i - 1 /\ IsLast(p, i - 1)
      BY <1>3, <2>3
    <3>2. p <= i /\ p # i
      BY <1>1, <2>1, <3>1
    <3>3. CASE i \notin S
      <4>1. IsLast(p, i)
        BY <2>2, <3>1, <3>3
      <4>2. QED
        BY <3>2, <4>1
    <3>4. CASE i \in S /\ list[i].file_offset < list[p].file_offset
      <4>1. IsLast(p, i)
        BY <2>2, <3>1, <3>4
      <4>2. QED
        BY <3>2, <4>1
    <3>5. CASE i \in S /\ ~ (list[i].file_offset < list[p].file_offset)
      <4>0. \A q \in S : list[q].file_offset \in Nat
        OBVIOUS
      <4>1. list[p].file_offset <= list[i].file_offset
        BY <3>5, <4>0
      <4>2. ASSUME NEW q \in S, q <= i
            PROVE  \/ list[q].file_offset < list[i].file_offset
                   \/ list[q].file_offset = list[i].file_offset /\ q <= i
        <5>1. CASE q = i
          BY <4>2, <5>1
        <5>2. CASE q # i
          <6>1. list[q].file_offset <= list[p].file_offset
            BY <2>2, <3>1, <4>2, <5>2
          <6>2. list[q].file_offset <= list[i].file_offset
            <7>1. PICK f \in Nat, g \in Nat, h \in Nat :
                    /\ f = list[q].file_offset /\ g = list[p].file_offset
                    /\ h = list[i].file_offset
              BY <3>5, <4>0
            <7>2. QED
              BY <4>1, <6>1, <7>1
          <6>3. QED
            BY <3>5, <4>2, <6>2
        <5>3. QED
          BY <5>1, <5>2
      <4>3. i <= i
        BY <2>1
      <4>4. QED
        BY <3>5, <4>2, <4>3
    <3>6. QED
      BY <3>3, <3>4, <3>5
  <2>4. CASE ~ \E q \in S : q <= i - 1
    <3>1. \A q \in S : q <= i => q = i
      BY <2>2, <2>4
    <3>2. e = i
      BY <3>1
    <3>3. IsLast(e, i)
      BY <3>1, <3>2
    <3>4. QED
      BY <3>3
  <2>5. QED
    BY <2>3, <2>4
<1> HIDE DEF Q
<1>4. 0..N \subseteq Q
  BY <1>2, <1>3, UpTo
<1>5. N \in Q
  BY <1>4
<1>6. PICK e \in S : TRUE
  OBVIOUS
<1>7. e <= N
  BY <1>1
<1>8. PICK p \in S : IsLast(p, N)
  BY <1>5, <1>7 DEF Q
<1>9. \A q \in S :
        \/ list[q].file_offset < list[p].file_offset
        \/ list[q].file_offset = list[p].file_offset /\ q <= p
  BY <1>1, <1>8
<1>10. QED
  BY <1>9 DEF LastOf

\* The extents of a file in the cache: those still to come, and the list made of the
\* others.
LEMMA CachedRuns ==
  ASSUME IsImage(image), NEW n \in Nat \ {0}, NEW T, Tiled(n, T)
  PROVE  LET list == Extents(image)
             P == PlacesOf(n)
             N == Len(image.extents)
         IN /\ \A p \in P : list[p] = image.extents[p]
            /\ \E run \in [0..N -> [left: SUBSET P, unique: Seq(ExtentEntry)]] :
                 /\ run[0] = [left |-> P, unique |-> <<>>]
                 /\ \A i \in 1..N :
                      run[i] = IF run[i - 1].left = {} THEN run[i - 1]
                               ELSE LET p == LastOf(list, run[i - 1].left)
                                    IN [left |-> run[i - 1].left \ {p},
                                        unique |-> Prepend(run[i - 1].unique, list[p])]
                 /\ CachedExtents(n) = run[N].unique
<1> DEFINE list == Extents(image)
           P == PlacesOf(n)
           N == Len(image.extents)
           V == [left: SUBSET P, unique: Seq(ExtentEntry)]
           a == [left |-> P, unique |-> <<>>]
           Next_(v) == IF v.left = {} THEN v
                       ELSE LET p == LastOf(list, v.left)
                            IN [left |-> v.left \ {p}, unique |-> Prepend(v.unique, list[p])]
           step == [t \in (1..N) \X V |-> Next_(t[2])]
           IsRun(f) == f = [i \in 0..Len(list) |->
              IF i = 0 THEN [left |-> {p \in DOMAIN list : list[p].inode = n}, unique |-> <<>>]
              ELSE IF f[i - 1].left = {} THEN f[i - 1]
              ELSE LET p == LastOf(list, f[i - 1].left)
                   IN [left |-> f[i - 1].left \ {p}, unique |-> Prepend(f[i - 1].unique, list[p])]]
           run == CHOOSE f : IsRun(f)
<1>1. N \in Nat /\ image.extents \in Seq(ExtentEntry) /\ DOMAIN image.extents = 1..N
  BY DEF IsImage
<1>2. list = [i \in 1..N |-> IF image.extents[i] \in image.unread THEN ZeroExtent ELSE image.extents[i]]
  BY DEF Extents, Items
<1>3. Len(list) = N /\ DOMAIN list = 1..N
  <2>1. \A i \in 1..N : image.extents[i] \in ExtentEntry
    BY <1>1
  <2>2. list \in [1..N -> ExtentEntry \cup {ZeroExtent}]
    BY <1>2, <2>1
  <2>3. list \in Seq(ExtentEntry \cup {ZeroExtent}) /\ DOMAIN list = 1..N
    BY <1>1, <2>2
  <2>4. QED
    BY <1>1, <2>3
<1>4. P = {i \in 1..N : image.extents[i].inode = n}
  BY DEF PlacesOf
<1>5. /\ \A p \in P : list[p] = image.extents[p]
      /\ P = {p \in DOMAIN list : list[p].inode = n}
  <2>1. \A p \in P : image.extents[p] \notin image.unread
    BY DEF Tiled
  <2>2. ZeroExtent.inode = 0
    BY DEF ZeroExtent
  <2>3. \A i \in 1..N : list[i].inode = n <=> image.extents[i].inode = n
    BY <1>2, <1>4, <2>1, <2>2
  <2>4. QED
    BY <1>2, <1>3, <1>4, <2>1, <2>3
<1>6. /\ P \subseteq 1..N
      /\ \A p \in P : list[p] \in ExtentEntry /\ list[p].file_offset \in Nat
  BY <1>4, <1>5, PlaceFacts
<1> HIDE DEF list, N, P
<1>7. \A v \in V : Next_(v) \in V
  <2> SUFFICES ASSUME NEW v \in V, v.left # {} PROVE Next_(v) \in V
    OBVIOUS
  <2>1. v.left \subseteq P /\ v.unique \in Seq(ExtentEntry)
    OBVIOUS
  <2>2. PICK p : p = LastOf(list, v.left)
    OBVIOUS
  <2>3. p \in v.left
    <3>1. v.left \subseteq 1..N /\ \A q \in v.left : list[q].file_offset \in Nat
      BY <1>6, <2>1
    <3>2. QED
      BY <1>1, <2>2, <3>1, LastIs DEF N
  <2>4. list[p] \in ExtentEntry
    BY <1>6, <2>1, <2>3
  <2>5. PICK s : s = Prepend(v.unique, list[p])
    OBVIOUS
  <2>6. s \in Seq(ExtentEntry)
    BY <2>1, <2>4, <2>5, PrependIs
  <2>7. Next_(v) = [left |-> v.left \ {p}, unique |-> s]
    BY <2>2, <2>5
  <2>8. v.left \ {p} \in SUBSET P
    BY <2>1
  <2> HIDE DEF Next_
  <2>9. QED
    BY <2>6, <2>7, <2>8
<1>8. a \in V
  OBVIOUS
<1> HIDE DEF V, a, Next_
<1>9. step \in [(1..N) \X V -> V]
  BY <1>7
<1>10. \A i \in 1..N, v \in V : step[<<i, v>>] = Next_(v)
  OBVIOUS
<1> HIDE DEF step
<1>11. PICK f \in [0..N -> V] : f[0] = a /\ \A i \in 1..N : f[i] = step[<<i, f[i - 1]>>]
  <2>1. Runs(N, V, a, step) # {}
    BY <1>1, <1>8, <1>9, Recursion DEF N
  <2>2. QED
    BY <2>1 DEF Runs
<1>12. \A i \in 1..N : i - 1 \in 0..N /\ f[i - 1] \in V
  <2>1. \A i \in 1..N : i - 1 \in 0..N
    BY <1>1 DEF N
  <2>2. QED
    BY <1>11, <2>1
<1>13. \A i \in 0..N : f[i] = IF i = 0 THEN a ELSE Next_(f[i - 1])
  <2>1. ASSUME NEW i \in 1..N PROVE f[i] = Next_(f[i - 1])
    <3>1. f[i] = step[<<i, f[i - 1]>>] /\ f[i - 1] \in V
      BY <1>11, <1>12
    <3>2. step[<<i, f[i - 1]>>] = Next_(f[i - 1])
      BY <1>10, <3>1
    <3>3. QED
      BY <3>1, <3>2, Zenon
  <2>2. \A i \in 0..N : i = 0 \/ (i \in 1..N /\ i # 0)
    BY <1>1 DEF N
  <2>3. QED
    BY <1>11, <2>1, <2>2
<1>14. \A g : IsRun(g) <=> g = [i \in 0..N |-> IF i = 0 THEN a ELSE Next_(g[i - 1])]
  BY <1>3, <1>5, Zenon DEF a, Next_
<1>15. IsRun(f)
  <2>1. f = [i \in 0..N |-> IF i = 0 THEN a ELSE Next_(f[i - 1])]
    BY <1>11, <1>13
  <2> HIDE DEF IsRun
  <2>2. QED
    BY <1>14, <2>1
<1>16. IsRun(run)
  BY <1>15, Zenon
<1>17. CachedExtents(n) = run[N].unique
  <2>1. CachedExtents(n) = run[Len(list)].unique
    BY Zenon DEF CachedExtents, list
  <2>2. QED
    BY <1>3, <2>1
<1> HIDE DEF run
<1>18. run = [i \in 0..N |-> IF i = 0 THEN a ELSE Next_(run[i - 1])]
  <2> HIDE DEF IsRun
  <2>1. QED
    BY <1>14, <1>16
<1> HIDE DEF IsRun
<1>19. run[0] = a /\ \A i \in 1..N : run[i] = Next_(run[i - 1])
  <2>1. \A i \in 1..N : i \in 0..N /\ i # 0
    BY <1>1 DEF N
  <2>2. 0 \in 0..N
    BY <1>1 DEF N
  <2>3. QED
    BY <1>18, <2>1, <2>2
<1>20. \A i \in 0..N : run[i] \in V
  <2> DEFINE S == {i \in 0..N : run[i] \in V}
  <2>1. \A i \in 1..N : i - 1 \in S => i \in S
    BY <1>1, <1>7, <1>19 DEF N
  <2>2. 0 \in S
    BY <1>1, <1>8, <1>19 DEF N
  <2> HIDE DEF S
  <2>3. 0..N \subseteq S
    BY <1>1, <2>1, <2>2, UpTo DEF N
  <2>4. QED
    BY <2>3 DEF S
<1>21. run \in [0..N -> V]
  BY <1>18, <1>20
<1>22. QED
  BY <1>5, <1>17, <1>19, <1>21 DEF N, V, P, list, a, Next_

\* What the cache has gathered: the extents still to come begin in front of the
\* others, and the list holds the tiles among the others.
Gathered(n, T, left, unique) ==
  LET list == image.extents
      P == PlacesOf(n)
  IN /\ left \subseteq P
     /\ \A p \in left, q \in P \ left :
          \/ list[p].file_offset < list[q].file_offset
          \/ list[p].file_offset = list[q].file_offset /\ p < q
     /\ unique = <<>> => left = P
     /\ \E k \in 1..(Len(list) + 1) :
          Covers(unique, T, k) /\ \A p \in T : p \in left <=> p < k

\* The last of the extents still to come is a tile in front of the list, or an old
\* version that does not end where the list begins.
LEMMA GathersNext ==
  ASSUME IsImage(image), NEW n, NEW T, Tiled(n, T), NEW left, NEW r, Gathered(n, T, left, r),
         NEW e \in left,
         \A q \in left :
           \/ image.extents[q].file_offset < image.extents[e].file_offset
           \/ image.extents[q].file_offset = image.extents[e].file_offset /\ q <= e
  PROVE  Gathered(n, T, left \ {e}, Prepend(r, image.extents[e]))
<1> DEFINE list == image.extents
           P == PlacesOf(n)
           N == Len(image.extents)
<1>1. /\ left \subseteq P /\ e \in P
      /\ \A p \in left, q \in P \ left :
           \/ list[p].file_offset < list[q].file_offset
           \/ list[p].file_offset = list[q].file_offset /\ p < q
      /\ r = <<>> => left = P
  BY DEF Gathered
<1>2. PICK k \in 1..(N + 1) : Covers(r, T, k) /\ \A p \in T : p \in left <=> p < k
  BY DEF Gathered
<1>3. /\ N \in Nat /\ P \subseteq Nat
      /\ \A p \in P :
           /\ p \in 1..N /\ list[p] \in ExtentEntry /\ Behind(list[p]) <= list[p].end
           /\ list[p].file_offset \in Nat /\ list[p].size \in Nat /\ list[p].size > 0
  BY PlaceFacts
<1>4. T \subseteq P /\ T \subseteq Nat
  BY TiledFacts DEF Tiled
<1>5. \A p, q \in T : p < q => Behind(list[p]) <= list[q].file_offset
  BY TiledFacts
<1>6. \A p \in T, q \in P :
        q # p /\ Behind(list[q]) <= list[p].end => list[q].file_offset < list[p].file_offset
  BY DEF Tiled
<1>7. PICK l \in T : \A q \in P : q # l => list[q].file_offset < list[l].file_offset
  BY DEF Tiled
<1>8. r \in Seq(ExtentEntry)
  BY <1>2 DEF Covers
<1>9. PICK s : s = Prepend(r, list[e])
  OBVIOUS
<1>10. \A q \in left :
         \/ list[q].file_offset < list[e].file_offset
         \/ list[q].file_offset = list[e].file_offset /\ q <= e
  OBVIOUS
<1> HIDE DEF list, P, N
<1>11. \A p \in left \ {e}, q \in P \ (left \ {e}) :
         \/ list[p].file_offset < list[q].file_offset
         \/ list[p].file_offset = list[q].file_offset /\ p < q
  <2> SUFFICES ASSUME NEW p \in left, p # e, NEW q \in P, q \notin left \/ q = e
               PROVE  \/ list[p].file_offset < list[q].file_offset
                      \/ list[p].file_offset = list[q].file_offset /\ p < q
    OBVIOUS
  <2>1. CASE q \notin left
    BY <1>1, <2>1
  <2>2. CASE q = e
    <3>1. p \in Nat /\ e \in Nat
      BY <1>1, <1>3
    <3>2. p <= e => p < e
      BY <3>1
    <3>3. QED
      BY <1>10, <2>2, <3>2
  <2>3. QED
    BY <2>1, <2>2
<1>12. \A q \in left : ~ (list[e].file_offset < list[q].file_offset)
  <2> SUFFICES ASSUME NEW q \in left, list[e].file_offset < list[q].file_offset PROVE FALSE
    OBVIOUS
  <2>1. list[e].file_offset \in Nat /\ list[q].file_offset \in Nat
    BY <1>1, <1>3
  <2>2. QED
    BY <1>10, <2>1
<1>13. s # <<>>
  <2>1. list[e] \in ExtentEntry
    BY <1>1, <1>3
  <2>2. PICK x : x = list[e]
    OBVIOUS
  <2>3. CASE r = <<>>
    <3>1. s = <<x>>
      BY <1>8, <1>9, <2>1, <2>2, <2>3, PrependIs
    <3>2. QED
      BY <3>1
  <2>4. CASE r # <<>> /\ Behind(x) # r[1].file_offset
    <3>1. s = r
      BY <1>8, <1>9, <2>1, <2>2, <2>4, PrependIs
    <3>2. QED
      BY <2>4, <3>1
  <2>5. CASE r # <<>> /\ Behind(x) = r[1].file_offset
    <3>1. Len(s) = Len(r) + 1 \/ Len(s) = Len(r)
      BY <1>8, <1>9, <2>1, <2>2, <2>5, PrependIs
    <3>2. Len(r) \in Nat /\ Len(r) >= 1
      BY <1>8, <2>5
    <3>3. Len(<<>>) = 0
      OBVIOUS
    <3>4. QED
      BY <3>1, <3>2, <3>3
  <2>6. QED
    BY <2>3, <2>4, <2>5
<1>14. \E j \in 1..(N + 1) : Covers(s, T, j) /\ \A p \in T : p \in left \ {e} <=> p < j
  <2>1. CASE e \in T
    <3>1. e < k /\ e \in Nat /\ k \in Nat /\ e \in 1..N
      BY <1>2, <1>3, <1>4, <2>1
    <3>2. \A p \in T : ~ (e < p /\ p < k)
      <4> SUFFICES ASSUME NEW p \in T, e < p, p < k PROVE FALSE
        OBVIOUS
      <4>1. p \in left
        BY <1>2
      <4>2. list[e].file_offset + list[e].size <= list[p].file_offset
        BY <1>5, <2>1 DEF Behind
      <4>3. /\ list[e].file_offset \in Nat /\ list[e].size \in Nat /\ list[e].size > 0
            /\ list[p].file_offset \in Nat
        BY <1>1, <1>3, <1>4
      <4>4. list[e].file_offset < list[p].file_offset
        BY <4>2, <4>3
      <4>5. QED
        BY <1>12, <4>1, <4>4
    <3>3. {p \in T : p >= k} = {p \in T : p >= e + 1}
      <4>1. \A p \in T : p \in Nat
        BY <1>4
      <4>2. ASSUME NEW p \in T PROVE p >= k <=> p >= e + 1
        <5>1. p \in Nat /\ ~ (e < p /\ p < k)
          BY <3>2, <4>1
        <5>2. p >= k => p >= e + 1
          BY <3>1, <5>1
        <5>3. p >= e + 1 => p >= k
          BY <3>1, <5>1
        <5>4. QED
          BY <5>2, <5>3
      <4>3. QED
        BY <4>2
    <3>4. Covers(r, T, e + 1)
      <4>1. PICK Y : Y = {p \in T : p >= k}
        OBVIOUS
      <4>2. Y = {p \in T : p >= e + 1}
        BY <3>3, <4>1
      <4>3. QED
        BY <1>2, <4>1, <4>2 DEF Covers
    <3>5. Covers(s, T, e)
      BY <1>9, <2>1, <3>4, PrependCovers DEF list
    <3>6. \A p \in T : p \in left \ {e} <=> p < e
      <4> SUFFICES ASSUME NEW p \in T PROVE (p \in left /\ p # e) <=> p < e
        OBVIOUS
      <4>1. p \in Nat /\ ~ (e < p /\ p < k)
        BY <1>4, <3>2
      <4>2. p < k /\ p # e => p < e
        BY <3>1, <4>1
      <4>3. p < e => p < k /\ p # e
        BY <3>1, <4>1
      <4>4. QED
        BY <1>2, <4>2, <4>3
    <3>7. e \in 1..(N + 1)
      BY <1>3, <3>1
    <3>8. QED
      BY <3>5, <3>6, <3>7
  <2>2. CASE e \notin T
    <3>1. r # <<>>
      <4> SUFFICES ASSUME r = <<>> PROVE FALSE
        OBVIOUS
      <4>1. l \in left /\ e # l
        BY <1>1, <1>4, <2>2
      <4>2. list[e].file_offset < list[l].file_offset
        BY <1>1, <1>7, <4>1
      <4>3. QED
        BY <1>12, <4>1, <4>2
    <3>2. PICK y \in T : /\ y >= k /\ r[1].file_offset = list[y].file_offset
                         /\ \A q \in T : q >= k => y <= q
      BY <1>2, <3>1 DEF Covers, list
    <3>3. Behind(list[e]) # r[1].file_offset
      <4> SUFFICES ASSUME Behind(list[e]) = list[y].file_offset PROVE FALSE
        BY <3>2
      <4>1. /\ list[e].file_offset \in Nat /\ list[e].size \in Nat /\ list[e].size > 0
            /\ list[y].file_offset \in Nat /\ list[y].size \in Nat /\ list[y].size > 0
        BY <1>1, <1>3, <1>4
      <4>2. list[y].file_offset # 0
        BY <4>1 DEF Behind
      <4>3. PICK q \in T : Behind(list[q]) = list[y].file_offset
        BY <4>2 DEF Tiled, list
      <4>4. /\ list[q].file_offset \in Nat /\ list[q].size \in Nat /\ list[q].size > 0
            /\ q \in P /\ Behind(list[q]) <= list[q].end
        BY <1>3, <1>4
      <4>5. q < y
        <5>1. q # y
          BY <4>3, <4>4 DEF Behind
        <5>2. ~ (y < q)
          <6> SUFFICES ASSUME y < q PROVE FALSE
            OBVIOUS
          <6>1. list[y].file_offset + list[y].size <= list[q].file_offset
            BY <1>5 DEF Behind
          <6>2. list[q].file_offset + list[q].size = list[y].file_offset
            BY <4>3 DEF Behind
          <6>3. QED
            BY <4>1, <4>4, <6>1, <6>2
        <5>3. q \in Nat /\ y \in Nat
          BY <1>4
        <5>4. QED
          BY <5>1, <5>2, <5>3
      <4>6. q \in left
        <5>1. q \in Nat /\ y \in Nat /\ k \in Nat
          BY <1>2, <1>3, <1>4
        <5>2. ~ (q >= k)
          BY <3>2, <4>5, <5>1
        <5>3. QED
          BY <1>2, <5>1, <5>2
      <4>7. list[e].file_offset < list[q].file_offset
        <5>1. e # q
          BY <2>2
        <5>2. Behind(list[e]) <= list[q].end
          BY <4>3, <4>4
        <5>3. QED
          BY <1>1, <1>6, <5>1, <5>2
      <4>8. QED
        BY <1>12, <4>6, <4>7
    <3>4. s = r
      <4>1. PICK x : x = list[e]
        OBVIOUS
      <4>2. x \in ExtentEntry
        BY <1>1, <1>3, <4>1
      <4>3. QED
        BY <1>8, <1>9, <3>1, <3>3, <4>1, <4>2, PrependIs
    <3>5. \A p \in T : p \in left \ {e} <=> p < k
      BY <1>2, <2>2
    <3>6. QED
      BY <1>2, <3>4, <3>5
  <2>3. QED
    BY <2>1, <2>2
<1>15. Gathered(n, T, left \ {e}, s)
  <2>1. left \ {e} \subseteq P
    BY <1>1
  <2>2. QED
    BY <1>11, <1>13, <1>14, <2>1 DEF Gathered, list, P, N
<1>16. QED
  BY <1>9, <1>15 DEF list

\* The cache of a file without holes: it begins with its first byte, ends with its
\* last, and has the bytes of all its tiles.
LEMMA CachedIs ==
  ASSUME IsImage(image), NEW n \in Nat \ {0}, NEW T, Tiled(n, T)
  PROVE  /\ IsTiling(CachedExtents(n)) /\ CachedExtents(n) # <<>>
         /\ Covers(CachedExtents(n), T, 1)
<1> DEFINE list == image.extents
           P == PlacesOf(n)
           N == Len(image.extents)
<1>1. /\ N \in Nat /\ P \subseteq 1..N
      /\ \A p \in P : list[p].file_offset \in Nat
  BY PlaceFacts
<1>2. T \subseteq P /\ T \subseteq Nat /\ \A p \in T :
        /\ p >= 1
        /\ list[p].file_offset \in Nat /\ list[p].size \in Nat /\ list[p].size > 0
  BY TiledFacts DEF Tiled
<1>3. PICK run \in [0..N -> [left: SUBSET P, unique: Seq(ExtentEntry)]] :
        /\ run[0] = [left |-> P, unique |-> <<>>]
        /\ \A i \in 1..N :
             run[i] = IF run[i - 1].left = {} THEN run[i - 1]
                      ELSE LET p == LastOf(Extents(image), run[i - 1].left)
                           IN [left |-> run[i - 1].left \ {p},
                               unique |-> Prepend(run[i - 1].unique, Extents(image)[p])]
        /\ CachedExtents(n) = run[N].unique
  BY CachedRuns
<1>4. \A p \in P : Extents(image)[p] = list[p]
  BY CachedRuns
<1>5. IsFiniteSet(P) /\ Cardinality(P) <= N
  <2>1. IsFiniteSet(1..N) /\ Cardinality(1..N) = N
    <3>1. 1 \in Int /\ N \in Int /\ (IF 1 > N THEN 0 ELSE N - 1 + 1) = N
      BY <1>1
    <3> HIDE DEF N
    <3>2. QED
      BY <3>1, FS_Interval
  <2>2. PICK D : D = 1..N
    OBVIOUS
  <2>3. P \in SUBSET D /\ IsFiniteSet(D) /\ Cardinality(D) = N
    BY <1>1, <2>1, <2>2
  <2>4. PICK Q : Q = P
    OBVIOUS
  <2>5. Q \in SUBSET D
    BY <2>3, <2>4
  <2>6. IsFiniteSet(Q) /\ Cardinality(Q) <= Cardinality(D)
    BY <2>3, <2>5, FS_Subset
  <2> HIDE DEF P, N
  <2>7. QED
    BY <2>3, <2>4, <2>6
<1> DEFINE S == {i \in 0..N :
                   /\ Gathered(n, T, run[i].left, run[i].unique)
                   /\ IsFiniteSet(run[i].left)
                   /\ run[i].left = {} \/ Cardinality(run[i].left) <= N - i}
<1>6. 0 \in S
  <2>1. \A p \in T : p \in Nat /\ p < N + 1
    BY <1>1, <1>2
  <2>2. {p \in T : p >= N + 1} = {}
    BY <1>1, <2>1
  <2>3. Covers(<<>>, T, N + 1)
    BY <2>2 DEF Covers
  <2>4. \A p \in T : p \in P <=> p < N + 1
    BY <1>2, <2>1
  <2>5. N + 1 \in 1..(N + 1)
    BY <1>1
  <2>6. PICK u : u = <<>>
    OBVIOUS
  <2>7. Gathered(n, T, P, u)
    BY <2>3, <2>4, <2>5, <2>6 DEF Gathered
  <2>8. run[0].left = P /\ run[0].unique = u
    BY <1>3, <2>6
  <2>9. 0 \in 0..N /\ N - 0 = N
    BY <1>1
  <2> HIDE DEF N, P
  <2>10. QED
    BY <1>5, <2>7, <2>8, <2>9
<1> HIDE DEF list, P, N
<1>7. ASSUME NEW i \in 1..N, i - 1 \in S PROVE i \in S
  <2>1. PICK left, r : left = run[i - 1].left /\ r = run[i - 1].unique
    OBVIOUS
  <2>2. /\ Gathered(n, T, left, r) /\ IsFiniteSet(left)
        /\ left = {} \/ Cardinality(left) <= N - (i - 1)
    BY <1>7, <2>1
  <2>3. i \in 0..N /\ left \subseteq P
    BY <2>2 DEF Gathered, P
  <2>4. CASE left = {}
    <3>1. run[i].left = left /\ run[i].unique = r
      BY <1>3, <2>1, <2>4
    <3>2. QED
      BY <2>2, <2>3, <2>4, <3>1
  <2>5. CASE left # {}
    <3>1. PICK e : e = LastOf(Extents(image), left)
      OBVIOUS
    <3>2. /\ e \in left
          /\ \A q \in left :
               \/ Extents(image)[q].file_offset < Extents(image)[e].file_offset
               \/ Extents(image)[q].file_offset = Extents(image)[e].file_offset /\ q <= e
      <4>1. left \subseteq 1..N /\ \A q \in left : Extents(image)[q].file_offset \in Nat
        BY <1>1, <1>4, <2>3
      <4>2. QED
        BY <1>1, <2>5, <3>1, <4>1, LastIs
    <3>3. \A q \in left :
            \/ list[q].file_offset < list[e].file_offset
            \/ list[q].file_offset = list[e].file_offset /\ q <= e
      BY <1>4, <2>3, <3>2
    <3>4. PICK s : s = Prepend(r, list[e])
      OBVIOUS
    <3>5. run[i].left = left \ {e} /\ run[i].unique = s
      <4>1. run[i] = [left |-> left \ {e}, unique |-> Prepend(r, Extents(image)[e])]
        BY <1>3, <2>1, <2>5, <3>1
      <4>2. Extents(image)[e] = list[e]
        BY <1>4, <2>3, <3>2
      <4>3. QED
        BY <3>4, <4>1, <4>2
    <3>6. Gathered(n, T, left \ {e}, s)
      BY <2>2, <3>2, <3>3, <3>4, GathersNext DEF list
    <3>7. IsFiniteSet(left \ {e}) /\ Cardinality(left \ {e}) = Cardinality(left) - 1
      BY <2>2, <3>2, FS_RemoveElement
    <3>8. Cardinality(left \ {e}) <= N - i
      <4>1. Cardinality(left) \in Nat
        BY <2>2, FS_CardinalityType
      <4>2. PICK c \in Nat : c = Cardinality(left)
        BY <4>1
      <4>3. i \in Nat /\ c <= N - (i - 1)
        BY <2>2, <2>5, <4>2
      <4>4. c - 1 <= N - i
        BY <1>1, <4>3
      <4>5. QED
        BY <3>7, <4>2, <4>4
    <3>9. QED
      BY <2>3, <3>5, <3>6, <3>7, <3>8
  <2>6. QED
    BY <2>4, <2>5
<1> HIDE DEF S
<1>8. 0..N \subseteq S
  BY <1>1, <1>6, <1>7, UpTo
<1>9. PICK left, r : left = run[N].left /\ r = run[N].unique
  OBVIOUS
<1>10. Gathered(n, T, left, r) /\ left = {}
  <2>1. N \in S
    BY <1>1, <1>8
  <2>2. /\ Gathered(n, T, left, r) /\ IsFiniteSet(left)
        /\ left = {} \/ Cardinality(left) <= N - N
    BY <1>9, <2>1 DEF S
  <2>3. Cardinality(left) \in Nat
    BY <2>2, FS_CardinalityType
  <2>4. Cardinality(left) = 0 => left = {}
    BY <2>2, FS_EmptySet
  <2>5. QED
    BY <1>1, <2>2, <2>3, <2>4
<1>11. PICK k \in 1..(N + 1) : Covers(r, T, k) /\ \A p \in T : ~ (p < k)
  BY <1>10 DEF Gathered, N
<1>12. {p \in T : p >= k} = T /\ {p \in T : p >= 1} = T
  <2>1. \A p \in T : p \in Nat /\ ~ (p < k)
    BY <1>2, <1>11
  <2>2. k \in Nat
    BY <1>1, <1>11
  <2>3. \A p \in T : p >= k /\ p >= 1
    BY <1>2, <2>1, <2>2
  <2>4. QED
    BY <2>3
<1>13. Covers(r, T, 1)
  BY <1>11, <1>12 DEF Covers
<1>14. PICK p \in T : list[p].file_offset = 0
  BY TiledFacts DEF list
<1>15. r # <<>>
  BY <1>13, <1>12, <1>14 DEF Covers
<1>16. PICK q \in T : r[1].file_offset = list[q].file_offset /\ q <= p
  BY <1>12, <1>13, <1>14, <1>15 DEF Covers, list
<1>17. r[1].file_offset = 0
  <2>1. q < p => list[q].file_offset + list[q].size <= list[p].file_offset
    BY TiledFacts DEF Behind, list
  <2>2. list[q].file_offset \in Nat /\ list[q].size \in Nat /\ list[q].size > 0
    BY <1>2
  <2>3. ~ (q < p)
    BY <1>14, <2>1, <2>2
  <2>4. q \in Nat /\ p \in Nat
    BY <1>2
  <2>5. q = p
    BY <1>16, <2>3, <2>4
  <2>6. QED
    BY <1>14, <1>16, <2>5
<1>18. IsTiling(r)
  <2>1. r \in Seq(ExtentEntry) /\ \A m \in 2..Len(r) : r[m].file_offset = Behind(r[m - 1])
    BY <1>13 DEF Covers
  <2>2. \A m \in 1..Len(r) : m = 1 \/ (m # 1 /\ m \in 2..Len(r))
    BY <2>1
  <2>3. QED
    BY <1>17, <2>1, <2>2 DEF IsTiling
<1>19. CachedExtents(n) = r
  BY <1>3, <1>9
<1>20. QED
  BY <1>13, <1>15, <1>18, <1>19

-----------------------------------------------------------------------------
(* What opens give *)

\* A list without holes of which the last extent ends a file without holes is a
\* layout of the file.
LEMMA ALayout ==
  ASSUME IsImage(image), NEW n, NEW T, Tiled(n, T),
         NEW i \in ToSet(image.inodes), i.inode = n,
         NEW r, IsTiling(r), r # <<>>,
         \A m \in 1..Len(r) : \E p \in T : r[m].file_offset = image.extents[p].file_offset,
         \A p \in T : Behind(image.extents[p]) <= Behind(r[Len(r)])
  PROVE  IsLayout(Opened(i.inode, i.size, r))
<1> DEFINE k == Len(r)
<1>1. k \in Nat \ {0} /\ k \in 1..k /\ r \in Seq(ExtentEntry)
  BY DEF IsTiling
<1>2. \A m \in 1..k : r[m] \in ExtentEntry
  BY <1>1
<1>3. r[k].file_offset \in Nat /\ r[k].size \in Nat
  BY <1>1, <1>2 DEF ExtentEntry
<1>4. i \in InodeEntry
  BY InodeFacts
<1>5. i.size \in Nat
  BY <1>4 DEF InodeEntry
<1>0. PICK p \in T :
        /\ \A q \in PlacesOf(n) : q # p => image.extents[q].file_offset < image.extents[p].file_offset
        /\ image.extents[p].file_offset < i.size
        /\ i.size <= Behind(image.extents[p])
  BY DEF Tiled
<1>6. r[k].file_offset < i.size
  <2>1. PICK q \in T : r[k].file_offset = image.extents[q].file_offset
    BY <1>1
  <2>2. q # p => image.extents[q].file_offset < image.extents[p].file_offset
    BY <1>0 DEF Tiled
  <2>3. image.extents[q].file_offset \in Nat /\ image.extents[p].file_offset \in Nat
    BY TiledFacts
  <2>4. PICK f \in Nat, g \in Nat :
          f = image.extents[q].file_offset /\ g = image.extents[p].file_offset
    BY <2>3
  <2>5. f <= g /\ g < i.size
    BY <1>0, <2>2, <2>4
  <2>6. f < i.size
    BY <1>5, <2>5
  <2>7. QED
    BY <2>1, <2>4, <2>6
<1>7. i.size <= r[k].file_offset + r[k].size
  <2>1. i.size <= Behind(image.extents[p])
    BY <1>0
  <2>2. Behind(image.extents[p]) \in Nat
    BY TiledFacts DEF Behind
  <2>3. Behind(image.extents[p]) <= r[k].file_offset + r[k].size
    BY DEF Behind
  <2>4. PICK end \in Nat : end = r[k].file_offset + r[k].size
    BY <1>3
  <2>5. PICK b \in Nat : b = Behind(image.extents[p])
    BY <2>2
  <2>6. i.size <= b /\ b <= end
    BY <2>1, <2>3, <2>4, <2>5
  <2>7. i.size <= end
    BY <1>5, <2>6
  <2>8. QED
    BY <2>4, <2>7
<1>8. \A m \in 1..k : r[m].file_offset = IF m = 1 THEN 0 ELSE r[m - 1].file_offset + r[m - 1].size
  BY DEF IsTiling, Behind
<1>9. PICK file : file = Opened(i.inode, i.size, r)
  OBVIOUS
<1>10. file.size = i.size /\ file.extents = r
  BY <1>9 DEF Opened
<1>11. IsLayout(file)
  BY <1>6, <1>7, <1>8, <1>10 DEF IsLayout
<1>12. QED
  BY <1>9, <1>11

\* The inode that a mount finds is the one that a cursor has cached.
LEMMA SameInode ==
  ASSUME IsImage(image), NEW n, FindInode(image, n) # None
  PROVE  /\ FindInode(image, n) \in ToSet(image.inodes)
         /\ FindInode(image, n).inode = n
         /\ Found({i \in Inodes(image) : i.inode = n}) = FindInode(image, n)
<1> DEFINE S == {i \in ToSet(image.inodes) \ image.unread : i.inode = n}
<1>1. FindInode(image, n) = Found(S)
  BY DEF FindInode
<1>2. Found(S) \in S
  BY <1>1, FoundIn
<1>3. {i \in Inodes(image) : i.inode = n} = S
  BY InodesAre
<1>4. QED
  BY <1>1, <1>2, <1>3

\* What a mount opens has an inode and extents, and is what the mount found.
LEMMA MountOpens ==
  ASSUME NEW d
  PROVE  LET i == FindInode(image, d.inode) IN
         /\ "file" \in DOMAIN Open(image, d) =>
              /\ i # None
              /\ Open(image, d) = Opened(i.inode, i.size, Chain(image, i.inode))
         /\ d # None /\ i # None /\ Chain(image, i.inode) # <<>> =>
              Open(image, d) = Opened(i.inode, i.size, Chain(image, i.inode))
<1>1. \A e : "file" \notin DOMAIN Raised(e)
  BY DEF Raised
<1>2. QED
  BY <1>1 DEF Open

\* The same of a cursor.
LEMMA CursorOpens ==
  ASSUME NEW d
  PROVE  LET i == CachedInode(view, d.inode) IN
         /\ "file" \in DOMAIN CursorOpen(view, d) =>
              /\ i # None
              /\ CursorOpen(view, d) = Opened(i.inode, i.size, CachedExtents(i.inode))
         /\ d # None /\ i # None /\ CachedExtents(i.inode) # <<>> =>
              CursorOpen(view, d) = Opened(i.inode, i.size, CachedExtents(i.inode))
<1>1. \A e : "file" \notin DOMAIN Raised(e)
  BY DEF Raised
<1>2. QED
  BY <1>1 DEF CursorOpen

\* A mount and a cursor make a file without holes of the same bytes.
LEMMA SameBytes ==
  ASSUME IsImage(image), NEW n \in Nat \ {0}, NEW T, Tiled(n, T)
  PROVE  Bytes(CachedExtents(n)) = Bytes(Chain(image, n))
<1>1. PICK r : r = Chain(image, n)
  OBVIOUS
<1>2. PICK c : c = CachedExtents(n)
  OBVIOUS
<1>3. r \in Seq(ExtentEntry) /\ c \in Seq(ExtentEntry)
  BY <1>1, <1>2, ChainIs, CachedIs DEF IsTiling
<1>4. ASSUME NEW b
      PROVE  b \in Bytes(r) <=> \E p \in T : b \in BytesOf(image.extents[p])
  <2>1. b \in Bytes(r) <=> \E m \in 1..Len(r) : b \in BytesOf(r[m])
    BY <1>3, BytesAre
  <2>2. /\ \A m \in 1..Len(r) : \E p \in T : r[m] = image.extents[p]
        /\ \A p \in T : \E m \in 1..Len(r) : r[m] = image.extents[p]
    BY <1>1, ChainIs
  <2>3. QED
    BY <2>1, <2>2
<1>5. {p \in T : p >= 1} = T
  <2>1. \A p \in T : p >= 1
    BY TiledFacts
  <2>2. QED
    BY <2>1
<1>6. ASSUME NEW b
      PROVE  b \in Bytes(c) <=> \E p \in T : b \in BytesOf(image.extents[p])
  <2>1. b \in Bytes(c) <=> \E m \in 1..Len(c) : b \in BytesOf(c[m])
    BY <1>3, BytesAre
  <2>2. Covers(c, T, 1)
    BY <1>2, CachedIs
  <2>3. QED
    BY <1>5, <2>1, <2>2 DEF Covers
<1>7. \A b : b \in Bytes(c) <=> b \in Bytes(r)
  BY <1>4, <1>6
<1>8. Bytes(c) = Bytes(r)
  BY <1>7
<1>9. QED
  BY <1>1, <1>2, <1>8

\* The layout of each of the two.
LEMMA ChainLayout ==
  ASSUME IsImage(image), NEW n, NEW T, Tiled(n, T),
         NEW i \in ToSet(image.inodes), i.inode = n
  PROVE  IsLayout(Opened(i.inode, i.size, Chain(image, n)))
<1>1. PICK r : r = Chain(image, n)
  OBVIOUS
<1>2. /\ IsTiling(r) /\ r # <<>>
      /\ \A m \in 1..Len(r) : \E p \in T : r[m] = image.extents[p]
      /\ \A p \in T : Behind(image.extents[p]) <= Behind(Last(r))
  BY <1>1, ChainIs
<1>3. Last(r) = r[Len(r)]
  BY DEF Last
<1>4. /\ \A m \in 1..Len(r) :
           \E p \in T : r[m].file_offset = image.extents[p].file_offset
      /\ \A p \in T : Behind(image.extents[p]) <= Behind(r[Len(r)])
  BY <1>2, <1>3
<1>5. QED
  BY <1>1, <1>2, <1>4, ALayout

\* The layout that a cursor hands to the file object.
LEMMA CachedLayout ==
  ASSUME IsImage(image), NEW n \in Nat \ {0}, NEW T, Tiled(n, T),
         NEW i \in ToSet(image.inodes), i.inode = n
  PROVE  IsLayout(Opened(i.inode, i.size, CachedExtents(n)))
<1>1. PICK r : r = CachedExtents(n)
  OBVIOUS
<1>2. IsTiling(r) /\ r # <<>> /\ Covers(r, T, 1)
  BY <1>1, CachedIs
<1>3. \A p \in T : p >= 1
  BY TiledFacts
<1>4. {p \in T : p >= 1} = T
  BY <1>3
<1>5. /\ \A m \in 1..Len(r) :
           \E p \in T : r[m].file_offset = image.extents[p].file_offset
      /\ \A p \in T : Behind(image.extents[p]) <= Behind(r[Len(r)])
  BY <1>2, <1>4 DEF Covers
<1>6. QED
  BY <1>1, <1>2, <1>5, ALayout


\* OpensAgree: a file without holes opened by a cursor (Cursor._extents_map,
\* _unique_extent_list) and by the mount (_find_extents) is made of the same bytes
\* of the image, in every cursor that a client can reach.
THEOREM OpensAlwaysAgree == Spec => []OpensAgree
<1>1. CursorInv => OpensAgree
  <2> SUFFICES ASSUME CursorInv, view # Mounted, NEW d \in view.entries,
                      IsFile(d), Solid(d.inode), FindInode(image, d.inode) # None
               PROVE  /\ "file" \in DOMAIN Open(image, d) /\ "file" \in DOMAIN CursorOpen(view, d)
                      /\ CursorOpen(view, d).file = Open(image, d).file
                      /\ CursorOpen(view, d).size = Open(image, d).size
                      /\ Bytes(CursorOpen(view, d).extents) = Bytes(Open(image, d).extents)
    BY DEF OpensAgree
  <2>1. PICK n : n = d.inode
    OBVIOUS
  <2>2. PICK i : i = FindInode(image, n)
    OBVIOUS
  <2>3. IsImage(image) /\ d \in Dirents(image)
    BY ACursor DEF Cached
  <2>4. d # None
    BY <2>3, NotNone
  <2>5. n \in Nat \ {0}
    BY <2>1, <2>3, DirentsAre, DirentFacts DEF DirentEntry, RootInode
  <2>6. i # None /\ i \in ToSet(image.inodes) /\ i.inode = n
    BY <2>1, <2>2, <2>3, SameInode
  <2>7. PICK T : Tiled(n, T)
    BY <2>1, <2>3, SolidTiles
  <2>8. Open(image, d) = Opened(n, i.size, Chain(image, n))
    BY <2>1, <2>2, <2>3, <2>4, <2>6, <2>7, MountOpens, ChainIs
  <2>9. CachedInode(view, n) = i
    BY <2>1, <2>2, <2>3, <2>6, SameInode DEF CachedInode, Files
  <2>10. CursorOpen(view, d) = Opened(n, i.size, CachedExtents(n))
    BY <2>1, <2>3, <2>4, <2>5, <2>6, <2>7, <2>9, CursorOpens, CachedIs
  <2>11. Bytes(CachedExtents(n)) = Bytes(Chain(image, n))
    BY <2>3, <2>5, <2>7, SameBytes
  <2>12. QED
    BY <2>8, <2>10, <2>11 DEF Opened
<1>2. QED
  BY <1>1, ClientInvariant, PTL

\* OpensLayouts: what an open of a file without holes hands to the file object is
\* a layout that the file object can read, of the mount and of every cursor that
\* a client can reach.
THEOREM OpensAlwaysLayouts == Spec => []OpensLayouts
<1>1. CursorInv => OpensLayouts
  <2> SUFFICES ASSUME CursorInv, NEW d \in ToSet(image.dirents), Solid(d.inode)
               PROVE  /\ "file" \in DOMAIN Open(image, d) => IsLayout(Open(image, d))
                      /\ view # Mounted /\ "file" \in DOMAIN CursorOpen(view, d) =>
                           IsLayout(CursorOpen(view, d))
    BY DEF OpensLayouts
  <2>1. PICK n : n = d.inode
    OBVIOUS
  <2>2. IsImage(image)
    BY ImagesAssumption DEF CursorInv
  <2>3. n \in Nat \ {0}
    BY <2>1, <2>2, DirentFacts DEF DirentEntry, RootInode
  <2>7. PICK T : Tiled(n, T)
    BY <2>1, <2>2, SolidTiles
  <2>4. ASSUME "file" \in DOMAIN Open(image, d) PROVE IsLayout(Open(image, d))
    <3>1. PICK i : i = FindInode(image, n)
      OBVIOUS
    <3>2. i # None /\ Open(image, d) = Opened(i.inode, i.size, Chain(image, i.inode))
      BY <2>1, <2>4, <3>1, MountOpens
    <3>3. i \in ToSet(image.inodes) /\ i.inode = n
      BY <2>2, <3>1, <3>2, SameInode
    <3>4. IsLayout(Opened(i.inode, i.size, Chain(image, n)))
      BY <2>2, <2>7, <3>3, ChainLayout
    <3>5. QED
      BY <3>2, <3>3, <3>4
  <2>5. ASSUME view # Mounted, "file" \in DOMAIN CursorOpen(view, d)
        PROVE  IsLayout(CursorOpen(view, d))
    <3>1. PICK i : i = CachedInode(view, n)
      OBVIOUS
    <3>2. i # None /\ CursorOpen(view, d) = Opened(i.inode, i.size, CachedExtents(i.inode))
      BY <2>1, <2>5, <3>1, CursorOpens
    <3>3. i \in {j \in Inodes(image) : j.inode = n}
      BY <3>1, <3>2, FoundIn DEF CachedInode
    <3>4. i \in ToSet(image.inodes) /\ i.inode = n
      BY <2>2, <3>3, InodesAre
    <3>5. IsLayout(Opened(i.inode, i.size, CachedExtents(n)))
      BY <2>2, <2>3, <2>7, <3>4, CachedLayout
    <3>6. QED
      BY <3>2, <3>4, <3>5
  <2>6. QED
    BY <2>4, <2>5
<1>2. QED
  BY <1>1, ClientInvariant, PTL
=============================================================================
