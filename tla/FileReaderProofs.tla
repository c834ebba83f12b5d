-------------------------- MODULE FileReaderProofs --------------------------
(***************************************************************************)
(* Proofs about files read extent by extent, for all files, buffers and    *)
(* interleavings of calls, when clients use files as documented: the       *)
(* cursor of every open file agrees with itself, and every file is a       *)
(* stream of its bytes.  The invariant of the cursors adds that a read of  *)
(* the image under way is for an extent that exists, and the sizes of      *)
(* buffers; that of the streams adds what a running call has put into its  *)
(* buffer, and where the position of the image must be for it to go on.    *)
(***************************************************************************)
EXTENDS FileReader, SequenceTheorems, WellFoundedInduction, TLAPS

\* A read of the image that has been seeked for has an extent to read.
SeekedOpen == \A r \in Reader : Reading(r) /\ Call(r).seeked => ~Closed(r)

\* The buffer of readall is as long as the file, and its loop is at an extent.
WholeBuffer ==
  \A r \in Reader : ReadingAll(r) =>
    /\ Len(Call(r).buf) = Size(r)
    /\ Call(r).seeked => Call(r).extent < Len(Extents(r))

CursorInv == TypeOK /\ CursorAgrees /\ SeekedOpen /\ WholeBuffer

-----------------------------------------------------------------------------
(* What the definitions compute *)

\* A bound of a slice lies in the buffer.
LEMMA BoundInBuffer ==
  ASSUME NEW i \in Int, NEW n \in Nat
  PROVE  /\ Bound(i, n) \in 0..n
         /\ i \in 0..n => Bound(i, n) = i
BY DEF Bound, Min2, Max2

\* What a read of the image adds stays in the extent and in the buffer.
LEMMA ReadInExtent ==
  ASSUME NEW room \in Nat, NEW rest \in Nat \ {0}, NEW p \in Process, image_pos[p] \in Nat
  PROVE  /\ Available(p, Bound(Min2(room, rest), room)) \in 0..rest
         /\ Available(p, Bound(Min2(room, rest), room)) \in 0..room
BY NumbersAssumption DEF Available, Bound, Min2, Max2

\* Putting image bytes into a buffer leaves a buffer of the same length.
LEMMA PutBuffer ==
  ASSUME NEW buf \in Seq(Nat \cup {Junk}), NEW d \in Nat, NEW at \in Nat, NEW k \in Int
  PROVE  /\ Put(buf, d, at, k) \in Seq(Nat \cup {Junk})
         /\ Len(Put(buf, d, at, k)) = Len(buf)
<1> DEFINE filled == Put(buf, d, at, k)
<1>1. Len(buf) \in Nat
  OBVIOUS
<1>2. \A i \in 1..Len(buf) : filled[i] \in Nat \cup {Junk}
  <2> TAKE i \in 1..Len(buf)
  <2>1. buf[i] \in Nat \cup {Junk}
    OBVIOUS
  <2>2. CASE i \in (d + 1)..(d + k)
    <3>1. at + (i - d - 1) \in Nat
      BY <2>2
    <3> QED
      BY <2>2, <3>1 DEF Put
  <2>3. CASE i \notin (d + 1)..(d + k)
    BY <2>1, <2>3 DEF Put
  <2> QED
    BY <2>2, <2>3
<1>3. filled \in [1..Len(buf) -> Nat \cup {Junk}]
  BY <1>2 DEF Put
<1> QED
  BY <1>1, <1>3, IsASeq, LenProperties

\* A part of a buffer is a sequence of the same bytes.
LEMMA PrefixBuffer ==
  ASSUME NEW buf \in Seq(Nat \cup {Junk}), NEW n \in 0..Len(buf)
  PROVE  SubSeq(buf, 1, n) \in Seq(Nat \cup {Junk})
<1>1. \A i \in 1..n : buf[i] \in Nat \cup {Junk}
  OBVIOUS
<1> QED
  BY <1>1, SubSeqProperties

\* What the type and the layout say of a file.
LEMMA FileFacts ==
  ASSUME TypeOK, NEW r \in Reader
  PROVE  /\ IsLayout(layout[r])
         /\ Len(Extents(r)) \in Nat /\ Size(r) \in Nat
         /\ \A i \in 1..Len(Extents(r)) :
              /\ Extents(r)[i] \in Extent
              /\ Extents(r)[i].file_offset \in Nat
              /\ Extents(r)[i].offset \in Nat
              /\ Extents(r)[i].size \in Nat \ {0}
              /\ Extents(r)[i].file_offset < Size(r)
              /\ i > 1 => Extents(r)[i].file_offset = End(Extents(r)[i - 1])
         /\ ~Closed(r) => extent_pos[r] + 1 \in 1..Len(Extents(r))
<1>1. IsLayout(layout[r])
  BY LayoutsAssumption DEF TypeOK
<1>2. Extents(r) \in Seq(Extent) /\ Size(r) \in Nat
  BY <1>1 DEF IsLayout, Extents, Size
<1>3. \A i \in 1..Len(Extents(r)) :
        /\ Extents(r)[i].file_offset < Size(r)
        /\ i > 1 => Extents(r)[i].file_offset = End(Extents(r)[i - 1])
  BY <1>1 DEF IsLayout, Extents, Size
<1>4. \A i \in 1..Len(Extents(r)) : Extents(r)[i] \in Extent
  BY <1>2, ElementOfSeq
<1>5. Len(Extents(r)) \in Nat
  BY <1>2, LenProperties
<1>6. extent_pos[r] \in Nat
  BY DEF TypeOK
<1>7. ~Closed(r) => extent_pos[r] + 1 \in 1..Len(Extents(r))
  BY <1>5, <1>6 DEF Closed
<1>8. \A i \in 1..Len(Extents(r)) : /\ Extents(r)[i].file_offset \in Nat
                                    /\ Extents(r)[i].offset \in Nat
                                    /\ Extents(r)[i].size \in Nat \ {0}
  BY <1>4 DEF Extent
<1> QED
  BY <1>1, <1>2, <1>3, <1>4, <1>5, <1>7, <1>8

\* The last extent covers the end of the file.
LEMMA LastExtent ==
  ASSUME TypeOK, NEW r \in Reader, NEW i \in 1..Len(Extents(r)), i = Len(Extents(r))
  PROVE  Size(r) <= End(Extents(r)[i])
<1> DEFINE es == Extents(r)
<1>1. /\ Len(es) \in Nat /\ Size(r) \in Nat
      /\ \A j \in 1..Len(es) : /\ es[j].file_offset \in Nat
                               /\ es[j].file_offset < Size(r)
                               /\ j > 1 => es[j].file_offset = End(es[j - 1])
  BY FileFacts
<1>2. Size(r) - 1 \in 0..(Size(r) - 1)
  BY <1>1
<1>3. PICK j \in 1..Len(es) : Holds(es[j], Size(r) - 1)
  <2>1. IsLayout(layout[r])
    BY FileFacts
  <2> QED
    BY <1>2, <2>1 DEF IsLayout, Extents, Size
<1>4. Size(r) - 1 < End(es[j])
  BY <1>3 DEF Holds
<1>5. End(es[j]) \in Nat
  BY FileFacts DEF End
<1>6. CASE j = i
  BY <1>1, <1>4, <1>5, <1>6
<1>7. CASE j # i
  <2>1. j + 1 \in 1..Len(es) /\ j + 1 > 1 /\ (j + 1) - 1 = j
    BY <1>1, <1>7
  <2>2. es[j + 1].file_offset = End(es[j])
    BY <1>1, <2>1
  <2>3. es[j + 1].file_offset < Size(r)
    BY <1>1, <2>1
  <2> QED
    BY <1>1, <1>4, <1>5, <2>2, <2>3
<1> QED
  BY <1>6, <1>7

\* A running call has the type of one.
LEMMA CallFacts ==
  ASSUME TypeOK, NEW r \in Reader
  PROVE  /\ ProcessOf[r] \in Process
         /\ Call(r) \in CallType
         /\ Calling(r) => /\ Call(r).op \in {"readinto", "readinto1", "readall"}
                          /\ Call(r).reader \in Reader
                          /\ Call(r).buf \in Seq(Nat \cup {Junk})
                          /\ Call(r).size \in Nat /\ Call(r).extent \in Nat
                          /\ Call(r).seeked \in BOOLEAN /\ Call(r).from \in Nat
                          /\ Call(r) \in CallType \ {Idle}
<1>1. ProcessOf[r] \in Process
  BY ProcessAssumption
<1>2. Call(r) \in CallType
  BY <1>1 DEF TypeOK, Call
<1>3. Calling(r) => Call(r) # Idle
  BY DEF Calling, Idle
<1>4. Calling(r) => Call(r) \in [op: {"readinto", "readinto1", "readall"}, reader: Reader,
               buf: Seq(Nat \cup {Junk}), size: Nat, extent: Nat,
               seeked: BOOLEAN, from: Nat]
  BY <1>2, <1>3 DEF CallType
<1> QED
  BY <1>1, <1>2, <1>3, <1>4

\* Where the cursor is after a read of the image took rd bytes.
LEMMA CursorMoves ==
  ASSUME TypeOK, CursorAgrees, NEW r \in Reader, ~Closed(r),
         NEW rd \in 0..(Current(r).size - extent_read[r]),
         NEW diff \in Int, diff = Max2(pos[r] + rd - Size(r), 0),
         NEW skipped \in Int,
         skipped = (IF extent_read[r] + rd >= Current(r).size THEN 1 ELSE 0)
                     + (IF diff > 0 THEN 1 ELSE 0),
         NEW k \in Int, k = extent_pos[r] + skipped,
         NEW er \in Int, er = (IF skipped > 0 THEN 0 ELSE extent_read[r] + rd),
         NEW p \in Int, p = pos[r] + rd - diff
  PROVE  /\ k \in Nat /\ er \in Nat /\ p \in Nat /\ diff \in 0..rd
         /\ IF k >= Len(Extents(r))
              THEN p = Size(r) /\ er = 0
              ELSE /\ p = Extents(r)[k + 1].file_offset + er /\ p <= Size(r)
                   /\ er \in 0..(Extents(r)[k + 1].size - 1)
<1> DEFINE at == extent_pos[r]
           n == Len(Extents(r))
           e == Extents(r)[at + 1]
           start == e.file_offset
           length == e.size
           read == extent_read[r]
           size == Size(r)
<1>1. at \in Nat /\ n \in Nat /\ size \in Nat /\ at + 1 \in 1..n /\ read \in Nat
  BY FileFacts DEF TypeOK
<1>2. /\ start \in Nat /\ length \in Nat \ {0} /\ End(e) = start + length
  BY <1>1, FileFacts DEF End
<1>3. Current(r) = e
  BY DEF Current
<1>4. read \in 0..(length - 1) /\ pos[r] = start + read /\ start + read <= size
  BY <1>3 DEF CursorAgrees, NextByte
<1>5. at + 1 = n => size <= start + length
  BY <1>1, <1>2, LastExtent
<1>6. at + 1 # n => /\ at + 2 \in 1..n
                    /\ Extents(r)[at + 2].file_offset = start + length
                    /\ start + length < size
                    /\ Extents(r)[at + 2].size \in Nat \ {0}
  <2>1. SUFFICES ASSUME at + 1 # n
                 PROVE  /\ at + 2 \in 1..n
                        /\ Extents(r)[at + 2].file_offset = start + length
                        /\ start + length < size
                        /\ Extents(r)[at + 2].size \in Nat \ {0}
    OBVIOUS
  <2>2. at + 2 \in 1..n /\ at + 2 > 1 /\ (at + 2) - 1 = at + 1
    <3> HIDE DEF at, n
    <3> QED
      BY <1>1, <2>1
  <2>3. /\ Extents(r)[at + 2].file_offset = End(Extents(r)[(at + 2) - 1])
        /\ Extents(r)[at + 2].file_offset < size
        /\ Extents(r)[at + 2].size \in Nat \ {0}
    BY <2>2, FileFacts
  <2>4. Extents(r)[(at + 2) - 1] = e
    BY <2>2
  <2> QED
    BY <1>2, <2>2, <2>3, <2>4
<1>7. /\ rd \in Int /\ 0 <= rd /\ read + rd <= length
      /\ diff = Max2(start + read + rd - size, 0)
      /\ skipped = (IF read + rd >= length THEN 1 ELSE 0) + (IF diff > 0 THEN 1 ELSE 0)
      /\ k = at + skipped
      /\ er = (IF skipped > 0 THEN 0 ELSE read + rd)
      /\ p = start + read + rd - diff
  <2>1. rd \in 0..(length - read) /\ pos[r] = start + read
    BY <1>3, <1>4
  <2>2. rd \in Int /\ 0 <= rd /\ read + rd <= length
    <3> HIDE DEF length, read, start
    <3> QED
      BY <1>1, <1>2, <2>1
  <2>3. skipped = (IF read + rd >= length THEN 1 ELSE 0) + (IF diff > 0 THEN 1 ELSE 0)
    BY <1>3
  <2> QED
    BY <2>1, <2>2, <2>3
<1>8. at + 1 # n => start + length < size
  BY <1>6
<1> HIDE DEF at, n, start, length, read, size
<1>9. /\ diff \in Nat /\ (diff > 0 => diff = start + read + rd - size)
      /\ (diff = 0 => start + read + rd <= size)
  BY <1>1, <1>2, <1>4, <1>7 DEF Max2
<1>10. diff <= rd /\ p <= size /\ p \in Nat
  BY <1>1, <1>2, <1>4, <1>7, <1>9
<1>11. CASE diff > 0
  <2>1. at + 1 = n
    BY <1>1, <1>2, <1>4, <1>7, <1>8, <1>9, <1>11
  <2>2. p = size
    BY <1>1, <1>2, <1>4, <1>7, <1>9, <1>11
  <2>3. skipped > 0
    BY <1>7, <1>11
  <2>4. k >= n /\ er = 0 /\ k \in Nat
    BY <1>1, <1>7, <2>1, <2>3
  <2> QED
    BY <1>9, <1>10, <2>2, <2>4 DEF n, size
<1>12. CASE ~(diff > 0) /\ read + rd >= length
  <2>1. skipped = 1 /\ er = 0 /\ k = at + 1 /\ read + rd = length /\ diff = 0
    <3>1. skipped = 1 /\ diff = 0 /\ er = 0
      BY <1>7, <1>9, <1>12
    <3>2. k = at + 1
      BY <1>1, <1>7, <3>1
    <3>3. read \in Int /\ length \in Int /\ rd \in Int
      BY <1>1, <1>2, <1>7
    <3>4. read + rd = length
      BY <1>7, <1>12, <3>3
    <3> QED
      BY <3>1, <3>2, <3>4
  <2>2. p = start + length /\ k \in Nat
    BY <1>1, <1>2, <1>4, <1>7, <2>1
  <2>3. CASE at + 1 = n
    <3>1. p = size /\ k >= n
      BY <1>1, <1>2, <1>5, <1>10, <2>1, <2>2, <2>3
    <3> QED
      BY <1>9, <1>10, <2>1, <2>2, <3>1 DEF n, size
  <2>4. CASE at + 1 # n
    <3>1. k + 1 = at + 2 /\ ~(k >= n)
      BY <1>1, <2>1, <2>4
    <3>2. Extents(r)[k + 1].file_offset = p /\ Extents(r)[k + 1].size \in Nat \ {0}
      BY <1>6, <2>2, <2>4, <3>1
    <3>3. p = Extents(r)[k + 1].file_offset + er /\ er \in 0..(Extents(r)[k + 1].size - 1)
      BY <1>10, <2>1, <3>2
    <3> QED
      BY <1>9, <1>10, <2>1, <2>2, <3>1, <3>3 DEF n, size
  <2> QED
    BY <2>3, <2>4
<1>13. CASE ~(diff > 0) /\ ~(read + rd >= length)
  <2>1. skipped = 0 /\ diff = 0
    BY <1>7, <1>9, <1>13
  <2>2. er = read + rd /\ k = at /\ k \in Nat /\ ~(k >= n)
    BY <1>1, <1>7, <2>1
  <2>3. er \in 0..(length - 1) /\ er \in Nat /\ p = start + er
    BY <1>1, <1>2, <1>4, <1>7, <1>13, <2>1, <2>2
  <2>4. Extents(r)[k + 1] = e
    BY <2>2 DEF at
  <2> QED
    BY <1>9, <1>10, <2>2, <2>3, <2>4 DEF n, size, start, length
<1> QED
  BY <1>9, <1>11, <1>12, <1>13

-----------------------------------------------------------------------------
(* Steps *)

\* What the invariant asks of a call c made on r.
CallOf(r, c) ==
  /\ c \in CallType
  /\ c # Idle => /\ c.reader = r
                 /\ c.op # "readall" /\ c.seeked => ~Closed(r)
                 /\ c.op = "readall" => /\ Len(c.buf) = Size(r)
                                        /\ c.seeked => c.extent < Len(Extents(r))

\* A step of one file's call leaves the calls of other processes alone, and in
\* its own process there is no other.
LEMMA CallChanges ==
  ASSUME CursorInv, NEW r \in Reader, NEW c,
         SetCall(r, c), layout' = layout, CallOf(r, c)',
         \A q \in Reader : q # r => extent_pos'[q] = extent_pos[q]
  PROVE  call' \in [Process -> CallType] /\ SeekedOpen' /\ WholeBuffer'
<1>1. ProcessOf[r] \in Process /\ call \in [Process -> CallType]
  BY CallFacts DEF CursorInv, TypeOK
<1>2. c \in CallType /\ (c # Idle => c.reader = r)
  BY DEF CallOf, CallType, Idle
<1>3. call' \in [Process -> CallType]
  BY <1>1, <1>2 DEF SetCall
<1>4. \A q \in Reader : ProcessOf[q] = ProcessOf[r] => Call(q)' = c
  BY <1>1 DEF SetCall, Call
<1>5. \A q \in Reader : ProcessOf[q] # ProcessOf[r] => Call(q)' = Call(q)
  BY <1>1, ProcessAssumption DEF SetCall, Call
<1>6. ASSUME NEW q \in Reader, Calling(q)', ProcessOf[q] = ProcessOf[r]
      PROVE  q = r /\ c # Idle
  BY <1>2, <1>4, <1>6 DEF Calling, Idle
<1>7. SeekedOpen'
  <2> SUFFICES ASSUME NEW q \in Reader, Reading(q)', Call(q)'.seeked
               PROVE  ~Closed(q)'
    BY DEF SeekedOpen
  <2>1. Calling(q)' /\ Call(q)'.op # "readall"
    BY DEF Reading
  <2>2. CASE ProcessOf[q] = ProcessOf[r]
    BY <1>4, <1>6, <2>1, <2>2 DEF CallOf
  <2>3. CASE ProcessOf[q] # ProcessOf[r]
    <3>1. Reading(q) /\ Call(q).seeked
      BY <1>5, <2>3 DEF Reading, Calling
    <3>2. ~Closed(q)
      BY <3>1 DEF CursorInv, SeekedOpen
    <3> QED
      BY <2>3, <3>2 DEF Closed, Extents
  <2> QED
    BY <2>2, <2>3
<1>8. WholeBuffer'
  <2> SUFFICES ASSUME NEW q \in Reader, ReadingAll(q)'
               PROVE  /\ Len(Call(q)'.buf) = Size(q)'
                      /\ Call(q)'.seeked => Call(q)'.extent < Len(Extents(q)')
    BY DEF WholeBuffer
  <2>1. Calling(q)' /\ Call(q)'.op = "readall"
    BY DEF ReadingAll
  <2>2. CASE ProcessOf[q] = ProcessOf[r]
    BY <1>4, <1>6, <2>1, <2>2 DEF CallOf
  <2>3. CASE ProcessOf[q] # ProcessOf[r]
    <3>1. ReadingAll(q)
      BY <1>5, <2>3 DEF ReadingAll, Calling
    <3> QED
      BY <1>5, <2>3, <3>1 DEF CursorInv, WholeBuffer, Extents, Size
  <2> QED
    BY <2>2, <2>3
<1> QED
  BY <1>3, <1>7, <1>8

\* An idle process is in no call, so that the cursor of its files may be moved.
LEMMA FreeCalls ==
  ASSUME CursorInv, NEW r \in Reader, Free(r), call' = call, layout' = layout,
         \A q \in Reader : q # r => extent_pos'[q] = extent_pos[q]
  PROVE  SeekedOpen' /\ WholeBuffer'
<1>1. \A q \in Reader : Call(q)' = Call(q)
  BY DEF Call
<1>2. ~Calling(r)
  BY DEF Free, Calling, Call, Idle
<1>3. SeekedOpen'
  <2> SUFFICES ASSUME NEW q \in Reader, Reading(q)', Call(q)'.seeked
               PROVE  ~Closed(q)'
    BY DEF SeekedOpen
  <2>1. Reading(q) /\ Call(q).seeked /\ q # r
    BY <1>1, <1>2 DEF Reading, Calling
  <2>2. ~Closed(q)
    BY <2>1 DEF CursorInv, SeekedOpen
  <2> QED
    BY <2>1, <2>2 DEF Closed, Extents
<1>4. WholeBuffer'
  BY <1>1 DEF CursorInv, WholeBuffer, ReadingAll, Calling, Extents, Size
<1> QED
  BY <1>3, <1>4

\* Only the cursor of r has moved.
LEMMA OneCursor ==
  ASSUME CursorAgrees, layout' = layout, NEW r \in Reader,
         \A q \in Reader : q # r => /\ extent_pos'[q] = extent_pos[q]
                                    /\ extent_read'[q] = extent_read[q]
                                    /\ pos'[q] = pos[q],
         IF Closed(r)' THEN pos'[r] = Size(r) /\ extent_read'[r] = 0
                       ELSE /\ pos'[r] = NextByte(r)' /\ pos'[r] <= Size(r)
                            /\ extent_read'[r] \in 0..(Current(r)'.size - 1)
  PROVE  CursorAgrees'
<1>1. ASSUME NEW q \in Reader, q # r
      PROVE  IF Closed(q)' THEN pos'[q] = Size(q)' /\ extent_read'[q] = 0
                           ELSE /\ pos'[q] = NextByte(q)' /\ pos'[q] <= Size(q)'
                                /\ extent_read'[q] \in 0..(Current(q)'.size - 1)
  <2>1. /\ Closed(q)' = Closed(q) /\ Size(q)' = Size(q) /\ Current(q)' = Current(q)
        /\ NextByte(q)' = NextByte(q)
    BY <1>1 DEF Closed, Size, Current, NextByte, Extents
  <2> QED
    BY <1>1, <2>1 DEF CursorAgrees
<1>2. Size(r)' = Size(r)
  BY DEF Size
<1> QED
  BY <1>1, <1>2 DEF CursorAgrees

\* Nothing of the cursors has moved.
LEMMA SameCursor ==
  ASSUME CursorAgrees, UNCHANGED <<layout, cursor_vars>>
  PROVE  CursorAgrees'
BY DEF CursorAgrees, cursor_vars, Closed, Size, Current, NextByte, Extents

\* A call starts with a buffer of its own.
LEMMA StartCallStep ==
  ASSUME CursorInv, NEW r \in Reader, NEW n \in Nat,
         NEW op \in {"readinto", "readinto1", "readall"}, op = "readall" => n = Size(r),
         StartCall(r, op, n)
  PROVE  CursorInv'
<1> USE DEF CursorInv
<1>1. PICK c : c = [op |-> op, reader |-> r, buf |-> [i \in 1..n |-> Junk], size |-> 0,
                    extent |-> 0, seeked |-> FALSE, from |-> pos[r]]
  OBVIOUS
<1>2. SetCall(r, c) /\ UNCHANGED <<layout, cursor_vars, image_pos, result>>
  BY <1>1 DEF StartCall
<1>3. c.buf \in Seq(Nat \cup {Junk}) /\ Len(c.buf) = n
  <2>1. c.buf = [i \in 1..n |-> Junk] /\ c.buf \in [1..n -> Nat \cup {Junk}]
    BY <1>1
  <2> QED
    BY <2>1, IsASeq, LenProperties
<1>4. c \in CallType
  <2>1. pos[r] \in Nat
    BY DEF TypeOK
  <2> QED
    BY <1>1, <1>3, <2>1 DEF CallType
<1>5. CallOf(r, c)'
  <2>1. Size(r)' = Size(r)
    BY <1>2 DEF Size
  <2>2. c.reader = r /\ c.seeked = FALSE /\ c.op = op
    BY <1>1
  <2> QED
    BY <1>3, <1>4, <2>1, <2>2 DEF CallOf, CallType
<1>6. call' \in [Process -> CallType] /\ SeekedOpen' /\ WholeBuffer'
  BY <1>2, <1>5, CallChanges DEF cursor_vars
<1>7. TypeOK'
  BY <1>2, <1>6 DEF TypeOK, CallType, cursor_vars
<1>8. CursorAgrees'
  BY <1>2, SameCursor
<1> QED
  BY <1>6, <1>7, <1>8

\* A call returns a sequence of bytes, and the cursor stays.
LEMMA ReturnStep ==
  ASSUME CursorInv, NEW r \in Reader, NEW bytes \in Seq(Nat \cup {Junk}),
         Return(r, bytes), UNCHANGED <<layout, cursor_vars, image_pos>>
  PROVE  CursorInv'
<1> USE DEF CursorInv
<1>1. CallOf(r, Idle)'
  BY DEF CallOf, CallType
<1>2. call' \in [Process -> CallType] /\ SeekedOpen' /\ WholeBuffer'
  BY <1>1, CallChanges DEF cursor_vars, Return
<1>3. result' \in [Reader -> Seq(Nat \cup {Junk})]
  BY DEF Return, TypeOK
<1>4. TypeOK'
  BY <1>2, <1>3 DEF TypeOK, CallType, cursor_vars
<1>5. CursorAgrees'
  BY SameCursor
<1> QED
  BY <1>2, <1>4, <1>5

\* A read that finds no extent left moves no cursor.
LEMMA OutOfExtentsStep ==
  ASSUME CursorInv, NEW r \in Reader, OutOfExtents(r)
  PROVE  CursorInv'
<1> DEFINE n == Bound(Call(r).size, Len(Call(r).buf))
<1>1. Call(r).buf \in Seq(Nat \cup {Junk}) /\ Call(r).size \in Nat
  BY CallFacts DEF OutOfExtents, Reading, CursorInv
<1>2. n \in 0..Len(Call(r).buf)
  <2>1. Call(r).size \in Int /\ Len(Call(r).buf) \in Nat
    BY <1>1, LenProperties
  <2> QED
    BY <2>1, BoundInBuffer, Zenon
<1>3. SubSeq(Call(r).buf, 1, n) \in Seq(Nat \cup {Junk})
  BY <1>1, <1>2, PrefixBuffer
<1> QED
  BY <1>3, ReturnStep DEF OutOfExtents

\* readall ends with the cursor behind the last extent.
LEMMA ReturnAllStep ==
  ASSUME CursorInv, NEW r \in Reader, ReturnAll(r)
  PROVE  CursorInv'
<1>1. Call(r).buf \in Seq(Nat \cup {Junk})
  BY CallFacts DEF ReturnAll, ReadingAll, CursorInv
<1> QED
  BY <1>1, ReturnStep DEF ReturnAll

\* The position of the image is set for an extent of the file.
LEMMA SeekToStep ==
  ASSUME CursorInv, NEW r \in Reader, NEW offset \in Nat, Calling(r), SeekTo(r, offset),
         Call(r).op # "readall" => ~Closed(r),
         Call(r).op = "readall" => Call(r).extent < Len(Extents(r))
  PROVE  CursorInv'
<1> USE DEF CursorInv
<1>1. PICK c : c = [Call(r) EXCEPT !.seeked = TRUE]
  OBVIOUS
<1>2. SetCall(r, c) /\ UNCHANGED <<layout, cursor_vars, result>>
  BY <1>1 DEF SeekTo
<1>3. Call(r) \in CallType \ {Idle} /\ Call(r).reader = r
  BY CallFacts DEF Calling
<1>4. /\ c \in CallType /\ c.reader = r /\ c.op = Call(r).op /\ c.buf = Call(r).buf
      /\ c.extent = Call(r).extent
  BY <1>1, <1>3 DEF CallType
<1>5. CallOf(r, c)'
  <2>1. Size(r)' = Size(r) /\ Extents(r)' = Extents(r) /\ Closed(r)' = Closed(r)
    BY <1>2 DEF Size, Extents, Closed, cursor_vars
  <2>2. c.op = "readall" => Len(c.buf) = Size(r)
    BY <1>4 DEF WholeBuffer, ReadingAll
  <2> QED
    BY <1>4, <2>1, <2>2 DEF CallOf, CallType
<1>6. call' \in [Process -> CallType] /\ SeekedOpen' /\ WholeBuffer'
  BY <1>2, <1>5, CallChanges DEF cursor_vars
<1>7. image_pos' \in [Process -> Nat]
  BY CallFacts DEF SeekTo, TypeOK
<1>8. TypeOK'
  BY <1>2, <1>6, <1>7 DEF TypeOK, CallType, cursor_vars
<1>9. CursorAgrees'
  BY <1>2, SameCursor
<1> QED
  BY <1>6, <1>8, <1>9

\* A read of an extent moves the image's position and no cursor.
LEMMA SeekImageStep ==
  ASSUME CursorInv, NEW r \in Reader, SeekImage(r)
  PROVE  CursorInv'
<1>1. Calling(r) /\ Call(r).op # "readall" /\ ~Closed(r)
  BY DEF SeekImage, Reading
<1>2. Current(r).offset \in Nat /\ extent_read[r] \in Nat
  BY <1>1, FileFacts DEF Current, CursorInv, TypeOK
<1>3. Current(r).offset + extent_read[r] \in Nat
  BY <1>2
<1> QED
  BY <1>1, <1>3, SeekToStep DEF SeekImage

\* readall moves the image's position to the extent it comes to.
LEMMA SeekExtentStep ==
  ASSUME CursorInv, NEW r \in Reader, SeekExtent(r)
  PROVE  CursorInv'
<1>1. Calling(r) /\ Call(r).op = "readall" /\ Call(r).extent < Len(Extents(r))
  BY DEF SeekExtent, ReadingAll
<1>2. Call(r).extent \in Nat /\ Len(Extents(r)) \in Nat
  BY <1>1, CallFacts, FileFacts DEF CursorInv
<1>3. Call(r).extent + 1 \in 1..Len(Extents(r))
  BY <1>1, <1>2
<1>4. Extents(r)[Call(r).extent + 1].offset \in Nat
  BY <1>3, FileFacts DEF CursorInv
<1> QED
  BY <1>1, <1>4, SeekToStep DEF SeekExtent

\* The one step that moves a cursor while a call runs.
LEMMA ReadImageStep ==
  ASSUME CursorInv, NEW r \in Reader, ReadImage(r)
  PROVE  CursorInv'
<1> USE DEF CursorInv
<1>1. Calling(r) /\ ~Closed(r) /\ Call(r).seeked /\ Call(r).op # "readall" /\ Reading(r)
  BY DEF ReadImage, Reading, SeekedOpen
<1>2. PICK c : c = Call(r)
  OBVIOUS
<1>3. PICK dest : dest = Bound(c.size, Len(c.buf))
  OBVIOUS
<1>4. PICK room : room = Len(c.buf) - dest
  OBVIOUS
<1>5. PICK rd : rd = Available(ProcessOf[r],
                       Bound(Min2(room, Current(r).size - extent_read[r]), room))
  OBVIOUS
<1>6. PICK filled : filled = Put(c.buf, dest, image_pos[ProcessOf[r]], rd)
  OBVIOUS
<1>7. PICK diff : diff = Max2(pos[r] + rd - Size(r), 0)
  OBVIOUS
<1>8. PICK skipped : skipped = Skips(extent_read[r] + rd >= Current(r).size, diff > 0)
  OBVIOUS
<1>9. PICK size : size = c.size + rd - diff
  OBVIOUS
<1>10. /\ layout' = layout
       /\ extent_pos' = [extent_pos EXCEPT ![r] = @ + skipped]
       /\ extent_read' = [extent_read EXCEPT ![r] = IF skipped > 0 THEN 0 ELSE @ + rd]
       /\ pos' = [pos EXCEPT ![r] = @ + rd - diff]
       /\ image_pos' = [image_pos EXCEPT ![ProcessOf[r]] = @ + rd]
       /\ IF c.op = "readinto" /\ size < Len(c.buf) /\ ~Closed(r)'
            THEN /\ SetCall(r, [c EXCEPT !.buf = filled, !.size = size, !.seeked = FALSE])
                 /\ result' = result
            ELSE Return(r, SubSeq(filled, 1, Bound(size, Len(filled))))
  BY <1>2, <1>3, <1>4, <1>5, <1>6, <1>7, <1>8, <1>9, Zenon DEF ReadImage
<1>11. /\ c \in CallType \ {Idle} /\ c.buf \in Seq(Nat \cup {Junk}) /\ c.size \in Nat
       /\ c.reader = r /\ c.op # "readall"
       /\ ProcessOf[r] \in Process /\ image_pos[ProcessOf[r]] \in Nat
  BY <1>1, <1>2, CallFacts DEF Calling, TypeOK
<1>12. Len(c.buf) \in Nat /\ dest \in Nat /\ room \in Nat
  <2>1. Len(c.buf) \in Nat
    BY <1>11, LenProperties
  <2>2. dest \in 0..Len(c.buf)
    <3>1. c.size \in Int
      BY <1>11
    <3> QED
      BY <1>3, <2>1, <3>1, BoundInBuffer, Zenon
  <2> QED
    BY <1>4, <2>1, <2>2
<1>13. /\ extent_read[r] \in Nat /\ extent_pos[r] \in Nat /\ pos[r] \in Nat
       /\ Size(r) \in Nat /\ Current(r).size - extent_read[r] \in Nat \ {0}
       /\ Current(r).size \in Nat
  <2>1. extent_read[r] \in 0..(Current(r).size - 1)
    BY <1>1 DEF CursorAgrees
  <2>2. Current(r).size \in Nat
    BY <1>1, FileFacts DEF Current
  <2>3. Current(r).size - extent_read[r] \in Nat \ {0}
    BY <2>1, <2>2
  <2> QED
    BY <2>2, <2>3, FileFacts DEF TypeOK
<1>14. rd \in 0..(Current(r).size - extent_read[r]) /\ rd \in Nat
  <2>1. PICK rest \in Nat \ {0} : rest = Current(r).size - extent_read[r]
    BY <1>13
  <2>2. rd \in 0..rest
    BY <1>5, <1>11, <1>12, <2>1, ReadInExtent, Zenon
  <2> QED
    BY <2>1, <2>2
<1>15. diff \in Int
  BY <1>7, <1>13, <1>14 DEF Max2
<1>16. /\ skipped \in Int
       /\ skipped = (IF extent_read[r] + rd >= Current(r).size THEN 1 ELSE 0)
                      + (IF diff > 0 THEN 1 ELSE 0)
  BY <1>8 DEF Skips
<1>17. PICK k \in Int : k = extent_pos[r] + skipped
  BY <1>13, <1>16
<1>18. PICK er \in Int : er = (IF skipped > 0 THEN 0 ELSE extent_read[r] + rd)
  BY <1>13, <1>14
<1>19. PICK p \in Int : p = pos[r] + rd - diff
  BY <1>13, <1>14, <1>15
<1>20. /\ k \in Nat /\ er \in Nat /\ p \in Nat /\ diff \in 0..rd
       /\ IF k >= Len(Extents(r))
            THEN p = Size(r) /\ er = 0
            ELSE /\ p = Extents(r)[k + 1].file_offset + er /\ p <= Size(r)
                 /\ er \in 0..(Extents(r)[k + 1].size - 1)
  BY SMTT(30), <1>1, <1>7, <1>14, <1>15, <1>16, <1>17, <1>18, <1>19, CursorMoves
<1>21. /\ extent_pos' = [extent_pos EXCEPT ![r] = k]
       /\ extent_read' = [extent_read EXCEPT ![r] = er]
       /\ pos' = [pos EXCEPT ![r] = p]
  BY <1>10, <1>17, <1>18, <1>19 DEF TypeOK
<1>22. /\ extent_pos' \in [Reader -> Nat] /\ extent_read' \in [Reader -> Nat]
       /\ pos' \in [Reader -> Nat]
       /\ extent_pos'[r] = k /\ extent_read'[r] = er /\ pos'[r] = p
       /\ \A q \in Reader : q # r => /\ extent_pos'[q] = extent_pos[q]
                                     /\ extent_read'[q] = extent_read[q]
                                     /\ pos'[q] = pos[q]
  BY <1>20, <1>21 DEF TypeOK
<1>23. CursorAgrees'
  <2>1. IF Closed(r)' THEN pos'[r] = Size(r) /\ extent_read'[r] = 0
                      ELSE /\ pos'[r] = NextByte(r)' /\ pos'[r] <= Size(r)
                           /\ extent_read'[r] \in 0..(Current(r)'.size - 1)
    <3>1. Closed(r)' <=> k >= Len(Extents(r))
      BY <1>10, <1>22 DEF Closed, Extents
    <3>2. Current(r)' = Extents(r)[k + 1]
      BY <1>10, <1>22 DEF Current, Extents
    <3>3. NextByte(r)' = Extents(r)[k + 1].file_offset + er
      BY <1>22, <3>2 DEF NextByte
    <3> QED
      BY <1>20, <1>22, <3>1, <3>2, <3>3
  <2> QED
    BY <1>10, <1>22, <2>1, OneCursor
<1>24. image_pos' \in [Process -> Nat]
  BY SMTT(30), <1>10, <1>11, <1>14 DEF TypeOK
<1>25. /\ filled \in Seq(Nat \cup {Junk}) /\ Len(filled) = Len(c.buf)
       /\ size \in Nat
  <2>1. filled \in Seq(Nat \cup {Junk}) /\ Len(filled) = Len(c.buf)
    BY <1>6, <1>11, <1>12, <1>14, PutBuffer
  <2>2. size \in Nat
    BY <1>9, <1>11, <1>14, <1>20
  <2> QED
    BY <2>1, <2>2
<1>26. CASE c.op = "readinto" /\ size < Len(c.buf) /\ ~Closed(r)'
  <2>1. PICK d : d = [c EXCEPT !.buf = filled, !.size = size, !.seeked = FALSE]
    OBVIOUS
  <2>2. SetCall(r, d) /\ result' = result
    BY <1>10, <1>26, <2>1
  <2>3. d \in CallType /\ d.reader = r /\ d.op # "readall" /\ d.seeked = FALSE
    BY <1>11, <1>25, <2>1 DEF CallType
  <2>4. CallOf(r, d)'
    BY <2>3 DEF CallOf, CallType
  <2>5. call' \in [Process -> CallType] /\ SeekedOpen' /\ WholeBuffer'
    BY <1>10, <1>22, <2>2, <2>4, CallChanges
  <2>6. TypeOK'
    BY <1>10, <1>22, <1>24, <2>2, <2>5 DEF TypeOK, CallType
  <2> QED
    BY <1>23, <2>5, <2>6
<1>27. CASE ~(c.op = "readinto" /\ size < Len(c.buf) /\ ~Closed(r)')
  <2>1. PICK bytes : bytes = SubSeq(filled, 1, Bound(size, Len(filled)))
    OBVIOUS
  <2>2. Return(r, bytes)
    BY <1>10, <1>27, <2>1
  <2>3. bytes \in Seq(Nat \cup {Junk})
    <3>1. Bound(size, Len(filled)) \in 0..Len(filled)
      <4>1. size \in Int /\ Len(filled) \in Nat
        BY <1>12, <1>25
      <4> QED
        BY <4>1, BoundInBuffer, Zenon
    <3> QED
      BY <1>25, <2>1, <3>1, PrefixBuffer
  <2>4. CallOf(r, Idle)'
    BY DEF CallOf, CallType
  <2>5. call' \in [Process -> CallType] /\ SeekedOpen' /\ WholeBuffer'
    BY <1>10, <1>22, <2>2, <2>4, CallChanges DEF Return
  <2>6. result' \in [Reader -> Seq(Nat \cup {Junk})]
    BY <2>2, <2>3 DEF Return, TypeOK
  <2>7. TypeOK'
    BY <1>10, <1>22, <1>24, <2>5, <2>6 DEF TypeOK, CallType
  <2> QED
    BY <1>23, <2>5, <2>7
<1> QED
  BY <1>26, <1>27

\* readall fills its buffer by one extent.
LEMMA FillExtentStep ==
  ASSUME CursorInv, NEW r \in Reader, FillExtent(r)
  PROVE  CursorInv'
<1> USE DEF CursorInv
<1>1. Calling(r) /\ Call(r).seeked /\ Call(r).op = "readall" /\ ReadingAll(r)
  BY DEF FillExtent, ReadingAll
<1>2. PICK c : c = Call(r)
  OBVIOUS
<1>3. PICK extent : extent = Extents(r)[c.extent + 1]
  OBVIOUS
<1>4. PICK rd : rd = Available(ProcessOf[r],
                               Min2(End(extent), Len(c.buf)) - extent.file_offset)
  OBVIOUS
<1>5. PICK filled : filled = Put(c.buf, extent.file_offset, image_pos[ProcessOf[r]], rd)
  OBVIOUS
<1>6. PICK d : d = [c EXCEPT !.buf = filled, !.extent = c.extent + 1, !.seeked = FALSE]
  OBVIOUS
<1>7. /\ SetCall(r, d)
      /\ image_pos' = [image_pos EXCEPT ![ProcessOf[r]] = @ + rd]
      /\ UNCHANGED <<layout, cursor_vars, result>>
  BY <1>2, <1>3, <1>4, <1>5, <1>6 DEF FillExtent
<1>8. /\ c \in CallType \ {Idle} /\ c.buf \in Seq(Nat \cup {Junk}) /\ c.extent \in Nat
      /\ c.reader = r /\ c.op = "readall"
      /\ ProcessOf[r] \in Process /\ image_pos[ProcessOf[r]] \in Nat
  BY <1>1, <1>2, CallFacts DEF Calling, TypeOK
<1>9. Len(c.buf) = Size(r) /\ c.extent < Len(Extents(r))
  BY <1>1, <1>2 DEF WholeBuffer
<1>10. c.extent + 1 \in 1..Len(Extents(r))
  BY <1>8, <1>9, FileFacts
<1>11. /\ extent.file_offset \in Nat /\ extent.size \in Nat /\ extent.file_offset < Size(r)
       /\ Size(r) \in Nat
  BY <1>3, <1>10, FileFacts
<1>12. rd \in Nat
  <2>1. Min2(End(extent), Len(c.buf)) - extent.file_offset \in Nat
    BY <1>9, <1>11 DEF Min2, End
  <2> QED
    BY <1>4, <1>8, <2>1, NumbersAssumption DEF Available, Min2, Max2
<1>13. filled \in Seq(Nat \cup {Junk}) /\ Len(filled) = Len(c.buf)
  <2> HIDE DEF CursorInv
  <2>1. rd \in Int
    BY <1>12
  <2>2. PICK at \in Nat : at = image_pos[ProcessOf[r]]
    BY <1>8
  <2>3. PICK offset \in Nat : offset = extent.file_offset
    BY <1>11
  <2>4. filled = Put(c.buf, offset, at, rd)
    BY <1>5, <2>2, <2>3
  <2> QED
    BY <1>8, <2>1, <2>4, PutBuffer
<1>14. /\ d \in CallType /\ d.reader = r /\ d.buf = filled /\ d.seeked = FALSE
  <2>1. c \in [op: {"readinto", "readinto1", "readall"}, reader: Reader,
               buf: Seq(Nat \cup {Junk}), size: Nat, extent: Nat,
               seeked: BOOLEAN, from: Nat]
    BY <1>8, Zenon DEF CallType
  <2>2. c.extent + 1 \in Nat
    BY <1>8
  <2> QED
    BY <1>6, <1>8, <1>13, <2>1, <2>2 DEF CallType
<1>15. CallOf(r, d)'
  <2>1. Size(r)' = Size(r)
    BY <1>7 DEF Size
  <2> QED
    BY <1>9, <1>13, <1>14, <2>1 DEF CallOf, CallType
<1>16. call' \in [Process -> CallType] /\ SeekedOpen' /\ WholeBuffer'
  BY <1>7, <1>15, CallChanges DEF cursor_vars
<1>17. image_pos' \in [Process -> Nat]
  BY <1>7, <1>8, <1>12 DEF TypeOK
<1>18. TypeOK'
  BY <1>7, <1>16, <1>17 DEF TypeOK, CallType, cursor_vars
<1>19. CursorAgrees'
  BY <1>7, SameCursor
<1> QED
  BY <1>16, <1>18, <1>19

\* A seek inside the file finds the extent that holds the offset.
LEMMA SeekStep ==
  ASSUME CursorInv, NEW r \in Reader, NEW offset \in Int,
         0 <= offset, offset < Size(r), Seek(r, offset)
  PROVE  CursorInv'
<1> USE DEF CursorInv
<1>1. Free(r) /\ UNCHANGED <<layout, image_pos, call, result>>
  BY DEF Seek
<1>2. offset \in 0..(Size(r) - 1)
  BY FileFacts
<1>3. \E i \in 1..Len(Extents(r)) : Holds(Extents(r)[i], offset)
  <2>1. IsLayout(layout[r])
    BY FileFacts
  <2> QED
    BY <1>2, <2>1 DEF IsLayout, Extents, Size
<1>4. PICK i \in 1..Len(Extents(r)) :
        /\ Holds(Extents(r)[i], offset)
        /\ extent_pos' = [extent_pos EXCEPT ![r] = i - 1]
        /\ extent_read' = [extent_read EXCEPT ![r] = offset - Extents(r)[i].file_offset]
        /\ pos' = [pos EXCEPT ![r] = offset]
  BY <1>3 DEF Seek, Into
<1>5. PICK start : start = Extents(r)[i].file_offset
  OBVIOUS
<1>6. /\ start \in Nat /\ Extents(r)[i].size \in Nat \ {0} /\ i \in Nat \ {0}
      /\ Len(Extents(r)) \in Nat /\ i <= Len(Extents(r)) /\ offset \in Nat /\ Size(r) \in Nat
  BY <1>2, <1>5, FileFacts
<1>7. start <= offset /\ offset < start + Extents(r)[i].size
  BY <1>4, <1>5 DEF Holds, End
<1>8. offset - start \in 0..(Extents(r)[i].size - 1) /\ offset = start + (offset - start)
  BY <1>6, <1>7
<1>9. /\ extent_pos' \in [Reader -> Nat] /\ extent_read' \in [Reader -> Nat]
      /\ pos' \in [Reader -> Nat]
  <2>1. i - 1 \in Nat /\ offset - start \in Nat
    BY <1>6, <1>8
  <2> QED
    BY <1>4, <1>5, <1>6, <2>1 DEF TypeOK
<1>10. /\ extent_pos'[r] = i - 1 /\ extent_read'[r] = offset - start /\ pos'[r] = offset
       /\ \A q \in Reader : q # r => /\ extent_pos'[q] = extent_pos[q]
                                     /\ extent_read'[q] = extent_read[q]
                                     /\ pos'[q] = pos[q]
  BY <1>4, <1>5 DEF TypeOK
<1>11. CursorAgrees'
  <2>1. ~Closed(r)'
    BY <1>1, <1>6, <1>10 DEF Closed, Extents
  <2>2. (i - 1) + 1 = i
    BY <1>6
  <2>3. Current(r)' = Extents(r)[i]
    BY <1>1, <1>10, <2>2 DEF Current, Extents
  <2>4. NextByte(r)' = start + (offset - start)
    BY <1>5, <1>10, <2>3 DEF NextByte
  <2>5. pos'[r] = NextByte(r)' /\ pos'[r] <= Size(r)
    BY <1>6, <1>8, <1>10, <2>4
  <2> QED
    BY <1>1, <1>8, <1>10, <2>1, <2>3, <2>5, OneCursor
<1>12. SeekedOpen' /\ WholeBuffer'
  BY <1>1, <1>10, FreeCalls
<1>13. TypeOK'
  BY <1>1, <1>9 DEF TypeOK, CallType
<1> QED
  BY <1>11, <1>12, <1>13

\* A finished file has nothing half read, so reset leaves a fresh cursor.
LEMMA ResetStep ==
  ASSUME CursorInv, NEW r \in Reader, Closed(r), Reset(r)
  PROVE  CursorInv'
<1> USE DEF CursorInv
<1>1. /\ Free(r) /\ UNCHANGED <<layout, image_pos, call, result, extent_read>>
      /\ extent_pos' = [extent_pos EXCEPT ![r] = 0] /\ pos' = [pos EXCEPT ![r] = 0]
  BY DEF Reset
<1>2. extent_read[r] = 0 /\ pos[r] = Size(r)
  BY DEF CursorAgrees
<1>3. /\ extent_pos' \in [Reader -> Nat] /\ pos' \in [Reader -> Nat]
      /\ extent_pos'[r] = 0 /\ extent_read'[r] = 0 /\ pos'[r] = 0
      /\ \A q \in Reader : q # r => /\ extent_pos'[q] = extent_pos[q]
                                    /\ extent_read'[q] = extent_read[q]
                                    /\ pos'[q] = pos[q]
  BY <1>1, <1>2 DEF TypeOK
<1>4. CursorAgrees'
  <2>1. Len(Extents(r)) \in Nat /\ Size(r) \in Nat
    BY FileFacts
  <2>2. Closed(r)' <=> Len(Extents(r)) = 0
    BY <1>1, <1>3, <2>1 DEF Closed, Extents
  <2>3. CASE Len(Extents(r)) = 0
    <3>1. Size(r) = 0
      <4>1. IsLayout(layout[r])
        BY FileFacts
      <4>2. \A offset \in 0..(Size(r) - 1) :
              \E i \in 1..Len(Extents(r)) : Holds(Extents(r)[i], offset)
        BY <4>1 DEF IsLayout, Extents, Size
      <4>3. 1..Len(Extents(r)) = {}
        BY <2>3
      <4>4. 0 \notin 0..(Size(r) - 1)
        BY <4>2, <4>3
      <4> QED
        BY <2>1, <4>4
    <3> QED
      BY <1>1, <1>3, <2>2, <2>3, <3>1, OneCursor
  <2>4. CASE Len(Extents(r)) # 0
    <3>1. 1 \in 1..Len(Extents(r))
      BY <2>1, <2>4
    <3>2. Extents(r)[1].file_offset = 0 /\ Extents(r)[1].size \in Nat \ {0}
      <4>1. IsLayout(layout[r])
        BY FileFacts
      <4> QED
        BY <3>1, <4>1, FileFacts DEF IsLayout, Extents
    <3>3. Current(r)' = Extents(r)[1]
      BY <1>1, <1>3 DEF Current, Extents
    <3>4. NextByte(r)' = 0
      BY <1>3, <3>2, <3>3 DEF NextByte
    <3>5. 0 \in 0..(Extents(r)[1].size - 1) /\ 0 <= Size(r)
      BY <2>1, <3>2
    <3> QED
      BY <1>1, <1>3, <2>2, <2>4, <3>3, <3>4, <3>5, OneCursor
  <2> QED
    BY <2>3, <2>4
<1>5. SeekedOpen' /\ WholeBuffer'
  BY <1>1, <1>3, FreeCalls
<1>6. TypeOK'
  BY <1>1, <1>3 DEF TypeOK, CallType
<1> QED
  BY <1>4, <1>5, <1>6

-----------------------------------------------------------------------------
(* The theorems *)

\* A file is opened with its cursor at the start.
LEMMA InitCursor == Init => CursorInv
<1> SUFFICES ASSUME Init PROVE CursorInv
  OBVIOUS
<1>1. TypeOK
  <2>1. <<>> \in Seq(Nat \cup {Junk})
    OBVIOUS
  <2> QED
    BY <2>1 DEF Init, TypeOK, CallType
<1>2. \A r \in Reader : ~Calling(r)
  BY ProcessAssumption DEF Init, Calling, Call, Idle
<1>3. CursorAgrees
  <2> SUFFICES ASSUME NEW r \in Reader
               PROVE  IF Closed(r) THEN pos[r] = Size(r) /\ extent_read[r] = 0
                      ELSE /\ pos[r] = NextByte(r) /\ pos[r] <= Size(r)
                           /\ extent_read[r] \in 0..(Current(r).size - 1)
    BY DEF CursorAgrees
  <2>1. extent_pos[r] = 0 /\ extent_read[r] = 0 /\ pos[r] = 0
    BY DEF Init
  <2>2. Len(Extents(r)) \in Nat /\ Size(r) \in Nat
    BY <1>1, FileFacts
  <2>3. IsLayout(layout[r])
    BY <1>1, FileFacts
  <2>4. CASE Len(Extents(r)) = 0
    <3>1. \A offset \in 0..(Size(r) - 1) :
            \E i \in 1..Len(Extents(r)) : Holds(Extents(r)[i], offset)
      BY <2>3 DEF IsLayout, Extents, Size
    <3>2. 1..Len(Extents(r)) = {}
      BY <2>4
    <3>3. 0 \notin 0..(Size(r) - 1)
      BY <3>1, <3>2
    <3>4. Size(r) = 0
      BY <2>2, <3>3
    <3> QED
      BY <2>1, <2>4, <3>4 DEF Closed
  <2>5. CASE Len(Extents(r)) # 0
    <3>1. 1 \in 1..Len(Extents(r)) /\ ~Closed(r)
      BY <2>1, <2>2, <2>5 DEF Closed
    <3>2. Extents(r)[1].file_offset = 0 /\ Extents(r)[1].size \in Nat \ {0}
      BY <1>1, <2>3, <3>1, FileFacts DEF IsLayout, Extents
    <3>3. Current(r) = Extents(r)[1]
      BY <2>1 DEF Current
    <3>4. NextByte(r) = 0
      BY <2>1, <3>2, <3>3 DEF NextByte
    <3>5. 0 \in 0..(Extents(r)[1].size - 1) /\ 0 <= Size(r)
      BY <2>2, <3>2
    <3> QED
      BY <2>1, <3>1, <3>3, <3>4, <3>5
  <2> QED
    BY <2>4, <2>5
<1>4. SeekedOpen /\ WholeBuffer
  BY <1>2 DEF SeekedOpen, WholeBuffer, Reading, ReadingAll
<1> QED
  BY <1>1, <1>3, <1>4 DEF CursorInv

\* Every step of every reader preserves the agreement of the cursors.
LEMMA NextCursor == Documented /\ CursorInv /\ [Next]_vars => CursorInv'
<1> SUFFICES ASSUME Documented, CursorInv, [Next]_vars PROVE CursorInv'
  OBVIOUS
<1>1. CASE Next
  <2>1. PICK r \in Reader :
          \/ \E n \in Lengths : StartCall(r, "readinto", n) \/ StartCall(r, "readinto1", n)
          \/ StartCall(r, "readall", Size(r))
          \/ Step(r)
          \/ \E offset \in Offsets : /\ Documented => 0 <= offset /\ offset < Size(r)
                                     /\ Seek(r, offset)
          \/ (Documented => Closed(r)) /\ Reset(r)
    BY <1>1 DEF Next
  <2>2. ASSUME NEW n \in Lengths, StartCall(r, "readinto", n) \/ StartCall(r, "readinto1", n)
        PROVE  CursorInv'
    <3>1. n \in Nat
      BY NumbersAssumption
    <3> QED
      BY <2>2, <3>1, StartCallStep
  <2>3. CASE StartCall(r, "readall", Size(r))
    <3>1. PICK n \in Nat : n = Size(r)
      BY FileFacts DEF CursorInv
    <3> QED
      BY <2>3, <3>1, StartCallStep
  <2>4. CASE Step(r)
    BY <2>4, OutOfExtentsStep, SeekImageStep, ReadImageStep, SeekExtentStep,
       FillExtentStep, ReturnAllStep DEF Step
  <2>5. ASSUME NEW offset \in Offsets,
               Documented => 0 <= offset /\ offset < Size(r), Seek(r, offset)
        PROVE  CursorInv'
    <3>1. offset \in Int
      BY NumbersAssumption
    <3> QED
      BY <2>5, <3>1, SeekStep
  <2>6. CASE (Documented => Closed(r)) /\ Reset(r)
    BY <2>6, ResetStep
  <2> QED
    BY <2>1, <2>2, <2>3, <2>4, <2>5, <2>6
<1>2. CASE UNCHANGED vars
  <2>1. UNCHANGED <<layout, extent_pos, extent_read, pos, image_pos, call, result>>
    BY <1>2 DEF vars
  <2>2. CursorAgrees'
    BY <2>1, SameCursor DEF cursor_vars, CursorInv
  <2>3. TypeOK'
    BY <2>1 DEF CursorInv, TypeOK, CallType
  <2>4. SeekedOpen' /\ WholeBuffer'
    BY <2>1 DEF CursorInv, SeekedOpen, WholeBuffer, Reading, ReadingAll, Calling, Call,
                Closed, Extents, Size
  <2> QED
    BY <2>2, <2>3, <2>4 DEF CursorInv
<1> QED
  BY <1>1, <1>2

\* The invariant holds of every use of the files of an image that keeps to the
\* documentation: seeks inside the file and resets of finished files.
THEOREM CursorInvariant == ASSUME Documented PROVE Spec => []CursorInv
<1>1. Init => CursorInv
  BY InitCursor
<1>2. CursorInv /\ [Next]_vars => CursorInv'
  BY NextCursor
<1> QED
  BY <1>1, <1>2, PTL DEF Spec

\* The extent, the offset in it and the position of a file object never
\* disagree (_extent_pos, _extent_read and _pos of _BcachefsFileBinary).
THEOREM CursorsAgree == ASSUME Documented PROVE Spec => []CursorAgrees
<1>1. CursorInv => CursorAgrees
  BY DEF CursorInv
<1> QED
  BY <1>1, CursorInvariant, PTL

\* Every variable keeps its type; in particular no read returns a negative
\* number of bytes and no position of the image is negative.
THEOREM ReaderTypeCorrect == ASSUME Documented PROVE Spec => []TypeOK
<1>1. CursorInv => TypeOK
  BY DEF CursorInv
<1> QED
  BY <1>1, CursorInvariant, PTL

-----------------------------------------------------------------------------
(* The bytes of a file *)

\* A set of natural numbers has a least one.
LEMMA LeastOne ==
  ASSUME NEW S \in SUBSET Nat, S # {}
  PROVE  \E m \in S : \A n \in S : m <= n
<1>1. PICK m \in S : \A n \in S : ~ (<<n, m>> \in OpToRel(<, Nat))
  BY WFMin, NatLessThanWellFounded
<1>2. \A n \in S : ~(n < m)
  BY <1>1 DEF OpToRel
<1> QED
  BY <1>2

\* Extents lie behind all those in front of them.
LEMMA ExtentsApart ==
  ASSUME NEW l, IsLayout(l), NEW i \in 1..Len(l.extents), NEW j \in 1..Len(l.extents), i < j
  PROVE  End(l.extents[i]) <= l.extents[j].file_offset
<1> DEFINE es == l.extents
           n == Len(es)
           start(k) == es[k].file_offset
           stop(k) == End(es[k])
           S == {k \in 1..n : i < k /\ start(k) < stop(i)}
<1>1. /\ n \in Nat
      /\ \A k \in 1..n : start(k) \in Nat /\ stop(k) \in Nat /\ start(k) < stop(k)
      /\ \A k \in 1..n : k > 1 => start(k) = stop(k - 1)
  <2>1. es \in Seq(Extent)
    BY DEF IsLayout
  <2>2. n \in Nat /\ \A k \in 1..n : es[k] \in Extent
    BY <2>1, LenProperties, ElementOfSeq
  <2>3. \A k \in 1..n : start(k) \in Nat /\ stop(k) \in Nat /\ start(k) < stop(k)
    BY <2>2 DEF Extent, End
  <2>4. ASSUME NEW k \in 1..n, k > 1 PROVE start(k) = stop(k - 1)
    <3>1. es[k].file_offset = IF k = 1 THEN 0 ELSE End(es[k - 1])
      BY DEF IsLayout
    <3>2. k # 1
      BY <2>4
    <3> QED
      BY <3>1, <3>2
  <2> QED
    BY <2>2, <2>3, <2>4
<1> HIDE DEF es, n, start, stop
<1>2. i \in 1..n /\ j \in 1..n
  BY DEF n, es
<1>3. S = {}
  <2>1. SUFFICES ASSUME S # {} PROVE FALSE
    OBVIOUS
  <2>2. S \in SUBSET Nat
    BY <1>1
  <2>3. PICK k \in S : \A m \in S : k <= m
    <3> HIDE DEF S
    <3> QED
      BY <2>1, <2>2, LeastOne
  <2>4. k \in 1..n /\ i < k /\ start(k) < stop(i) /\ k > 1 /\ k - 1 \in 1..n
    BY <1>1, <1>2, <2>3
  <2>5. start(k) = stop(k - 1) /\ start(k - 1) < stop(k - 1)
    BY <1>1, <2>4
  <2>6. k - 1 # i
    <3>1. SUFFICES ASSUME k - 1 = i PROVE FALSE
      OBVIOUS
    <3>2. start(k) = stop(i) /\ stop(i) \in Nat
      BY <1>1, <1>2, <2>5, <3>1
    <3> QED
      BY <2>4, <3>2
  <2>7. start(k - 1) < stop(i)
    BY <1>1, <1>2, <2>4, <2>5
  <2>8. k - 1 \in S
    BY <1>1, <1>2, <2>4, <2>6, <2>7
  <2> QED
    BY <1>1, <2>3, <2>4, <2>8
<1>4. ~(start(j) < stop(i))
  BY <1>2, <1>3
<1> QED
  BY <1>1, <1>2, <1>4 DEF start, stop, es

\* A byte of a file lies in the one extent that holds its offset.
LEMMA ByteOfExtent ==
  ASSUME NEW l, IsLayout(l), NEW i \in 1..Len(l.extents), NEW o \in Nat,
         Holds(l.extents[i], o)
  PROVE  /\ ExtentOf(l, o) = i
         /\ ByteAt(l, o) = l.extents[i].offset + (o - l.extents[i].file_offset)
         /\ ByteAt(l, o) \in Nat
<1> DEFINE es == l.extents
           n == Len(es)
<1>1. n \in Nat /\ \A k \in 1..n : es[k] \in Extent
  BY LenProperties, ElementOfSeq DEF IsLayout
<1>2. \A k \in 1..n : /\ es[k].file_offset \in Nat /\ es[k].offset \in Nat
                      /\ End(es[k]) \in Nat
  BY <1>1 DEF Extent, End
<1>3. ASSUME NEW k \in 1..n, Holds(es[k], o) PROVE k = i
  <2>1. /\ es[k].file_offset <= o /\ o < End(es[k])
        /\ es[i].file_offset <= o /\ o < End(es[i])
    BY <1>3 DEF Holds
  <2>2. ~(k < i) /\ ~(i < k)
    BY <1>2, <2>1, ExtentsApart
  <2> QED
    BY <1>1, <2>2
<1>4. ExtentOf(l, o) = i
  BY <1>3 DEF ExtentOf
<1>5. ByteAt(l, o) = es[i].offset + (o - es[i].file_offset)
  BY <1>4 DEF ByteAt
<1>6. es[i].file_offset <= o /\ es[i].file_offset \in Nat /\ es[i].offset \in Nat
  BY <1>2 DEF Holds
<1> QED
  BY <1>4, <1>5, <1>6

\* The content of a file has its size, and every byte of it is in the image.
LEMMA ContentFacts ==
  ASSUME NEW l, IsLayout(l)
  PROVE  /\ Content(l) \in Seq(Nat) /\ Len(Content(l)) = l.size /\ l.size \in Nat
         /\ \A i \in 1..l.size : Content(l)[i] = ByteAt(l, i - 1)
<1>1. l.size \in Nat
  BY DEF IsLayout
<1>2. ASSUME NEW i \in 1..l.size PROVE ByteAt(l, i - 1) \in Nat
  <2>1. i - 1 \in 0..(l.size - 1) /\ i - 1 \in Nat
    BY <1>1
  <2>2. PICK k \in 1..Len(l.extents) : Holds(l.extents[k], i - 1)
    BY <2>1 DEF IsLayout
  <2> QED
    BY <2>1, <2>2, ByteOfExtent
<1>3. Content(l) \in [1..l.size -> Nat]
  BY <1>2 DEF Content
<1>4. Content(l) \in Seq(Nat) /\ Len(Content(l)) = l.size
  BY <1>1, <1>3, IsASeq, LenProperties
<1>5. \A i \in 1..l.size : Content(l)[i] = ByteAt(l, i - 1)
  BY DEF Content
<1> QED
  BY <1>1, <1>4, <1>5

-----------------------------------------------------------------------------
(* What a running call has delivered *)

\* A read has the bytes from where it began up to the cursor, and the image is
\* at the next one when it has been seeked.
Reads(r) ==
  LET c == Call(r)  n == Len(c.buf) IN
  /\ n \in Lengths /\ c.size <= n /\ pos[r] = c.from + c.size
  /\ c.op = "readinto1" => c.size = 0
  /\ \A i \in 1..c.size : c.buf[i] = ByteAt(layout[r], c.from + i - 1)
  /\ c.seeked => image_pos[ProcessOf[r]] = Current(r).offset + extent_read[r]

\* readall has the extents it has passed, if they are all in the image.
ReadsAll(r) ==
  LET c == Call(r) IN
  /\ pos[r] = c.from /\ c.extent <= Len(Extents(r))
  /\ c.seeked => image_pos[ProcessOf[r]] = Extents(r)[c.extent + 1].offset
  /\ Whole(layout[r]) =>
       \A i \in 1..c.extent : \A o \in 0..(Size(r) - 1) :
         Holds(Extents(r)[i], o) => c.buf[o + 1] = ByteAt(layout[r], o)

Delivering(r) == (Reading(r) => Reads(r)) /\ (ReadingAll(r) => ReadsAll(r))

StreamInv == CursorInv /\ \A r \in Reader : Delivering(r)

\* Where the running call began, or the cursor: the cursor of the stream.
StartsAt(r) == IF Calling(r) THEN Call(r).from ELSE pos[r]

\* A step of a file is one of the only call of its process, and what it does to
\* the image's position no other call has relied on.
LEMMA OthersKeep ==
  ASSUME StreamInv, NEW r \in Reader, layout' = layout, Free(r) \/ Calling(r), NEW c,
         SetCall(r, c), c # Idle => c.reader = r,
         \A p \in Process : p # ProcessOf[r] => image_pos'[p] = image_pos[p],
         \A q \in Reader : q # r => /\ extent_pos'[q] = extent_pos[q]
                                    /\ extent_read'[q] = extent_read[q]
                                    /\ pos'[q] = pos[q],
         NEW q \in Reader, q # r
  PROVE  Delivering(q)' /\ StartsAt(q)' = StartsAt(q)
<1>1. ProcessOf[r] \in Process /\ ProcessOf[q] \in Process /\ call \in [Process -> CallType]
  BY CallFacts DEF StreamInv, CursorInv, TypeOK
<1>2. CASE ProcessOf[q] = ProcessOf[r]
  <2>1. Call(q)' = c /\ Call(q) = Call(r)
    BY <1>1, <1>2 DEF SetCall, Call
  <2>2. ~Calling(q) /\ ~Calling(q)'
    BY <2>1 DEF Calling, Free, Call, Idle
  <2> QED
    BY <2>2 DEF Delivering, Reading, ReadingAll, StartsAt
<1>3. CASE ProcessOf[q] # ProcessOf[r]
  <2>1. /\ Call(q)' = Call(q) /\ image_pos'[ProcessOf[q]] = image_pos[ProcessOf[q]]
        /\ extent_pos'[q] = extent_pos[q] /\ extent_read'[q] = extent_read[q]
        /\ pos'[q] = pos[q]
    BY <1>1, <1>3 DEF SetCall, Call
  <2>2. Delivering(q)
    BY DEF StreamInv
  <2>3. /\ Calling(q)' = Calling(q) /\ Reading(q)' = Reading(q)
        /\ ReadingAll(q)' = ReadingAll(q)
    BY <2>1 DEF Calling, Reading, ReadingAll
  <2>4. Reads(q)' = Reads(q)
    BY <2>1 DEF Reads, Current, Extents
  <2>5. ReadsAll(q)' = ReadsAll(q)
    BY <2>1 DEF ReadsAll, Extents, Size
  <2> QED
    BY <2>1, <2>2, <2>3, <2>4, <2>5 DEF Delivering, StartsAt
<1> QED
  BY <1>2, <1>3

\* A step that moves no stream and returns nothing is none of the streams.
LEMMA StreamsStutter ==
  ASSUME layout' = layout, result' = result,
         \A r \in Reader : StartsAt(r)' = StartsAt(r)
  PROVE  UNCHANGED Streams!vars
BY DEF Streams!vars, StartsAt

\* A call that returns the bytes behind where it began is a read of its stream.
LEMMA StreamDelivers ==
  ASSUME layout' = layout, NEW r \in Reader, NEW k \in Nat,
         \A q \in Reader : q # r => StartsAt(q)' = StartsAt(q),
         StartsAt(r)' = StartsAt(r) + k,
         result' = [result EXCEPT ![r] = SubSeq(Content(layout[r]), StartsAt(r) + 1,
                                                StartsAt(r) + k)]
  PROVE  Streams!Deliver(r, k)
BY DEF Streams!Deliver, StartsAt

\* The bytes at the front of a buffer are the piece of the file they were read for.
LEMMA PieceOfFile ==
  ASSUME NEW l, IsLayout(l), NEW buf \in Seq(Nat \cup {Junk}), NEW k \in 0..Len(buf),
         NEW from \in Nat, from + k <= l.size,
         \A i \in 1..k : buf[i] = ByteAt(l, from + i - 1)
  PROVE  SubSeq(buf, 1, k) = SubSeq(Content(l), from + 1, from + k)
<1> DEFINE s == SubSeq(buf, 1, k)
           t == SubSeq(Content(l), from + 1, from + k)
           bytes == Content(l)
<1>0. Len(buf) \in Nat /\ k \in Nat
  BY LenProperties
<1>1. /\ l.size \in Nat /\ bytes \in Seq(Nat) /\ Len(bytes) = l.size
      /\ \A i \in 1..l.size : bytes[i] = ByteAt(l, i - 1)
  BY ContentFacts
<1> HIDE DEF bytes
<1>2. /\ s \in Seq(Nat \cup {Junk}) /\ Len(s) = k
      /\ \A i \in 1..k : s[i] = buf[i]
  <2>1. \A i \in 1..k : buf[i] \in Nat \cup {Junk}
    BY <1>0
  <2>2. /\ s \in Seq(Nat \cup {Junk}) /\ Len(s) = IF 1 <= k THEN k - 1 + 1 ELSE 0
        /\ \A i \in 1..(k - 1 + 1) : s[i] = buf[1 + i - 1]
    BY <1>0, <2>1, SubSeqProperties
  <2> QED
    BY <1>0, <2>2
<1>3. /\ t \in Seq(Nat) /\ Len(t) = k
      /\ \A i \in 1..k : t[i] = bytes[from + i]
  <2>1. \A i \in (from + 1)..(from + k) : bytes[i] \in Nat
    <3>1. \A i \in (from + 1)..(from + k) : i \in 1..Len(bytes)
      BY <1>0, <1>1
    <3> QED
      BY <1>1, <3>1, ElementOfSeq
  <2> DEFINE m == from + 1
             n == from + k
  <2>2. m \in Int /\ n \in Int /\ n - m + 1 = k /\ (m <= n <=> k >= 1)
    BY <1>0
  <2>3. /\ SubSeq(bytes, m, n) \in Seq(Nat)
        /\ Len(SubSeq(bytes, m, n)) = IF m <= n THEN n - m + 1 ELSE 0
        /\ \A i \in 1..(n - m + 1) : SubSeq(bytes, m, n)[i] = bytes[m + i - 1]
    <3> HIDE DEF m, n
    <3>1. \A i \in m..n : bytes[i] \in Nat
      BY <2>1 DEF m, n
    <3> QED
      BY <2>2, <3>1, SubSeqProperties
  <2>4. t = SubSeq(bytes, m, n)
    BY DEF bytes
  <2>5. \A i \in 1..k : m + i - 1 = from + i
    BY <1>0
  <2> HIDE DEF m, n, t
  <2>6. Len(t) = k
    BY <1>0, <2>2, <2>3, <2>4
  <2>7. \A i \in 1..k : t[i] = bytes[from + i]
    BY <2>2, <2>3, <2>4, <2>5
  <2> QED
    BY <2>3, <2>4, <2>6, <2>7
<1> HIDE DEF s, t
<1>4. \A i \in 1..k : s[i] = t[i]
  <2>1. ASSUME NEW i \in 1..k PROVE buf[i] = bytes[from + i]
    <3>1. from + i \in 1..l.size
      BY <1>0, <1>1
    <3>2. bytes[from + i] = ByteAt(l, from + i - 1)
      BY SMTT(30), <1>1, <3>1
    <3> QED
      BY <3>2
  <2> QED
    BY <1>2, <1>3, <2>1
<1>5. t \in Seq(Nat \cup {Junk})
  BY <1>3
<1>6. s = t
  BY <1>2, <1>3, <1>4, <1>5, SeqEqual
<1> QED
  BY <1>6 DEF s, t

\* A call that returns leaves what the others have read and where they began.
LEMMA Returned ==
  ASSUME StreamInv, NEW r \in Reader, Calling(r), NEW bytes, Return(r, bytes),
         layout' = layout,
         \A p \in Process : p # ProcessOf[r] => image_pos'[p] = image_pos[p],
         \A q \in Reader : q # r => /\ extent_pos'[q] = extent_pos[q]
                                    /\ extent_read'[q] = extent_read[q]
                                    /\ pos'[q] = pos[q]
  PROVE  /\ \A q \in Reader : Delivering(q)'
         /\ \A q \in Reader : q # r => StartsAt(q)' = StartsAt(q)
         /\ StartsAt(r)' = pos'[r]
<1>1. \A q \in Reader : q # r => Delivering(q)' /\ StartsAt(q)' = StartsAt(q)
  BY OthersKeep DEF Return
<1>2. ProcessOf[r] \in Process /\ call \in [Process -> CallType]
  BY CallFacts DEF StreamInv, CursorInv, TypeOK
<1>3. ~Calling(r)'
  BY <1>2 DEF Return, SetCall, Calling, Call, Idle
<1> QED
  BY <1>1, <1>3 DEF Delivering, Reading, ReadingAll, StartsAt

\* A call that goes on with c.
LEMMA Continued ==
  ASSUME StreamInv, NEW r \in Reader, Free(r) \/ Calling(r), NEW c, SetCall(r, c),
         c.reader = r, c.op # "none", c.from = StartsAt(r),
         layout' = layout, result' = result,
         \A p \in Process : p # ProcessOf[r] => image_pos'[p] = image_pos[p],
         \A q \in Reader : q # r => /\ extent_pos'[q] = extent_pos[q]
                                    /\ extent_read'[q] = extent_read[q]
                                    /\ pos'[q] = pos[q],
         Call(r)' = c => Delivering(r)'
  PROVE  /\ \A q \in Reader : Delivering(q)'
         /\ UNCHANGED Streams!vars
<1>1. \A q \in Reader : q # r => Delivering(q)' /\ StartsAt(q)' = StartsAt(q)
  BY OthersKeep
<1>2. ProcessOf[r] \in Process /\ call \in [Process -> CallType]
  BY CallFacts DEF StreamInv, CursorInv, TypeOK
<1>3. Call(r)' = c
  BY <1>2 DEF SetCall, Call
<1>4. StartsAt(r)' = StartsAt(r)
  BY <1>3 DEF StartsAt, Calling
<1> QED
  BY <1>1, <1>3, <1>4, StreamsStutter

-----------------------------------------------------------------------------
(* Every step is one of the streams, or none *)

\* A call begins where the cursor is, with nothing read.
LEMMA StartCallStreams ==
  ASSUME StreamInv, NEW r \in Reader, NEW n \in Nat,
         NEW op \in {"readinto", "readinto1", "readall"},
         op # "readall" => n \in Lengths, StartCall(r, op, n)
  PROVE  /\ \A q \in Reader : Delivering(q)'
         /\ UNCHANGED Streams!vars
<1>1. PICK c : c = [op |-> op, reader |-> r, buf |-> [i \in 1..n |-> Junk], size |-> 0,
                    extent |-> 0, seeked |-> FALSE, from |-> pos[r]]
  OBVIOUS
<1>2. Free(r) /\ SetCall(r, c) /\ UNCHANGED <<layout, cursor_vars, image_pos, result>>
  BY <1>1 DEF StartCall
<1>3. StartsAt(r) = pos[r] /\ pos[r] \in Nat
  BY <1>2 DEF StartsAt, Calling, Free, Call, Idle, StreamInv, CursorInv, TypeOK
<1>4. Len(c.buf) = n
  <2>1. c.buf = [i \in 1..n |-> Junk] /\ c.buf \in [1..n -> Nat \cup {Junk}]
    BY <1>1
  <2> QED
    BY <2>1, IsASeq, LenProperties
<1>5. ASSUME Call(r)' = c PROVE Delivering(r)'
  <2>1. /\ c.op = op /\ c.size = 0 /\ c.extent = 0 /\ c.seeked = FALSE /\ c.from = pos[r]
        /\ pos'[r] = pos[r]
    BY <1>1, <1>2 DEF cursor_vars
  <2>2. Len(Extents(r)') \in Nat
    BY <1>2, FileFacts DEF Extents, StreamInv, CursorInv
  <2>3. Reading(r)' => Reads(r)'
    BY <1>3, <1>4, <1>5, <2>1 DEF Reading, Reads
  <2>4. ReadingAll(r)' => ReadsAll(r)'
    BY <1>3, <1>5, <2>1, <2>2 DEF ReadsAll
  <2> QED
    BY <2>3, <2>4 DEF Delivering
<1>6. c.reader = r /\ c.op # "none" /\ c.from = StartsAt(r)
  BY <1>1, <1>3
<1> QED
  BY <1>2, <1>5, <1>6, Continued DEF cursor_vars

\* A read of a finished file returns what it has, which is all there was left.
LEMMA OutOfExtentsStreams ==
  ASSUME StreamInv, NEW r \in Reader, OutOfExtents(r)
  PROVE  /\ \A q \in Reader : Delivering(q)'
         /\ Streams!Next
<1>1. PICK c : c = Call(r)
  OBVIOUS
<1>2. PICK k : k = c.size
  OBVIOUS
<1>3. /\ Calling(r) /\ c.op \in {"readinto", "readinto1"} /\ Closed(r)
      /\ c.buf \in Seq(Nat \cup {Junk}) /\ k \in Nat /\ c.from \in Nat
      /\ IsLayout(layout[r]) /\ Size(r) \in Nat
  BY <1>1, <1>2, CallFacts, FileFacts DEF OutOfExtents, Reading, StreamInv, CursorInv
<1>4. /\ Len(c.buf) \in Lengths /\ k <= Len(c.buf) /\ pos[r] = c.from + k
      /\ c.op = "readinto1" => k = 0
      /\ \A i \in 1..k : c.buf[i] = ByteAt(layout[r], c.from + i - 1)
  BY <1>1, <1>2 DEF OutOfExtents, StreamInv, Delivering, Reads
<1>5. pos[r] = Size(r) /\ k \in 0..Len(c.buf) /\ Len(c.buf) \in Nat
  BY <1>3, <1>4 DEF StreamInv, CursorInv, CursorAgrees
<1>6. Bound(k, Len(c.buf)) = k
  <2>1. k \in Int
    BY <1>3
  <2> QED
    BY <1>5, <2>1, BoundInBuffer, Zenon
<1>7. /\ Return(r, SubSeq(c.buf, 1, k))
      /\ UNCHANGED <<layout, cursor_vars, image_pos>>
  BY <1>1, <1>2, <1>6 DEF OutOfExtents
<1>8. SubSeq(c.buf, 1, k) = SubSeq(Content(layout[r]), c.from + 1, c.from + k)
  <2>1. c.from + k <= layout[r].size
    BY <1>3, <1>4, <1>5 DEF Size
  <2> QED
    BY <1>3, <1>4, <1>5, <2>1, PieceOfFile
<1>9. /\ \A q \in Reader : Delivering(q)'
      /\ \A q \in Reader : q # r => StartsAt(q)' = StartsAt(q)
      /\ StartsAt(r)' = pos'[r]
  BY <1>3, <1>7, Returned DEF cursor_vars
<1>10. StartsAt(r) = c.from
  BY <1>1, <1>3 DEF StartsAt
<1>11. StartsAt(r)' = StartsAt(r) + k
  BY <1>4, <1>7, <1>9, <1>10 DEF cursor_vars
<1>12. Streams!Deliver(r, k)
  BY <1>3, <1>7, <1>8, <1>9, <1>10, <1>11, StreamDelivers DEF Return
<1>13. Streams!Left(r) = k
  <2>1. Len(Content(layout[r])) = Size(r)
    BY <1>3, ContentFacts DEF Size
  <2>2. Streams!Left(r) = Size(r) - StartsAt(r)
    BY <2>1 DEF Streams!Left, StartsAt
  <2> QED
    BY <1>3, <1>4, <1>5, <1>10, <2>2
<1>14. CASE c.op = "readinto"
  <2>1. Streams!Least(Len(c.buf), Streams!Left(r)) = k
    BY <1>5, <1>13 DEF Streams!Least
  <2>2. Streams!Read(r, Len(c.buf))
    BY <1>12, <2>1 DEF Streams!Read, Streams!Deliver
  <2> QED
    BY <1>4, <1>9, <2>2 DEF Streams!Next
<1>15. CASE c.op = "readinto1"
  <2>1. k = 0
    BY <1>4, <1>15
  <2>2. Streams!Least(Len(c.buf), Streams!Left(r)) \in Nat
    BY <1>3, <1>5, <1>13 DEF Streams!Least
  <2>3. k \in 0..Streams!Least(Len(c.buf), Streams!Left(r))
    BY <2>1, <2>2
  <2>4. Streams!Read1(r, Len(c.buf))
    BY <1>12, <1>13, <2>1, <2>3 DEF Streams!Read1
  <2> QED
    BY <1>4, <1>9, <2>4 DEF Streams!Next
<1> QED
  BY <1>3, <1>14, <1>15

\* The image is sought for the byte at the cursor.
LEMMA SeekImageStreams ==
  ASSUME StreamInv, NEW r \in Reader, SeekImage(r)
  PROVE  /\ \A q \in Reader : Delivering(q)'
         /\ UNCHANGED Streams!vars
<1>1. PICK c : c = [Call(r) EXCEPT !.seeked = TRUE]
  OBVIOUS
<1>2. PICK at : at = Current(r).offset + extent_read[r]
  OBVIOUS
<1>3. /\ Calling(r) /\ Reading(r) /\ SetCall(r, c)
      /\ image_pos' = [image_pos EXCEPT ![ProcessOf[r]] = at]
      /\ UNCHANGED <<layout, cursor_vars, result>>
  BY <1>1, <1>2 DEF SeekImage, SeekTo, Reading
<1>4. Call(r) \in CallType \ {Idle} /\ ProcessOf[r] \in Process /\ Call(r).reader = r
  BY <1>3, CallFacts DEF StreamInv, CursorInv, Calling
<1>5. /\ c.reader = r /\ c.op = Call(r).op /\ c.buf = Call(r).buf /\ c.size = Call(r).size
      /\ c.from = Call(r).from
  BY <1>1, <1>4 DEF CallType
<1>6. /\ \A p \in Process : p # ProcessOf[r] => image_pos'[p] = image_pos[p]
      /\ image_pos'[ProcessOf[r]] = at
  BY <1>3, <1>4 DEF StreamInv, CursorInv, TypeOK
<1>7. ASSUME Call(r)' = c PROVE Delivering(r)'
  <2>1. Reads(r)
    BY <1>3 DEF StreamInv, Delivering
  <2>2. Current(r)' = Current(r) /\ extent_read' = extent_read /\ pos' = pos
    BY <1>3 DEF Current, Extents, cursor_vars
  <2>3. Reads(r)'
    BY <1>2, <1>3, <1>5, <1>6, <1>7, <2>1, <2>2 DEF Reads
  <2>4. ~ReadingAll(r)'
    BY <1>3, <1>5, <1>7 DEF ReadingAll, Reading
  <2> QED
    BY <2>3, <2>4 DEF Delivering
<1>8. c.op # "none" /\ c.from = StartsAt(r)
  BY <1>3, <1>5 DEF Calling, StartsAt
<1> QED
  BY <1>3, <1>5, <1>6, <1>7, <1>8, Continued DEF cursor_vars

\* What a read of the image puts into the buffer is what follows in the file, and
\* how far it takes the cursor: to the end of what it read, or of the file.
Takes(r, n, from, size, filled) ==
  /\ n = Len(Call(r).buf) /\ Len(filled) = n /\ n \in Lengths /\ size <= n
  /\ from = Call(r).from /\ from + size <= Size(r) /\ pos'[r] = from + size
  /\ \A i \in 1..size : filled[i] = ByteAt(layout[r], from + i - 1)
  /\ Call(r).op = "readinto1" /\ size = 0 /\ Whole(layout[r])
       => n = 0 \/ from = Size(r)
  /\ Whole(layout[r]) /\ size < n
       => Call(r).size < size \/ extent_pos[r] < extent_pos'[r]
  /\ Call(r).size <= size /\ extent_pos[r] <= extent_pos'[r]
  /\ layout' = layout
  /\ \A p \in Process : p # ProcessOf[r] => image_pos'[p] = image_pos[p]
  /\ \A q \in Reader : q # r => /\ extent_pos'[q] = extent_pos[q]
                                /\ extent_read'[q] = extent_read[q]
                                /\ pos'[q] = pos[q]
  /\ IF Call(r).op = "readinto" /\ size < n /\ ~Closed(r)'
       THEN /\ SetCall(r, [Call(r) EXCEPT !.buf = filled, !.size = size,
                                          !.seeked = FALSE])
            /\ result' = result
       ELSE Return(r, SubSeq(filled, 1, size))

\* A read of the image takes bytes of the file.
LEMMA ReadImageTakes ==
  ASSUME StreamInv, NEW r \in Reader, ReadImage(r)
  PROVE  \E n \in Nat, from \in Nat, size \in Nat, filled \in Seq(Nat \cup {Junk}) :
           Takes(r, n, from, size, filled)
<1>1. PICK c : c = Call(r)
  OBVIOUS
<1>2. /\ Calling(r) /\ Reading(r) /\ c.seeked /\ ~Closed(r)
      /\ c.buf \in Seq(Nat \cup {Junk}) /\ Len(c.buf) \in Nat
      /\ ProcessOf[r] \in Process /\ IsLayout(layout[r]) /\ Size(r) \in Nat
      /\ extent_pos[r] + 1 \in 1..Len(layout[r].extents)
  <2>1. Calling(r) /\ Reading(r) /\ c.seeked /\ ~Closed(r)
    BY <1>1 DEF ReadImage, Reading, StreamInv, CursorInv, SeekedOpen
  <2>2. c.buf \in Seq(Nat \cup {Junk})
    BY <1>1, <2>1, CallFacts DEF StreamInv, CursorInv
  <2>3. Len(c.buf) \in Nat
    BY <2>2, LenProperties
  <2> QED
    BY <2>1, <2>2, <2>3, CallFacts, FileFacts DEF StreamInv, CursorInv, Extents
<1>3. PICK n \in Nat, k \in Nat, from \in Nat : n = Len(c.buf) /\ k = c.size /\ from = c.from
  BY <1>1, <1>2, CallFacts DEF StreamInv, CursorInv
<1>4. PICK p \in Nat, er \in Nat, at \in Nat, total \in Nat :
        /\ p = pos[r] /\ er = extent_read[r] /\ at = image_pos[ProcessOf[r]]
        /\ total = Size(r)
  BY <1>2 DEF StreamInv, CursorInv, TypeOK
<1>5. PICK e \in 1..Len(layout[r].extents) : e = extent_pos[r] + 1
  BY <1>2
<1>6. PICK cur : cur = Current(r)
  OBVIOUS
<1>7. cur = layout[r].extents[e]
  BY <1>5, <1>6 DEF Current, Extents
<1>8. PICK start \in Nat, offset \in Nat, length \in Nat :
        start = cur.file_offset /\ offset = cur.offset /\ length = cur.size
  BY <1>7, FileFacts DEF StreamInv, CursorInv, Extents
<1>9. /\ n \in Lengths /\ k <= n /\ p = from + k /\ at = offset + er
      /\ c.op = "readinto1" => k = 0
      /\ \A i \in 1..k : c.buf[i] = ByteAt(layout[r], from + i - 1)
  BY <1>1, <1>2, <1>3, <1>4, <1>6, <1>8 DEF StreamInv, Delivering, Reads
<1>10. er < length /\ p = start + er /\ p <= total
  BY <1>2, <1>4, <1>6, <1>8 DEF StreamInv, CursorInv, CursorAgrees, NextByte
<1>11. PICK room \in Nat, rest \in Nat \ {0} : room = n - k /\ rest = length - er
  <2>1. n - k \in Nat /\ length - er \in Nat \ {0}
    BY SMTT(30), <1>9, <1>10
  <2> QED
    BY <2>1
<1>12. PICK m \in Nat : m = Min2(room, rest) /\ m <= room /\ m <= rest
  BY DEF Min2
<1>13. PICK rd \in Nat : rd = Available(ProcessOf[r], m) /\ rd <= m
  <2>1. PICK there \in Nat : there = Max2(ImageSize - at, 0)
    <3>1. Max2(ImageSize - at, 0) \in Nat
      BY NumbersAssumption DEF Max2
    <3> QED
      BY <3>1
  <2>2. Available(ProcessOf[r], m) = Min2(m, there)
    BY <1>4, <2>1 DEF Available
  <2> QED
    BY <2>2 DEF Min2
<1>14. Whole(layout[r]) => rd = m
  <2>1. SUFFICES ASSUME Whole(layout[r]) PROVE rd = m
    OBVIOUS
  <2>2. offset + length <= ImageSize
    BY <1>5, <1>7, <1>8, <2>1 DEF Whole
  <2>3. m <= ImageSize - at /\ ImageSize - at \in Int
    BY <1>9, <1>10, <1>11, <1>12, <2>2, NumbersAssumption
  <2> QED
    BY <1>4, <1>13, <2>3 DEF Available, Min2, Max2
<1>15. Bound(k, n) = k /\ Bound(m, room) = m
  <2>1. k \in Int /\ k \in 0..n /\ m \in Int /\ m \in 0..room
    BY <1>9, <1>12
  <2> QED
    BY <2>1, BoundInBuffer, Zenon
<1>16. PICK diff \in Nat : diff = Max2(p + rd - total, 0)
  <2>1. Max2(p + rd - total, 0) \in Nat
    BY DEF Max2
  <2> QED
    BY <2>1
<1>17. PICK size \in Nat : size = k + rd - diff
  <2>1. diff <= rd
    BY <1>10, <1>16 DEF Max2
  <2>2. k + rd - diff \in Nat
    BY <2>1
  <2> QED
    BY <2>2
<1>18. /\ size <= k + rd /\ from + size <= total /\ p + rd - diff = from + size
       /\ size = k => rd = 0 \/ p = total
  BY <1>9, <1>10, <1>16, <1>17 DEF Max2
<1>19. size <= n
  BY <1>11, <1>12, <1>13, <1>18
<1>20. PICK filled \in Seq(Nat \cup {Junk}) :
         filled = Put(c.buf, k, at, rd) /\ Len(filled) = n
  <2>1. rd \in Int
    OBVIOUS
  <2>2. PICK buf \in Seq(Nat \cup {Junk}) : buf = c.buf
    BY <1>2
  <2>3. /\ Put(buf, k, at, rd) \in Seq(Nat \cup {Junk})
        /\ Len(Put(buf, k, at, rd)) = Len(buf)
    BY <2>1, PutBuffer
  <2> QED
    BY <1>3, <2>2, <2>3
<1>21. ASSUME NEW i \in 1..size PROVE filled[i] = ByteAt(layout[r], from + i - 1)
  <2>1. i \in Nat /\ i \in 1..n /\ i <= k + rd /\ i >= 1
    BY <1>18, <1>19
  <2>2. /\ i \in (k + 1)..(k + rd) => filled[i] = at + (i - k - 1)
        /\ i \notin (k + 1)..(k + rd) => filled[i] = c.buf[i]
    BY <1>3, <1>20, <2>1 DEF Put
  <2>3. CASE i > k
    <3>1. PICK o \in Nat : o = from + i - 1
      BY <2>1
    <3>2. from + k = start + er /\ at = offset + er /\ er + rd <= length
      BY <1>9, <1>10, <1>11, <1>12, <1>13
    <3>3. /\ start <= o /\ o < start + length
          /\ offset + (o - start) = at + (i - k - 1)
      BY <2>1, <2>3, <3>1, <3>2
    <3>4. Holds(cur, o)
      BY <1>8, <3>3 DEF Holds, End
    <3>5. ByteAt(layout[r], o) = offset + (o - start)
      BY <1>2, <1>7, <1>8, <3>4, ByteOfExtent
    <3>6. filled[i] = at + (i - k - 1)
      BY <2>1, <2>2, <2>3
    <3> QED
      BY <3>1, <3>3, <3>5, <3>6
  <2>4. CASE ~(i > k)
    <3>1. i \in 1..k /\ i \notin (k + 1)..(k + rd)
      BY <2>1, <2>4
    <3> QED
      BY <1>9, <2>2, <3>1
  <2> QED
    BY <2>3, <2>4
<1>22. /\ layout' = layout
       /\ \E finished, far :
            /\ extent_pos' = [extent_pos EXCEPT ![r] = @ + Skips(finished, diff > 0)]
            /\ extent_read' = [extent_read EXCEPT ![r] = far]
       /\ pos' = [pos EXCEPT ![r] = @ + rd - diff]
       /\ image_pos' = [image_pos EXCEPT ![ProcessOf[r]] = @ + rd]
       /\ IF c.op = "readinto" /\ size < n /\ ~Closed(r)'
            THEN /\ SetCall(r, [c EXCEPT !.buf = filled, !.size = size, !.seeked = FALSE])
                 /\ result' = result
            ELSE Return(r, SubSeq(filled, 1, Bound(size, Len(filled))))
  <2>1. Bound(c.size, Len(c.buf)) = k
    BY <1>3, <1>15
  <2>2. Available(ProcessOf[r], Bound(Min2(Len(c.buf) - k, Current(r).size - extent_read[r]),
                                      Len(c.buf) - k)) = rd
    <3>1. Len(c.buf) - k = room /\ Current(r).size - extent_read[r] = rest
      BY <1>3, <1>4, <1>6, <1>8, <1>11
    <3> QED
      BY <1>12, <1>13, <1>15, <3>1
  <2>3. /\ Put(c.buf, k, image_pos[ProcessOf[r]], rd) = filled
        /\ Max2(pos[r] + rd - Size(r), 0) = diff
        /\ c.size + rd - diff = size
    BY <1>3, <1>4, <1>16, <1>17, <1>20
  <2> QED
    BY <1>1, <1>3, <2>1, <2>2, <2>3, Zenon DEF ReadImage
<1>23. Bound(size, Len(filled)) = size
  <2>1. size \in Int /\ size \in 0..n
    BY <1>19
  <2> QED
    BY <1>20, <2>1, BoundInBuffer, Zenon
<1>24. /\ \A q \in Process : q # ProcessOf[r] => image_pos'[q] = image_pos[q]
       /\ \A q \in Reader : q # r => /\ extent_pos'[q] = extent_pos[q]
                                     /\ extent_read'[q] = extent_read[q]
                                     /\ pos'[q] = pos[q]
       /\ pos'[r] = from + size
  BY <1>4, <1>18, <1>22 DEF StreamInv, CursorInv, TypeOK
<1>25. c.op = "readinto1" /\ size = 0 /\ Whole(layout[r]) => n = 0 \/ from = total
  <2>1. SUFFICES ASSUME c.op = "readinto1", size = 0, Whole(layout[r]), n # 0
                 PROVE  from = total
    OBVIOUS
  <2>2. k = 0 /\ rd = m
    BY <1>9, <1>14, <2>1
  <2>3. rd # 0
    BY <1>11, <1>12, <2>1, <2>2 DEF Min2
  <2> QED
    BY <1>9, <1>18, <2>1, <2>2, <2>3
<1>26. IF c.op = "readinto" /\ size < n /\ ~Closed(r)'
         THEN /\ SetCall(r, [c EXCEPT !.buf = filled, !.size = size, !.seeked = FALSE])
              /\ result' = result
         ELSE Return(r, SubSeq(filled, 1, size))
  BY <1>22, <1>23
<1>27. /\ k <= size /\ extent_pos[r] <= extent_pos'[r]
       /\ Whole(layout[r]) /\ size < n => k < size \/ extent_pos[r] < extent_pos'[r]
  <2>1. PICK skipped \in Nat : /\ extent_pos'[r] = extent_pos[r] + skipped
                               /\ diff > 0 => skipped > 0
    <3>1. PICK finished : extent_pos' = [extent_pos EXCEPT ![r] = @ + Skips(finished, diff > 0)]
      BY <1>22
    <3>2. Skips(finished, diff > 0) \in Nat /\ (diff > 0 => Skips(finished, diff > 0) > 0)
      BY DEF Skips
    <3>3. extent_pos'[r] = extent_pos[r] + Skips(finished, diff > 0)
      BY <3>1 DEF StreamInv, CursorInv, TypeOK
    <3> QED
      BY <3>2, <3>3
  <2>2. PICK ep \in Nat : ep = extent_pos[r]
    BY DEF StreamInv, CursorInv, TypeOK
  <2>3. k <= size /\ (diff = 0 => size = k + rd)
    BY <1>10, <1>16, <1>17 DEF Max2
  <2>4. ASSUME Whole(layout[r]), size < n, diff = 0 PROVE k < size
    <3>1. room # 0
      BY <1>11, <2>3, <2>4
    <3>2. rd # 0
      BY <1>11, <1>12, <1>14, <2>4, <3>1 DEF Min2
    <3> QED
      BY <2>3, <2>4, <3>2
  <2> QED
    BY <2>1, <2>2, <2>3, <2>4
<1> WITNESS n \in Nat, from \in Nat, size \in Nat, filled \in Seq(Nat \cup {Junk})
<1> QED
  BY <1>1, <1>3, <1>4, <1>9, <1>18, <1>19, <1>20, <1>21, <1>22, <1>24, <1>25, <1>26, <1>27 DEF Takes

\* A read of the image goes on with what it has, or returns it.
LEMMA ReadImageStreams ==
  ASSUME StreamInv, NEW r \in Reader, ReadImage(r)
  PROVE  /\ \A q \in Reader : Delivering(q)'
         /\ Streams!Next \/ UNCHANGED Streams!vars
<1>1. PICK n \in Nat, from \in Nat, size \in Nat, filled \in Seq(Nat \cup {Junk}) :
          Takes(r, n, from, size, filled)
  BY ReadImageTakes
<1> USE DEF Takes
<1>2. /\ Calling(r) /\ Reading(r) /\ Call(r) \in CallType \ {Idle} /\ Call(r).reader = r
      /\ Call(r).op \in {"readinto", "readinto1"}
      /\ IsLayout(layout[r]) /\ Size(r) \in Nat
  BY CallFacts, FileFacts DEF ReadImage, Calling, Reading, StreamInv, CursorInv
<1>3. CASE Call(r).op = "readinto" /\ size < n /\ ~Closed(r)'
  <2>1. PICK d : d = [Call(r) EXCEPT !.buf = filled, !.size = size, !.seeked = FALSE]
    OBVIOUS
  <2>2. SetCall(r, d) /\ result' = result
    BY <1>1, <1>3, <2>1
  <2>3. /\ d.reader = r /\ d.op = "readinto" /\ d.buf = filled /\ d.size = size
        /\ d.seeked = FALSE /\ d.from = from
    BY <1>1, <1>2, <1>3, <2>1 DEF CallType
  <2>4. ASSUME Call(r)' = d PROVE Delivering(r)'
    <3>1. Reads(r)'
      BY <1>1, <2>3, <2>4 DEF Reads
    <3>2. ~ReadingAll(r)'
      BY <2>3, <2>4 DEF ReadingAll
    <3> QED
      BY <3>1, <3>2 DEF Delivering
  <2>5. d.op # "none" /\ d.from = StartsAt(r)
    BY <1>1, <1>2, <2>3 DEF StartsAt
  <2> QED
    BY <1>1, <1>2, <2>2, <2>3, <2>4, <2>5, Continued
<1>4. CASE ~(Call(r).op = "readinto" /\ size < n /\ ~Closed(r)')
  <2>1. PICK bytes : bytes = SubSeq(filled, 1, size)
    OBVIOUS
  <2>2. Return(r, bytes)
    BY <1>1, <1>4, <2>1
  <2>3. bytes = SubSeq(Content(layout[r]), from + 1, from + size)
    <3>1. from + size <= layout[r].size /\ size \in 0..Len(filled)
      BY <1>1 DEF Size
    <3>2. \A i \in 1..size : filled[i] = ByteAt(layout[r], from + i - 1)
      BY <1>1
    <3>3. IsLayout(layout[r])
      BY <1>2
    <3> HIDE DEF Takes
    <3> QED
      BY <2>1, <3>1, <3>2, <3>3, PieceOfFile
  <2>4. /\ \A q \in Reader : Delivering(q)'
        /\ \A q \in Reader : q # r => StartsAt(q)' = StartsAt(q)
        /\ StartsAt(r)' = pos'[r]
    BY <1>1, <1>2, <2>2, Returned
  <2>5. StartsAt(r) = from /\ StartsAt(r)' = StartsAt(r) + size
    BY <1>1, <1>2, <2>4 DEF StartsAt
  <2>6. Streams!Deliver(r, size)
    BY <1>1, <2>2, <2>3, <2>4, <2>5, StreamDelivers DEF Return
  <2>7. PICK left \in Nat : left = Streams!Left(r) /\ left = Size(r) - from
    <3>1. Len(Content(layout[r])) = Size(r)
      BY <1>2, ContentFacts DEF Size
    <3>2. Streams!Left(r) = Size(r) - StartsAt(r)
      BY <3>1 DEF Streams!Left, StartsAt
    <3>3. Size(r) - from \in Nat
      BY <1>1, <1>2
    <3> QED
      BY <2>5, <3>2, <3>3
  <2>8. size <= left
    BY <1>1, <1>2, <2>7
  <2>9. CASE Call(r).op = "readinto"
    <3>1. size >= n \/ from + size = Size(r)
      <4>1. CursorAgrees' /\ Size(r)' = Size(r)
        BY <1>1, ReadImageStep DEF StreamInv, CursorInv, Size
      <4>2. Closed(r)' => pos'[r] = Size(r)
        BY <4>1 DEF CursorAgrees
      <4> QED
        BY <1>1, <1>4, <2>9, <4>2
    <3>2. size = n \/ size = left
      BY <1>1, <1>2, <2>7, <3>1
    <3>3. Streams!Least(n, left) = size
      BY <1>1, <2>8, <3>2 DEF Streams!Least
    <3>4. Streams!Read(r, n)
      BY <2>6, <2>7, <3>3 DEF Streams!Read, Streams!Deliver
    <3> QED
      BY <1>1, <2>4, <3>4 DEF Streams!Next
  <2>10. CASE Call(r).op = "readinto1"
    <3>1. size \in 0..Streams!Least(n, left)
      BY <1>1, <2>8 DEF Streams!Least
    <3>2. size = 0 /\ Whole(layout[r]) => n = 0 \/ left = 0
      BY <1>1, <1>2, <2>7, <2>10
    <3>3. Streams!Read1(r, n)
      BY <2>6, <2>7, <3>1, <3>2 DEF Streams!Read1
    <3> QED
      BY <1>1, <2>4, <3>3 DEF Streams!Next
  <2> QED
    BY <1>2, <2>9, <2>10
<1> QED
  BY <1>3, <1>4

\* readall seeks the image for an extent of the file.
LEMMA SeekExtentStreams ==
  ASSUME StreamInv, NEW r \in Reader, SeekExtent(r)
  PROVE  /\ \A q \in Reader : Delivering(q)'
         /\ UNCHANGED Streams!vars
<1>1. PICK c : c = [Call(r) EXCEPT !.seeked = TRUE]
  OBVIOUS
<1>2. PICK at : at = Extents(r)[Call(r).extent + 1].offset
  OBVIOUS
<1>3. /\ Calling(r) /\ ReadingAll(r) /\ SetCall(r, c)
      /\ image_pos' = [image_pos EXCEPT ![ProcessOf[r]] = at]
      /\ UNCHANGED <<layout, cursor_vars, result>>
  BY <1>1, <1>2 DEF SeekExtent, SeekTo, ReadingAll
<1>4. Call(r) \in CallType \ {Idle} /\ ProcessOf[r] \in Process /\ Call(r).reader = r
  BY <1>3, CallFacts DEF StreamInv, CursorInv, Calling
<1>5. /\ c.reader = r /\ c.op = Call(r).op /\ c.buf = Call(r).buf
      /\ c.extent = Call(r).extent /\ c.from = Call(r).from
  BY <1>1, <1>4 DEF CallType
<1>6. /\ \A p \in Process : p # ProcessOf[r] => image_pos'[p] = image_pos[p]
      /\ image_pos'[ProcessOf[r]] = at
  BY <1>3, <1>4 DEF StreamInv, CursorInv, TypeOK
<1>7. ASSUME Call(r)' = c PROVE Delivering(r)'
  <2>1. ReadsAll(r)
    BY <1>3 DEF StreamInv, Delivering
  <2>2. Extents(r)' = Extents(r) /\ Size(r)' = Size(r) /\ pos' = pos
    BY <1>3 DEF Extents, Size, cursor_vars
  <2>3. ReadsAll(r)'
    BY <1>2, <1>3, <1>5, <1>6, <1>7, <2>1, <2>2 DEF ReadsAll
  <2>4. ~Reading(r)'
    BY <1>3, <1>5, <1>7 DEF ReadingAll, Reading
  <2> QED
    BY <2>3, <2>4 DEF Delivering
<1>8. c.op # "none" /\ c.from = StartsAt(r)
  BY <1>3, <1>5 DEF Calling, StartsAt
<1> QED
  BY <1>3, <1>5, <1>6, <1>7, <1>8, Continued DEF cursor_vars

\* What readall reads of an extent are the bytes of the file that it holds, and
\* those of the extents in front of it stay.
LEMMA FillExtentTakes ==
  ASSUME StreamInv, NEW r \in Reader, FillExtent(r), Whole(layout[r]),
         NEW e \in 1..Len(Extents(r)), e = Call(r).extent + 1,
         NEW extent, extent = Extents(r)[e],
         NEW rd, rd = Available(ProcessOf[r],
                                Min2(End(extent), Len(Call(r).buf)) - extent.file_offset),
         NEW filled, filled = Put(Call(r).buf, extent.file_offset, image_pos[ProcessOf[r]], rd),
         NEW i \in 1..e, NEW o \in 0..(Size(r) - 1), Holds(Extents(r)[i], o)
  PROVE  filled[o + 1] = ByteAt(layout[r], o)
<1>1. PICK c : c = Call(r)
  OBVIOUS
<1>2. /\ Calling(r) /\ c.seeked /\ ReadingAll(r) /\ c.extent \in Nat /\ ProcessOf[r] \in Process
      /\ IsLayout(layout[r])
  BY <1>1, CallFacts, FileFacts DEF FillExtent, ReadingAll, StreamInv, CursorInv
<1>3. PICK n \in Nat : n = Size(r)
  BY FileFacts DEF StreamInv, CursorInv
<1>4. Len(c.buf) = n
  BY <1>1, <1>2, <1>3 DEF StreamInv, CursorInv, WholeBuffer
<1>5. ReadsAll(r)
  BY <1>2 DEF StreamInv, Delivering
<1>6. PICK start \in Nat, offset \in Nat, length \in Nat \ {0} :
        /\ start = extent.file_offset /\ offset = extent.offset /\ length = extent.size
        /\ start < n
  BY <1>3, FileFacts DEF StreamInv, CursorInv
<1>7. image_pos[ProcessOf[r]] = offset
  BY <1>1, <1>2, <1>5, <1>6 DEF ReadsAll
<1>8. End(extent) = start + length
  BY <1>6 DEF End
<1>9. offset + length <= ImageSize
  BY <1>6 DEF Whole, Extents
<1>10. PICK m \in Nat : m = Min2(start + length, n) - start /\ m <= length /\ m <= n - start
  <2>1. PICK stop \in Nat : stop = Min2(start + length, n)
    BY DEF Min2
  <2>2. start <= stop /\ stop <= start + length /\ stop <= n
    <3>1. start < start + length /\ start < n
      BY SMTT(30), <1>6
    <3> QED
      BY <2>1, <3>1 DEF Min2
  <2>3. stop - start \in Nat /\ stop - start <= length /\ stop - start <= n - start
    BY <2>2
  <2> QED
    BY <2>1, <2>3
<1>11. rd = m
  <2>1. rd = Available(ProcessOf[r], m)
    BY <1>1, <1>4, <1>6, <1>8, <1>10
  <2>2. m <= ImageSize - offset /\ ImageSize - offset \in Int
    BY SMTT(30), <1>9, <1>10, NumbersAssumption
  <2> QED
    BY <1>7, <2>1, <2>2 DEF Available, Min2, Max2
<1>12. PICK ob \in Nat : ob = o /\ ob < n
  BY <1>3
<1>13. ob + 1 \in 1..n
  BY <1>12
<1>14. /\ ob + 1 \in (start + 1)..(start + m) => filled[ob + 1] = offset + (ob + 1 - start - 1)
       /\ ob + 1 \notin (start + 1)..(start + m) => filled[ob + 1] = c.buf[ob + 1]
  <2>1. filled = Put(c.buf, start, offset, m)
    BY <1>1, <1>6, <1>7, <1>11
  <2>2. filled = [j \in 1..n |-> IF j \in (start + 1)..(start + m)
                                 THEN offset + (j - start - 1) ELSE c.buf[j]]
    BY <1>4, <2>1, Zenon DEF Put
  <2>3. filled[ob + 1] = IF ob + 1 \in (start + 1)..(start + m)
                           THEN offset + (ob + 1 - start - 1) ELSE c.buf[ob + 1]
    BY <1>13, <2>2
  <2> QED
    BY <2>3, Zenon
<1>15. CASE i = e
  <2>1. Holds(extent, ob)
    BY <1>12, <1>15
  <2>2. start <= ob /\ ob < start + length
    BY <1>6, <1>8, <2>1 DEF Holds
  <2>3. ByteAt(layout[r], ob) = offset + (ob - start)
    BY <1>2, <1>6, <2>1, ByteOfExtent DEF Extents
  <2>4. ob < start + m
    BY <1>10, <1>12, <2>2 DEF Min2
  <2>5. ob + 1 \in (start + 1)..(start + m)
    BY SMTT(30), <2>2, <2>4
  <2>6. filled[ob + 1] = offset + (ob + 1 - start - 1)
    BY <1>14, <2>5
  <2>7. offset + (ob + 1 - start - 1) = offset + (ob - start)
    OBVIOUS
  <2> QED
    BY <1>12, <2>3, <2>6, <2>7
<1>16. CASE i # e
  <2>1. i \in 1..Len(Extents(r)) /\ i < e /\ i <= c.extent
    BY <1>1, <1>2, <1>16
  <2>2. End(Extents(r)[i]) <= start
    BY <1>2, <1>6, <2>1, ExtentsApart DEF Extents
  <2>3. End(Extents(r)[i]) \in Nat
    BY SMTT(30), <2>1, FileFacts DEF End, StreamInv, CursorInv
  <2>4. ob < start
    BY <1>12, <2>2, <2>3 DEF Holds
  <2>5. filled[ob + 1] = c.buf[ob + 1]
    BY <1>14, <2>4
  <2>6. c.buf[o + 1] = ByteAt(layout[r], o)
    BY <1>1, <1>2, <1>5, <2>1 DEF ReadsAll
  <2> QED
    BY <1>12, <2>5, <2>6
<1> QED
  BY <1>15, <1>16

\* readall passes an extent.
LEMMA FillExtentStreams ==
  ASSUME StreamInv, NEW r \in Reader, FillExtent(r)
  PROVE  /\ \A q \in Reader : Delivering(q)'
         /\ UNCHANGED Streams!vars
<1>1. PICK e : e = Call(r).extent + 1
  OBVIOUS
<1>2. PICK extent : extent = Extents(r)[e]
  OBVIOUS
<1>3. PICK rd : rd = Available(ProcessOf[r],
                       Min2(End(extent), Len(Call(r).buf)) - extent.file_offset)
  OBVIOUS
<1>4. PICK filled :
        filled = Put(Call(r).buf, extent.file_offset, image_pos[ProcessOf[r]], rd)
  OBVIOUS
<1>5. PICK c : c = [Call(r) EXCEPT !.buf = filled, !.extent = e, !.seeked = FALSE]
  OBVIOUS
<1>6. /\ SetCall(r, c)
      /\ image_pos' = [image_pos EXCEPT ![ProcessOf[r]] = @ + rd]
      /\ UNCHANGED <<layout, cursor_vars, result>>
  BY <1>1, <1>2, <1>3, <1>4, <1>5 DEF FillExtent
<1>7. /\ Calling(r) /\ ReadingAll(r) /\ Call(r).seeked
      /\ Call(r) \in CallType \ {Idle} /\ Call(r).reader = r /\ Call(r).op = "readall"
      /\ Call(r).extent \in Nat /\ ProcessOf[r] \in Process
  BY CallFacts DEF FillExtent, ReadingAll, Calling, StreamInv, CursorInv
<1>8. /\ c.reader = r /\ c.op = "readall" /\ c.buf = filled /\ c.extent = e
      /\ c.seeked = FALSE /\ c.from = Call(r).from
  BY <1>5, <1>7 DEF CallType
<1>9. e \in 1..Len(Extents(r))
  <2>1. Call(r).extent < Len(Extents(r)) /\ Len(Extents(r)) \in Nat
    BY <1>7, FileFacts DEF StreamInv, CursorInv, WholeBuffer
  <2> QED
    BY <1>1, <1>7, <2>1
<1>10. Whole(layout[r]) =>
         \A i \in 1..e : \A o \in 0..(Size(r) - 1) :
           Holds(Extents(r)[i], o) => filled[o + 1] = ByteAt(layout[r], o)
  BY <1>1, <1>2, <1>3, <1>4, <1>9, FillExtentTakes
<1>11. \A p \in Process : p # ProcessOf[r] => image_pos'[p] = image_pos[p]
  BY <1>6 DEF StreamInv, CursorInv, TypeOK
<1>12. ASSUME Call(r)' = c PROVE Delivering(r)'
  <2>1. /\ Extents(r)' = Extents(r) /\ Size(r)' = Size(r) /\ pos' = pos
        /\ layout' = layout
    BY <1>6 DEF Extents, Size, cursor_vars
  <2>2. pos[r] = Call(r).from /\ e <= Len(Extents(r))
    BY <1>7, <1>9 DEF StreamInv, Delivering, ReadsAll
  <2>3. ReadsAll(r)'
    BY <1>8, <1>10, <1>12, <2>1, <2>2 DEF ReadsAll
  <2>4. ~Reading(r)'
    BY <1>8, <1>12 DEF Reading
  <2> QED
    BY <2>3, <2>4 DEF Delivering
<1>13. c.op # "none" /\ c.from = StartsAt(r)
  BY <1>7, <1>8 DEF StartsAt
<1> QED
  BY <1>6, <1>7, <1>8, <1>11, <1>12, <1>13, Continued DEF cursor_vars

\* The buffer of readall at its end is the file, if all of that is in the image.
LEMMA ReturnAllStreams ==
  ASSUME StreamInv, NEW r \in Reader, ReturnAll(r)
  PROVE  /\ \A q \in Reader : Delivering(q)'
         /\ Streams!Next
<1>1. PICK buf : buf = Call(r).buf
  OBVIOUS
<1>2. PICK content : content = Content(layout[r])
  OBVIOUS
<1>3. /\ Calling(r) /\ ReadingAll(r) /\ Call(r).extent = Len(Extents(r))
      /\ Return(r, buf) /\ UNCHANGED <<layout, cursor_vars, image_pos>>
  BY <1>1 DEF ReturnAll, ReadingAll
<1>4. /\ buf \in Seq(Nat \cup {Junk}) /\ Len(buf) = Size(r) /\ Size(r) \in Nat
      /\ IsLayout(layout[r]) /\ ProcessOf[r] \in Process
  BY <1>1, <1>3, CallFacts, FileFacts DEF StreamInv, CursorInv, WholeBuffer
<1>5. /\ content \in Seq(Nat) /\ Len(content) = Size(r)
      /\ \A i \in 1..Size(r) : content[i] = ByteAt(layout[r], i - 1)
  BY <1>2, <1>4, ContentFacts DEF Size
<1>6. ReadsAll(r)
  BY <1>3 DEF StreamInv, Delivering
<1>7. Whole(layout[r]) => buf = content
  <2>1. SUFFICES ASSUME Whole(layout[r]) PROVE buf = content
    OBVIOUS
  <2>2. ASSUME NEW i \in 1..Size(r) PROVE buf[i] = content[i]
    <3>1. PICK o \in 0..(Size(r) - 1) : o = i - 1 /\ o + 1 = i
      <4>1. i - 1 \in 0..(Size(r) - 1) /\ (i - 1) + 1 = i
        BY <1>4
      <4> QED
        BY <4>1
    <3>2. PICK e \in 1..Len(Extents(r)) : Holds(Extents(r)[e], o)
      BY <1>4 DEF IsLayout, Extents, Size
    <3>3. buf[o + 1] = ByteAt(layout[r], o)
      BY <1>1, <1>3, <1>6, <2>1, <3>2 DEF ReadsAll
    <3>4. content[i] = ByteAt(layout[r], o)
      BY <1>5, <3>1
    <3> QED
      BY <3>1, <3>3, <3>4
  <2>3. content \in Seq(Nat \cup {Junk})
    BY <1>5
  <2> QED
    BY <1>4, <1>5, <2>2, <2>3, SeqEqual
<1>8. /\ \A q \in Reader : Delivering(q)'
      /\ \A q \in Reader : q # r => StartsAt(q)' = StartsAt(q)
      /\ StartsAt(r)' = pos'[r]
  BY <1>3, Returned DEF cursor_vars
<1>9. StartsAt(r)' = StartsAt(r)
  BY <1>3, <1>6, <1>8 DEF StartsAt, ReadsAll, cursor_vars
<1>10. result' = [result EXCEPT ![r] = buf] /\ result'[r] = buf
  BY <1>3 DEF Return, StreamInv, CursorInv, TypeOK
<1>11. Streams!ReadAll(r)
  <2>1. Len(result'[r]) = Len(Content(layout[r]))
    BY <1>2, <1>4, <1>5, <1>10
  <2>2. Whole(layout[r]) => result'[r] = Content(layout[r])
    BY <1>2, <1>7, <1>10
  <2>3. result' = [result EXCEPT ![r] = result'[r]]
    BY <1>10
  <2>4. \A q \in Reader : StartsAt(q)' = StartsAt(q)
    BY <1>8, <1>9
  <2> QED
    BY <1>3, <2>1, <2>2, <2>3, <2>4 DEF Streams!ReadAll, StartsAt
<1> QED
  BY <1>8, <1>11 DEF Streams!Next

\* A cursor that is set between two calls.
LEMMA CursorSet ==
  ASSUME StreamInv, NEW r \in Reader, Free(r), UNCHANGED <<layout, image_pos, call, result>>,
         NEW offset \in Nat, pos' = [pos EXCEPT ![r] = offset],
         \A q \in Reader : q # r => /\ extent_pos'[q] = extent_pos[q]
                                    /\ extent_read'[q] = extent_read[q]
  PROVE  /\ \A q \in Reader : Delivering(q)'
         /\ \A q \in Reader : q # r => StartsAt(q)' = StartsAt(q)
         /\ StartsAt(r) = pos[r] /\ StartsAt(r)' = offset
<1>1. ProcessOf[r] \in Process /\ call \in [Process -> CallType] /\ pos \in [Reader -> Nat]
  BY CallFacts DEF StreamInv, CursorInv, TypeOK
<1>2. SetCall(r, Idle)
  BY <1>1 DEF SetCall, Free
<1>3. \A q \in Reader : q # r => pos'[q] = pos[q]
  BY <1>1
<1>4. \A q \in Reader : q # r => Delivering(q)' /\ StartsAt(q)' = StartsAt(q)
  BY <1>2, <1>3, OthersKeep
<1>5. ~Calling(r) /\ ~Calling(r)'
  BY DEF Calling, Call, Free, Idle
<1>6. pos'[r] = offset
  BY <1>1
<1> QED
  BY <1>4, <1>5, <1>6 DEF Delivering, Reading, ReadingAll, StartsAt

\* A cursor set inside the file is a seek of its stream.
LEMMA StreamSeeks ==
  ASSUME layout' = layout, result' = result, NEW r \in Reader, IsLayout(layout[r]),
         NEW offset \in 0..(Size(r) - 1), StartsAt(r)' = offset,
         \A q \in Reader : q # r => StartsAt(q)' = StartsAt(q)
  PROVE  Streams!Next
<1>1. Len(Content(layout[r])) = Size(r)
  BY ContentFacts DEF Size
<1>2. Streams!Seek(r)
  BY <1>1 DEF Streams!Seek, StartsAt
<1> QED
  BY <1>2 DEF Streams!Next

\* seek inside a file finds its byte.
LEMMA SeekStreams ==
  ASSUME StreamInv, NEW r \in Reader, NEW offset \in Int,
         0 <= offset, offset < Size(r), Seek(r, offset)
  PROVE  /\ \A q \in Reader : Delivering(q)'
         /\ Streams!Next
<1>1. Free(r) /\ UNCHANGED <<layout, image_pos, call, result>>
  BY DEF Seek
<1>2. IsLayout(layout[r]) /\ Size(r) \in Nat
  BY FileFacts DEF StreamInv, CursorInv
<1>3. offset \in 0..(Size(r) - 1) /\ offset \in Nat
  BY <1>2
<1>4. \E i \in 1..Len(Extents(r)) : Holds(Extents(r)[i], offset)
  BY <1>2, <1>3 DEF IsLayout, Extents, Size
<1>5. /\ pos' = [pos EXCEPT ![r] = offset]
      /\ \A q \in Reader : q # r => /\ extent_pos'[q] = extent_pos[q]
                                    /\ extent_read'[q] = extent_read[q]
  BY <1>4 DEF Seek, StreamInv, CursorInv, TypeOK
<1>6. /\ \A q \in Reader : Delivering(q)'
      /\ \A q \in Reader : q # r => StartsAt(q)' = StartsAt(q)
      /\ StartsAt(r)' = offset
  BY <1>1, <1>3, <1>5, CursorSet
<1> QED
  BY <1>1, <1>2, <1>3, <1>6, StreamSeeks

\* reset of a finished file seeks its start; an empty file is there already.
LEMMA ResetStreams ==
  ASSUME StreamInv, NEW r \in Reader, Closed(r), Reset(r)
  PROVE  /\ \A q \in Reader : Delivering(q)'
         /\ Streams!Next \/ UNCHANGED Streams!vars
<1>1. /\ Free(r) /\ UNCHANGED <<layout, image_pos, call, result>>
      /\ pos' = [pos EXCEPT ![r] = 0]
      /\ \A q \in Reader : q # r => /\ extent_pos'[q] = extent_pos[q]
                                    /\ extent_read'[q] = extent_read[q]
  BY DEF Reset, StreamInv, CursorInv, TypeOK
<1>2. IsLayout(layout[r]) /\ Size(r) \in Nat /\ pos[r] = Size(r)
  BY FileFacts DEF StreamInv, CursorInv, CursorAgrees
<1>3. /\ \A q \in Reader : Delivering(q)'
      /\ \A q \in Reader : q # r => StartsAt(q)' = StartsAt(q)
      /\ StartsAt(r) = pos[r] /\ StartsAt(r)' = 0
  BY <1>1, CursorSet
<1>4. CASE Size(r) = 0
  <2>1. \A q \in Reader : StartsAt(q)' = StartsAt(q)
    BY <1>2, <1>3, <1>4
  <2> QED
    BY <1>1, <1>3, <2>1, StreamsStutter
<1>5. CASE Size(r) # 0
  <2>1. 0 \in 0..(Size(r) - 1)
    BY <1>2, <1>5
  <2> QED
    BY <1>1, <1>2, <1>3, <2>1, StreamSeeks
<1> QED
  BY <1>4, <1>5

\* Nothing has been read when the files are opened.
LEMMA InitStreams == Init => StreamInv /\ Streams!Init
<1> SUFFICES ASSUME Init PROVE StreamInv /\ Streams!Init
  OBVIOUS
<1>1. CursorInv
  BY InitCursor
<1>2. \A r \in Reader : ~Calling(r)
  BY ProcessAssumption DEF Init, Calling, Call, Idle
<1>3. StreamInv
  BY <1>1, <1>2 DEF StreamInv, Delivering, Reading, ReadingAll
<1>4. \A r \in Reader : IsLayout(layout[r])
  BY LayoutsAssumption DEF Init
<1>5. \A r \in Reader : Content(layout[r]) \in Seq(Nat)
  BY <1>4, ContentFacts
<1>6. \A r \in Reader : Whole(layout[r]) \in BOOLEAN
  BY DEF Whole
<1>7. \A r \in Reader : StartsAt(r) = 0
  BY <1>2 DEF StartsAt, Init
<1>8. result = [r \in Reader |-> <<>>]
  BY DEF Init
<1> QED
  BY <1>3, <1>5, <1>6, <1>7, <1>8 DEF Streams!Init, StartsAt

\* Every step of every reader is a step of the streams, or none.
LEMMA NextStreams ==
  ASSUME Documented, StreamInv, [Next]_vars
  PROVE  StreamInv' /\ [Streams!Next]_(Streams!vars)
<1>1. CursorInv'
  BY NextCursor DEF StreamInv
<1>2. CASE Next
  <2>1. PICK r \in Reader :
          \/ \E n \in Lengths : StartCall(r, "readinto", n) \/ StartCall(r, "readinto1", n)
          \/ StartCall(r, "readall", Size(r))
          \/ Step(r)
          \/ \E offset \in Offsets : /\ Documented => 0 <= offset /\ offset < Size(r)
                                     /\ Seek(r, offset)
          \/ (Documented => Closed(r)) /\ Reset(r)
    BY <1>2 DEF Next
  <2> DEFINE Goal == /\ \A q \in Reader : Delivering(q)'
                     /\ Streams!Next \/ UNCHANGED Streams!vars
  <2> SUFFICES Goal
    BY <1>1 DEF StreamInv
  <2>2. ASSUME NEW n \in Lengths, StartCall(r, "readinto", n) \/ StartCall(r, "readinto1", n)
        PROVE  Goal
    <3>1. n \in Nat
      BY NumbersAssumption
    <3> QED
      BY <2>2, <3>1, StartCallStreams
  <2>3. CASE StartCall(r, "readall", Size(r))
    <3>1. PICK n \in Nat : n = Size(r)
      BY FileFacts DEF StreamInv, CursorInv
    <3>2. StartCall(r, "readall", n)
      BY <2>3, <3>1 DEF StartCall
    <3> QED
      BY <3>1, <3>2, StartCallStreams
  <2>4. CASE Step(r)
    <3>1. CASE OutOfExtents(r)
      BY <3>1, OutOfExtentsStreams
    <3>2. CASE SeekImage(r)
      BY <3>2, SeekImageStreams
    <3>3. CASE ReadImage(r)
      BY <3>3, ReadImageStreams
    <3>4. CASE SeekExtent(r)
      BY <3>4, SeekExtentStreams
    <3>5. CASE FillExtent(r)
      BY <3>5, FillExtentStreams
    <3>6. CASE ReturnAll(r)
      BY <3>6, ReturnAllStreams
    <3> QED
      BY <2>4, <3>1, <3>2, <3>3, <3>4, <3>5, <3>6 DEF Step
  <2>5. ASSUME NEW offset \in Offsets,
               Documented => 0 <= offset /\ offset < Size(r), Seek(r, offset)
        PROVE  Goal
    <3>1. offset \in Int
      BY NumbersAssumption
    <3> QED
      BY <2>5, <3>1, SeekStreams
  <2>6. CASE (Documented => Closed(r)) /\ Reset(r)
    <3>1. Closed(r) /\ Reset(r)
      BY <2>6
    <3> QED
      BY <3>1, ResetStreams
  <2> QED
    BY <2>1, <2>2, <2>3, <2>4, <2>5, <2>6
<1>3. CASE UNCHANGED vars
  <2>1. UNCHANGED <<layout, extent_pos, extent_read, pos, image_pos, call, result>>
    BY <1>3 DEF vars
  <2>2. \A r \in Reader : StartsAt(r)' = StartsAt(r)
    BY <2>1 DEF StartsAt, Calling, Call
  <2>3. UNCHANGED Streams!vars
    BY <2>1, <2>2, StreamsStutter
  <2>4. \A r \in Reader : Delivering(r)'
    BY <2>1 DEF StreamInv, Delivering, Reading, ReadingAll, Reads, ReadsAll, Calling, Call,
                Current, Extents, Size
  <2> QED
    BY <1>1, <2>3, <2>4 DEF StreamInv
<1> QED
  BY <1>2, <1>3

\* A running read has in its buffer the bytes of its file from where it began.
THEOREM StreamInvariant == ASSUME Documented PROVE Spec => []StreamInv
<1>1. Init => StreamInv
  BY InitStreams
<1>2. StreamInv /\ [Next]_vars => StreamInv'
  BY NextStreams
<1> QED
  BY <1>1, <1>2, PTL DEF Spec

\* Whatever the files of a process do to the position of the image between two
\* calls, each of them is a stream of the bytes of its file: read, readinto and
\* read1 of _BcachefsFileBinary deliver what follows the last byte delivered, and
\* readall all of them, for all files without holes and all interleavings.
THEOREM ReaderImplementsStreams == ASSUME Documented PROVE Spec => ImplementsStreams
<1>1. Init => StreamInv /\ Streams!Init
  BY InitStreams
<1>2. StreamInv /\ [Next]_vars => StreamInv' /\ [Streams!Next]_(Streams!vars)
  BY NextStreams
<1>3. Spec => Streams!Spec
  BY <1>1, <1>2, PTL DEF Spec, Streams!Spec
<1> QED
  BY <1>3 DEF ImplementsStreams

-----------------------------------------------------------------------------
(* How long a call may take *)

\* What the loop of a running call has left: extents, and for a read room too.
Rest(r) ==
  IF ReadingAll(r) THEN Len(Extents(r)) - Call(r).extent
  ELSE (Len(Call(r).buf) - Call(r).size) + Max2(Len(Extents(r)) - extent_pos[r], 0)

\* A bound of the steps until the call returns: each round seeks, then reads.
ToGo(r) == IF Calling(r) THEN 2 * Rest(r) + (IF Call(r).seeked THEN 0 ELSE 1) ELSE 0

\* There is something left as long as a call runs.
LEMMA SomethingToGo ==
  ASSUME StreamInv, NEW r \in Reader, Calling(r)
  PROVE  /\ Rest(r) \in Nat
         /\ Call(r).seeked => Rest(r) > 0
         /\ ToGo(r) \in Nat /\ ToGo(r) > 0
<1>1. PICK count \in Nat, cursor \in Nat : count = Len(Extents(r)) /\ cursor = extent_pos[r]
  BY FileFacts DEF StreamInv, CursorInv, TypeOK
<1>2. PICK n \in Nat, k \in Nat, e \in Nat :
        n = Len(Call(r).buf) /\ k = Call(r).size /\ e = Call(r).extent
  BY CallFacts, LenProperties DEF StreamInv, CursorInv
<1>3. Call(r).seeked \in BOOLEAN
  BY CallFacts DEF StreamInv, CursorInv
<1>4. CASE ReadingAll(r)
  <2>1. e <= count /\ (Call(r).seeked => e < count)
    BY <1>1, <1>2, <1>4 DEF StreamInv, Delivering, ReadsAll, CursorInv, WholeBuffer
  <2>2. Rest(r) = count - e
    BY <1>1, <1>2, <1>4 DEF Rest
  <2> QED
    BY <1>3, <2>1, <2>2 DEF ToGo
<1>5. CASE ~ReadingAll(r)
  <2>1. Reading(r)
    BY <1>5, CallFacts DEF Reading, ReadingAll, StreamInv, CursorInv
  <2>2. k <= n /\ (Call(r).seeked => cursor < count)
    BY <1>1, <1>2, <2>1 DEF StreamInv, Delivering, Reads, CursorInv, SeekedOpen, Closed
  <2>3. Rest(r) = (n - k) + Max2(count - cursor, 0)
    BY <1>1, <1>2, <1>5 DEF Rest
  <2>4. Rest(r) \in Nat /\ (Call(r).seeked => Rest(r) > 0)
    BY <2>2, <2>3 DEF Max2
  <2> QED
    BY <1>3, <2>4 DEF ToGo
<1> QED
  BY <1>4, <1>5

\* A call that returns has nothing to go.
LEMMA ReturnCloser ==
  ASSUME StreamInv, NEW r \in Reader, Calling(r), NEW bytes, Return(r, bytes)
  PROVE  ToGo(r)' < ToGo(r)
<1>1. ProcessOf[r] \in Process /\ call \in [Process -> CallType]
  BY CallFacts DEF StreamInv, CursorInv, TypeOK
<1>2. Call(r)' = Idle
  BY <1>1 DEF Return, SetCall, Call
<1>3. ToGo(r)' = 0
  BY <1>2 DEF ToGo, Calling, Idle
<1> QED
  BY <1>3, SomethingToGo

\* A call that seeks the image has one step less to go.
LEMMA SeekCloser ==
  ASSUME StreamInv, NEW r \in Reader, Calling(r), ~Call(r).seeked,
         NEW offset, SeekTo(r, offset)
  PROVE  ToGo(r)' < ToGo(r)
<1>1. ProcessOf[r] \in Process /\ call \in [Process -> CallType]
  BY CallFacts DEF StreamInv, CursorInv, TypeOK
<1>2. Call(r) \in CallType \ {Idle}
  BY CallFacts DEF StreamInv, CursorInv
<1>3. Call(r)' = [Call(r) EXCEPT !.seeked = TRUE]
  BY <1>1 DEF SeekTo, SetCall, Call
<1>4. /\ Call(r)'.op = Call(r).op /\ Call(r)'.reader = Call(r).reader
      /\ Call(r)'.buf = Call(r).buf /\ Call(r)'.size = Call(r).size
      /\ Call(r)'.extent = Call(r).extent /\ Call(r)'.seeked = TRUE
  BY <1>2, <1>3 DEF CallType
<1>5. Calling(r)' /\ ReadingAll(r)' = ReadingAll(r)
  BY <1>4 DEF Calling, ReadingAll
<1>6. Rest(r)' = Rest(r)
  BY <1>4, <1>5 DEF Rest, Extents, SeekTo, cursor_vars
<1> QED
  BY <1>4, <1>5, <1>6, SomethingToGo DEF ToGo

\* A read of the image fills the buffer, finishes an extent, or returns.
LEMMA ReadImageCloser ==
  ASSUME StreamInv, NEW r \in Reader, Whole(layout[r]), ReadImage(r)
  PROVE  ToGo(r)' < ToGo(r)
<1>1. PICK n \in Nat, from \in Nat, size \in Nat, filled \in Seq(Nat \cup {Junk}) :
        Takes(r, n, from, size, filled)
  BY ReadImageTakes
<1>2. /\ Calling(r) /\ Reading(r) /\ ~ReadingAll(r) /\ Call(r).seeked
      /\ Call(r) \in CallType \ {Idle} /\ Call(r).size \in Nat
      /\ ProcessOf[r] \in Process /\ call \in [Process -> CallType]
  BY CallFacts DEF ReadImage, Reading, ReadingAll, StreamInv, CursorInv, TypeOK
<1>3. CASE Call(r).op = "readinto" /\ size < n /\ ~Closed(r)'
  <2>1. PICK c : c = [Call(r) EXCEPT !.buf = filled, !.size = size, !.seeked = FALSE]
    OBVIOUS
  <2>2. Call(r)' = c
    BY <1>1, <1>2, <1>3, <2>1 DEF Takes, SetCall, Call
  <2>3. /\ c.op = "readinto" /\ c.reader = Call(r).reader /\ c.buf = filled
        /\ c.size = size /\ c.seeked = FALSE
    BY <1>2, <1>3, <2>1 DEF CallType
  <2>4. Calling(r)' /\ ~ReadingAll(r)'
    BY <1>2, <2>2, <2>3 DEF Calling, ReadingAll
  <2>5. PICK k \in Nat, count \in Nat, cursor \in Nat, moved \in Nat :
          /\ k = Call(r).size /\ count = Len(Extents(r))
          /\ cursor = extent_pos[r] /\ moved = extent_pos'[r]
    <3>1. TypeOK'
      BY <1>2, ReadImageStep DEF StreamInv, CursorInv
    <3>2. extent_pos[r] \in Nat /\ extent_pos'[r] \in Nat
      BY <3>1 DEF StreamInv, CursorInv, TypeOK
    <3>3. Len(Extents(r)) \in Nat
      BY FileFacts DEF StreamInv, CursorInv
    <3> QED
      BY <1>2, <3>2, <3>3
  <2>6. Rest(r) = (n - k) + Max2(count - cursor, 0)
    BY <1>1, <1>2, <2>5 DEF Rest, Takes
  <2>7. Rest(r)' = (n - size) + Max2(count - moved, 0)
    BY <1>1, <2>2, <2>3, <2>4, <2>5 DEF Rest, Takes, Extents
  <2>8. moved < count
    BY <1>1, <1>3, <2>5 DEF Takes, Closed, Extents
  <2>9. k <= size /\ cursor <= moved /\ (k < size \/ cursor < moved)
    BY <1>1, <1>3, <2>5 DEF Takes
  <2>10. Rest(r)' < Rest(r) /\ Rest(r) \in Nat /\ Rest(r)' \in Int
    <3>1. Max2(count - moved, 0) = count - moved /\ Max2(count - cursor, 0) = count - cursor
      BY <2>8, <2>9 DEF Max2
    <3>2. size <= n
      BY <1>1 DEF Takes
    <3> QED
      BY <2>6, <2>7, <2>8, <2>9, <3>1, <3>2
  <2>11. ToGo(r) = 2 * Rest(r) /\ ToGo(r)' = 2 * Rest(r)' + 1
    BY <1>2, <2>2, <2>3, <2>4, <2>10 DEF ToGo
  <2> QED
    BY <2>10, <2>11
<1>4. CASE ~(Call(r).op = "readinto" /\ size < n /\ ~Closed(r)')
  <2>1. Return(r, SubSeq(filled, 1, size))
    BY <1>1, <1>4 DEF Takes
  <2> QED
    BY <1>2, <2>1, ReturnCloser
<1> QED
  BY <1>3, <1>4

\* readall passes an extent for good.
LEMMA FillExtentCloser ==
  ASSUME StreamInv, NEW r \in Reader, FillExtent(r)
  PROVE  ToGo(r)' < ToGo(r)
<1>1. /\ Calling(r) /\ ReadingAll(r) /\ Call(r).seeked
      /\ Call(r) \in CallType \ {Idle} /\ Call(r).extent \in Nat
      /\ ProcessOf[r] \in Process /\ call \in [Process -> CallType]
  BY CallFacts DEF FillExtent, ReadingAll, StreamInv, CursorInv, TypeOK
<1>2. PICK filled :
        /\ SetCall(r, [Call(r) EXCEPT !.buf = filled, !.extent = @ + 1, !.seeked = FALSE])
        /\ layout' = layout
  BY DEF FillExtent
<1>3. PICK c : c = [Call(r) EXCEPT !.buf = filled, !.extent = @ + 1, !.seeked = FALSE]
  OBVIOUS
<1>4. Call(r)' = c
  BY <1>1, <1>2, <1>3 DEF SetCall, Call
<1>5. /\ c.op = Call(r).op /\ c.reader = Call(r).reader
      /\ c.extent = Call(r).extent + 1 /\ c.seeked = FALSE
  BY <1>1, <1>3 DEF CallType
<1>6. Calling(r)' /\ ReadingAll(r)'
  BY <1>1, <1>4, <1>5 DEF Calling, ReadingAll
<1>7. PICK count \in Nat : count = Len(Extents(r))
  BY FileFacts DEF StreamInv, CursorInv
<1>8. Rest(r) = count - Call(r).extent /\ Rest(r)' = count - (Call(r).extent + 1)
  BY <1>1, <1>2, <1>4, <1>5, <1>6, <1>7 DEF Rest, Extents
<1>9. ToGo(r) = 2 * Rest(r) /\ ToGo(r)' = 2 * Rest(r)' + 1
  BY <1>1, <1>4, <1>5, <1>6, <1>8 DEF ToGo
<1> QED
  BY <1>1, <1>7, <1>8, <1>9

\* Every step of a call on a file that is in the image brings it closer.
LEMMA StepCloser ==
  ASSUME StreamInv, NEW r \in Reader, Whole(layout[r]), Step(r)
  PROVE  ToGo(r)' < ToGo(r)
<1>1. CASE OutOfExtents(r)
  BY <1>1, ReturnCloser DEF OutOfExtents, Reading
<1>2. CASE SeekImage(r)
  BY <1>2, SeekCloser DEF SeekImage, Reading
<1>3. CASE ReadImage(r)
  BY <1>3, ReadImageCloser
<1>4. CASE SeekExtent(r)
  BY <1>4, SeekCloser DEF SeekExtent, ReadingAll
<1>5. CASE FillExtent(r)
  BY <1>5, FillExtentCloser
<1>6. CASE ReturnAll(r)
  BY <1>6, ReturnCloser DEF ReturnAll, ReadingAll
<1> QED
  BY <1>1, <1>2, <1>3, <1>4, <1>5, <1>6 DEF Step

\* What other files do while a call runs takes it no further from its end.
LEMMA OthersWait ==
  ASSUME StreamInv, NEW r \in Reader, Calling(r), [Next]_vars, ~Step(r)
  PROVE  ToGo(r)' = ToGo(r)
<1>1. SUFFICES /\ Call(r)' = Call(r) /\ layout' = layout
               /\ extent_pos'[r] = extent_pos[r]
  BY DEF ToGo, Rest, Calling, ReadingAll, Extents
<1>2. /\ ProcessOf[r] \in Process /\ call \in [Process -> CallType]
      /\ extent_pos \in [Reader -> Nat]
  BY CallFacts DEF StreamInv, CursorInv, TypeOK
<1>3. CASE Next
  <2>1. PICK q \in Reader :
          \/ \E n \in Lengths : StartCall(q, "readinto", n) \/ StartCall(q, "readinto1", n)
          \/ StartCall(q, "readall", Size(q))
          \/ Step(q)
          \/ \E offset \in Offsets : Seek(q, offset)
          \/ Reset(q)
    BY <1>3 DEF Next
  <2>2. \A p \in Reader : Free(p) => ProcessOf[p] # ProcessOf[r]
    BY DEF Free, Calling, Call, Idle
  <2>3. \A p \in Reader : Calling(p) /\ p # r => ProcessOf[p] # ProcessOf[r]
    BY DEF Calling, Call
  <2>4. ASSUME NEW op, NEW n, StartCall(q, op, n)
        PROVE  /\ Call(r)' = Call(r) /\ layout' = layout
               /\ extent_pos'[r] = extent_pos[r]
    BY <1>2, <2>2, <2>4 DEF StartCall, SetCall, Call, cursor_vars
  <2>5. CASE Step(q)
    <3>1. q # r
      BY <2>5
    <3>2. Calling(q)
      BY <2>5 DEF Step, OutOfExtents, SeekImage, ReadImage, SeekExtent, FillExtent,
                  ReturnAll, Reading, ReadingAll
    <3>3. ProcessOf[q] # ProcessOf[r]
      BY <2>3, <3>1, <3>2
    <3>4. /\ \E c : SetCall(q, c)
          /\ layout' = layout
          /\ \/ extent_pos' = extent_pos
             \/ \E e : extent_pos' = [extent_pos EXCEPT ![q] = e]
      <4>1. CASE OutOfExtents(q)
        BY <4>1 DEF OutOfExtents, Return, cursor_vars
      <4>2. CASE SeekImage(q)
        BY <4>2 DEF SeekImage, SeekTo, cursor_vars
      <4>3. CASE ReadImage(q)
        BY <4>3 DEF ReadImage, Return
      <4>4. CASE SeekExtent(q)
        BY <4>4 DEF SeekExtent, SeekTo, cursor_vars
      <4>5. CASE FillExtent(q)
        BY <4>5 DEF FillExtent, cursor_vars
      <4>6. CASE ReturnAll(q)
        BY <4>6 DEF ReturnAll, Return, cursor_vars
      <4> QED
        BY <2>5, <4>1, <4>2, <4>3, <4>4, <4>5, <4>6 DEF Step
    <3> QED
      BY <1>2, <3>1, <3>3, <3>4 DEF SetCall, Call
  <2>6. ASSUME NEW offset, Seek(q, offset)
        PROVE  /\ Call(r)' = Call(r) /\ layout' = layout
               /\ extent_pos'[r] = extent_pos[r]
    <3>1. q # r
      BY <2>2, <2>6 DEF Seek
    <3> QED
      BY <1>2, <2>6, <3>1 DEF Seek, Call
  <2>7. CASE Reset(q)
    <3>1. q # r
      BY <2>2, <2>7 DEF Reset
    <3> QED
      BY <1>2, <2>7, <3>1 DEF Reset, Call
  <2> QED
    BY <2>1, <2>4, <2>5, <2>6, <2>7
<1>4. CASE UNCHANGED vars
  BY <1>4 DEF vars, Call
<1> QED
  BY <1>3, <1>4

\* No loop of a call goes on for ever on a file that is in the image: a natural
\* number falls with each of its steps, and nothing that other files do in
\* between raises it.  (readinto spins on an extent beyond the end of the image.)
THEOREM CallsComeCloser ==
  ASSUME Documented
  PROVE  Spec => [][\A r \in Reader : Calling(r) /\ Whole(layout[r]) =>
                      /\ ToGo(r) \in Nat
                      /\ Step(r) => ToGo(r)' < ToGo(r)
                      /\ ~Step(r) => ToGo(r)' = ToGo(r)]_vars
<1> DEFINE Closer == \A r \in Reader : Calling(r) /\ Whole(layout[r]) =>
                       /\ ToGo(r) \in Nat
                       /\ Step(r) => ToGo(r)' < ToGo(r)
                       /\ ~Step(r) => ToGo(r)' = ToGo(r)
<1>1. StreamInv /\ [Next]_vars => Closer
  BY SomethingToGo, StepCloser, OthersWait
<1>2. StreamInv /\ [Next]_vars => [Closer]_vars
  BY <1>1
<1>3. Spec => []StreamInv
  BY StreamInvariant
<1> QED
  BY <1>2, <1>3, PTL DEF Spec

=============================================================================
