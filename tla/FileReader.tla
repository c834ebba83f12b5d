----------------------------- MODULE FileReader -----------------------------
(***************************************************************************)
(* _BcachefsFileBinary: the file object that reads a file of the image     *)
(* extent by extent, through the image's file object, which all the files  *)
(* opened in a process share: its position moves under each of them.  A    *)
(* process runs one call at a time and opens the image for itself.  Bytes  *)
(* are named by their offset in the image; indexes count from 0 as in the  *)
(* code.  A definition Slip... is a slip in the one that follows it, for   *)
(* mutation testing of the properties; no specification uses it.           *)
(***************************************************************************)
EXTENDS Integers, Sequences

CONSTANTS
  Reader,        \* open files
  Process,
  ProcessOf,     \* the process a file is open in
  Layouts,       \* files: [extents, size]
  Lengths,       \* lengths of the buffers read into
  Offsets,       \* offsets seeked to
  ImageSize,     \* bytes in the image file
  Documented,    \* clients seek inside the file and reset what they finished
  Junk           \* a byte of np.empty

Min2(a, b) == IF a < b THEN a ELSE b
Max2(a, b) == IF a < b THEN b ELSE a

Extent == [file_offset: Nat, offset: Nat, size: Nat \ {0}]
End(extent) == extent.file_offset + extent.size

Holds(extent, offset) == extent.file_offset <= offset /\ offset < End(extent)

\* A file without holes, as the extents of its inode describe it: they are
\* whole sectors, so the last one may reach beyond the size.
IsLayout(l) ==
  /\ l.extents \in Seq(Extent) /\ l.size \in Nat
  /\ \A i \in 1..Len(l.extents) :
       /\ l.extents[i].file_offset < l.size
       /\ l.extents[i].file_offset = IF i = 1 THEN 0 ELSE End(l.extents[i - 1])
  /\ \A offset \in 0..(l.size - 1) :
       \E i \in 1..Len(l.extents) : Holds(l.extents[i], offset)

ASSUME LayoutsAssumption == \A l \in Layouts : IsLayout(l)
ASSUME ProcessAssumption == ProcessOf \in [Reader -> Process]
ASSUME NumbersAssumption ==
  Lengths \subseteq Nat /\ Offsets \subseteq Int /\ ImageSize \in Nat
ASSUME DocumentedAssumption == Documented \in BOOLEAN

VARIABLES
  layout,         \* the file each reader has open
  extent_pos,     \* current extent being read
  extent_read,    \* offset of the unread part of the current extent
  pos,            \* position in the file
  image_pos,      \* per process, position of the image's file object
  call,           \* per process, the call that is running
  result          \* per reader, what its last read returned

vars == <<layout, extent_pos, extent_read, pos, image_pos, call, result>>
cursor_vars == <<extent_pos, extent_read, pos>>

Idle == [op |-> "none"]

Init == /\ layout \in [Reader -> Layouts]
        /\ extent_pos = [r \in Reader |-> 0]
        /\ extent_read = [r \in Reader |-> 0]
        /\ pos = [r \in Reader |-> 0]
        /\ image_pos = [p \in Process |-> 0]
        /\ call = [p \in Process |-> Idle]
        /\ result = [r \in Reader |-> <<>>]

Extents(r) == layout[r].extents
Size(r) == layout[r].size
Closed(r) == extent_pos[r] >= Len(Extents(r))
Current(r) == Extents(r)[extent_pos[r] + 1]

Free(r) == call[ProcessOf[r]] = Idle
Call(r) == call[ProcessOf[r]]
Calling(r) == Call(r).op # "none" /\ Call(r).reader = r
SetCall(r, c) == call' = [call EXCEPT ![ProcessOf[r]] = c]
Return(r, bytes) == SetCall(r, Idle) /\ result' = [result EXCEPT ![r] = bytes]

\* A slice bound of Python in a buffer of n bytes.
Bound(i, n) == IF i >= 0 THEN Min2(i, n) ELSE Max2(n + i, 0)

\* k bytes of the image, from offset at, put into the buffer behind place d.
Put(buf, d, at, k) == [i \in 1..Len(buf) |->
                         IF i \in (d + 1)..(d + k) THEN at + (i - d - 1) ELSE buf[i]]

\* How many extents the bookkeeping of readinto1 moves on: one when the current
\* extent is finished, and one when the read went beyond the end of the file.
SlipSkipsAtEnd(finished, beyond) == IF beyond THEN 1 ELSE 0
SlipSkipsFinished(finished, beyond) == IF finished THEN 1 ELSE 0
Skips(finished, beyond) == (IF finished THEN 1 ELSE 0) + (IF beyond THEN 1 ELSE 0)

\* The place of an offset of the file in its extent.
SlipInto(extent, offset) == extent.file_offset - offset
Into(extent, offset) == offset - extent.file_offset

\* What image.readinto delivers of the k bytes asked for.
Available(p, k) == Min2(k, Max2(ImageSize - image_pos[p], 0))

\* read, read1 and readall allocate a buffer; from is where the cursor was.
StartCall(r, op, n) ==
  /\ Free(r)
  /\ SetCall(r, [op |-> op, reader |-> r, buf |-> [i \in 1..n |-> Junk], size |-> 0,
                 extent |-> 0, seeked |-> FALSE, from |-> pos[r]])
  /\ UNCHANGED <<layout, cursor_vars, image_pos, result>>

Reading(r) == Calling(r) /\ Call(r).op \in {"readinto", "readinto1"}
ReadingAll(r) == Calling(r) /\ Call(r).op = "readall"

\* readinto1 when it ran out of extents: 0, which ends the loop of readinto.
OutOfExtents(r) ==
  /\ Reading(r) /\ ~Call(r).seeked
  /\ Closed(r)
  /\ Return(r, SubSeq(Call(r).buf, 1, Bound(Call(r).size, Len(Call(r).buf))))
  /\ UNCHANGED <<layout, cursor_vars, image_pos>>

\* self._file.seek(...)
SeekTo(r, offset) ==
  /\ image_pos' = [image_pos EXCEPT ![ProcessOf[r]] = offset]
  /\ SetCall(r, [Call(r) EXCEPT !.seeked = TRUE])
  /\ UNCHANGED <<layout, cursor_vars, result>>

SlipSeekImage(r) ==
  /\ Reading(r) /\ ~Call(r).seeked /\ ~Closed(r)
  /\ SeekTo(r, IF extent_read[r] = 0 THEN Current(r).offset ELSE image_pos[ProcessOf[r]])

SeekImage(r) ==
  /\ Reading(r) /\ ~Call(r).seeked /\ ~Closed(r)
  /\ SeekTo(r, Current(r).offset + extent_read[r])

\* self._file.readinto(...) and the bookkeeping of readinto1, then the test
\* of the loop in readinto.
ReadImage(r) ==
  /\ Reading(r) /\ Call(r).seeked
  /\ LET c == Call(r)
         p == ProcessOf[r]
         dest == Bound(c.size, Len(c.buf))
         room == Len(c.buf) - dest
         read == Available(p, Bound(Min2(room, Current(r).size - extent_read[r]), room))
         filled == Put(c.buf, dest, image_pos[p], read)
         finished == extent_read[r] + read >= Current(r).size
         diff == Max2(pos[r] + read - Size(r), 0)
         skipped == Skips(finished, diff > 0)
         size == c.size + read - diff
     IN
     /\ UNCHANGED layout
     /\ extent_pos' = [extent_pos EXCEPT ![r] = @ + skipped]
     /\ extent_read' = [extent_read EXCEPT ![r] = IF skipped > 0 THEN 0 ELSE @ + read]
     /\ pos' = [pos EXCEPT ![r] = @ + read - diff]
     /\ image_pos' = [image_pos EXCEPT ![p] = @ + read]
     /\ IF c.op = "readinto" /\ size < Len(c.buf) /\ ~Closed(r)'
          THEN /\ SetCall(r, [c EXCEPT !.buf = filled, !.size = size, !.seeked = FALSE])
               /\ result' = result
          ELSE Return(r, SubSeq(filled, 1, Bound(size, Len(filled))))

\* readall: the loop over the extents, which leaves the cursor alone.
SeekExtent(r) ==
  /\ ReadingAll(r) /\ ~Call(r).seeked /\ Call(r).extent < Len(Extents(r))
  /\ SeekTo(r, Extents(r)[Call(r).extent + 1].offset)

FillExtent(r) ==
  /\ ReadingAll(r) /\ Call(r).seeked
  /\ LET c == Call(r)
         p == ProcessOf[r]
         extent == Extents(r)[c.extent + 1]
         read == Available(p, Min2(End(extent), Len(c.buf)) - extent.file_offset)
     IN
     /\ SetCall(r, [c EXCEPT !.buf = Put(c.buf, extent.file_offset, image_pos[p], read),
                             !.extent = @ + 1, !.seeked = FALSE])
     /\ image_pos' = [image_pos EXCEPT ![p] = @ + read]
     /\ UNCHANGED <<layout, cursor_vars, result>>

ReturnAll(r) ==
  /\ ReadingAll(r) /\ ~Call(r).seeked /\ Call(r).extent = Len(Extents(r))
  /\ Return(r, Call(r).buf)
  /\ UNCHANGED <<layout, cursor_vars, image_pos>>

\* seek: reset, then look for the extent that holds the offset.  Neither
\* clears extent_read (reset assigns _extend_read), so it stays when there is
\* no such extent.
Seek(r, offset) ==
  /\ Free(r)
  /\ \/ \E i \in 1..Len(Extents(r)) :
          /\ Holds(Extents(r)[i], offset)
          /\ extent_pos' = [extent_pos EXCEPT ![r] = i - 1]
          /\ extent_read' = [extent_read EXCEPT ![r] = Into(Extents(r)[i], offset)]
          /\ pos' = [pos EXCEPT ![r] = offset]
     \/ /\ \A i \in 1..Len(Extents(r)) : ~Holds(Extents(r)[i], offset)
        /\ extent_pos' = [extent_pos EXCEPT ![r] = 0]
        /\ pos' = [pos EXCEPT ![r] = 0]
        /\ UNCHANGED extent_read
  /\ UNCHANGED <<layout, image_pos, call, result>>

Reset(r) ==
  /\ Free(r)
  /\ extent_pos' = [extent_pos EXCEPT ![r] = 0]
  /\ pos' = [pos EXCEPT ![r] = 0]
  /\ UNCHANGED <<layout, extent_read, image_pos, call, result>>

Step(r) == \/ OutOfExtents(r) \/ SeekImage(r) \/ ReadImage(r)
           \/ SeekExtent(r) \/ FillExtent(r) \/ ReturnAll(r)

Next == \E r \in Reader :
  \/ \E n \in Lengths : StartCall(r, "readinto", n) \/ StartCall(r, "readinto1", n)
  \/ StartCall(r, "readall", Size(r))
  \/ Step(r)
  \/ \E offset \in Offsets : /\ Documented => 0 <= offset /\ offset < Size(r)
                             /\ Seek(r, offset)
  \/ (Documented => Closed(r)) /\ Reset(r)

Spec == Init /\ [][Next]_vars

\* A call, once made, runs; nobody has to make one.
FairSpec == Spec /\ \A r \in Reader : WF_vars(Step(r))

-----------------------------------------------------------------------------
(* Properties *)

CallType ==
  {Idle} \cup [op: {"readinto", "readinto1", "readall"}, reader: Reader,
               buf: Seq(Nat \cup {Junk}), size: Nat, extent: Nat,
               seeked: BOOLEAN, from: Nat]

TypeOK ==
  /\ layout \in [Reader -> Layouts]
  /\ extent_pos \in [Reader -> Nat] /\ extent_read \in [Reader -> Nat]
  /\ pos \in [Reader -> Nat]
  /\ image_pos \in [Process -> Nat]
  /\ call \in [Process -> CallType]
  /\ result \in [Reader -> Seq(Nat \cup {Junk})]

\* The offset of the file that the next read of the image is for.
NextByte(r) == Current(r).file_offset + extent_read[r]

\* The three variables of the cursor tell the same story, between any two
\* reads of the image: an open file is where its position says, inside the
\* current extent, and a closed one is at its end with nothing half read.
CursorAgrees ==
  \A r \in Reader :
    IF Closed(r) THEN pos[r] = Size(r) /\ extent_read[r] = 0
                 ELSE /\ pos[r] = NextByte(r) /\ pos[r] <= Size(r)
                      /\ extent_read[r] \in 0..(Current(r).size - 1)

\* The bytes of the file, by their place in the image.
ExtentOf(l, o) == CHOOSE i \in 1..Len(l.extents) : Holds(l.extents[i], o)
ByteAt(l, o) == l.extents[ExtentOf(l, o)].offset + (o - l.extents[ExtentOf(l, o)].file_offset)
Content(l) == [i \in 1..l.size |-> ByteAt(l, i - 1)]
Whole(l) == \A i \in 1..Len(l.extents) : l.extents[i].offset + l.extents[i].size <= ImageSize

\* Whatever the files of a process do to the position of the image between
\* two calls, each of them is a stream of the bytes of its file.
Streams == INSTANCE ByteStream WITH
  content <- [r \in Reader |-> Content(layout[r])],
  readable <- [r \in Reader |-> Whole(layout[r])],
  cursor <- [r \in Reader |-> IF Calling(r) THEN Call(r).from ELSE pos[r]]
ImplementsStreams == Streams!Spec

\* A call returns when the image holds the file; the loop of readinto spins
\* for ever on an extent that lies beyond the end of a truncated image.
ReadReturns == \A r \in Reader : Calling(r) /\ Whole(layout[r]) ~> ~Calling(r)
=============================================================================
