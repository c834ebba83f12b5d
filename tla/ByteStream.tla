----------------------------- MODULE ByteStream -----------------------------
(***************************************************************************)
(* What the open files of an image promise their readers: each delivers    *)
(* the bytes of its file, whole, in order, from where its own cursor is.   *)
(***************************************************************************)
EXTENDS Integers, Sequences

CONSTANTS
  Reader,     \* open files
  Lengths     \* lengths of the buffers read into

VARIABLES
  content,     \* the bytes of each file
  readable,    \* all of them are in the image
  cursor,      \* offset of the next byte to read
  result       \* what the last read returned

vars == <<content, readable, cursor, result>>

Least(a, b) == IF a < b THEN a ELSE b
Left(r) == Len(content[r]) - cursor[r]

Init == /\ content \in [Reader -> Seq(Nat)]
        /\ readable \in [Reader -> BOOLEAN]
        /\ cursor = [r \in Reader |-> 0]
        /\ result = [r \in Reader |-> <<>>]

\* The next k bytes.
Deliver(r, k) ==
  /\ result' = [result EXCEPT ![r] = SubSeq(content[r], cursor[r] + 1, cursor[r] + k)]
  /\ cursor' = [cursor EXCEPT ![r] = @ + k]
  /\ UNCHANGED <<content, readable>>

\* read(n) and readinto: all that is asked for, up to the end of the file.
Read(r, n) == Deliver(r, Least(n, Left(r)))

\* read1(n): it may stop early, but not at nothing.
Read1(r, n) ==
  \E k \in 0..Least(n, Left(r)) :
    /\ k = 0 /\ readable[r] => n = 0 \/ Left(r) = 0
    /\ Deliver(r, k)

\* read(-1): the whole file, wherever the cursor is, which stays there.
ReadAll(r) ==
  /\ Len(result'[r]) = Len(content[r])
  /\ readable[r] => result'[r] = content[r]
  /\ result' = [result EXCEPT ![r] = result'[r]]
  /\ UNCHANGED <<content, readable, cursor>>

Seek(r) ==
  /\ \E offset \in 0..(Len(content[r]) - 1) : cursor' = [cursor EXCEPT ![r] = offset]
  /\ UNCHANGED <<content, readable, result>>

Next == \E r \in Reader :
  \/ \E n \in Lengths : Read(r, n) \/ Read1(r, n)
  \/ ReadAll(r)
  \/ Seek(r)

Spec == Init /\ [][Next]_vars
=============================================================================
