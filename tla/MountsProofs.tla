----------------------------- MODULE MountsProofs -----------------------------
(***************************************************************************)
(* Proofs about who holds an image open, for any number of processes,      *)
(* objects and opens.  The invariant adds to the properties that the C     *)
(* file of a mount is never the file of bytes of another object (what      *)
(* closes one must not close the other), that a mount in use has a C file, *)
(* and that what a listing waits for is a mount of its own process.        *)
(***************************************************************************)
EXTENDS Mounts, SequenceTheorems, TLAPS

HandleRec == [proc: Process, open: BOOLEAN]
HasBytes(o) == Holder(o) \/ IsA(o, "file")
HasFs(o) == IsA(o, "mount") /\ object[o].fs # None

FsApart ==
  \A m, o \in Object : HasFs(m) /\ HasBytes(o) => object[m].fs # object[o].file

MountedHasFs ==
  \A m \in Object : IsA(m, "mount") /\ ~object[m].unmounted => object[m].fs # None

ListingsFromMounts ==
  \A l, m \in Object : IsA(l, "listing") /\ object[l].from = m =>
    IsA(m, "mount") /\ object[m].proc = object[l].proc

MountInv ==
  /\ TypeOK /\ FilesFollowOwners /\ CopiesIndependent /\ LeaksAreIterated
  /\ FsApart /\ MountedHasFs /\ ListingsFromMounts

-----------------------------------------------------------------------------
(* Handles *)

\* open() n times: n more handles, open, of process p.
LEMMA OpeningFacts ==
  ASSUME handles \in Seq(HandleRec), NEW n \in Nat, NEW p \in Process
  PROVE  /\ Opening(n, p) \in Seq(HandleRec)
         /\ Len(handles) \in Nat
         /\ Len(Opening(n, p)) = Len(handles) + n
         /\ \A h \in Handle : Opening(n, p)[h] = handles[h]
         /\ \A i \in 1..n : Opening(n, p)[NewHandle(i)] = [proc |-> p, open |-> TRUE]
<1> DEFINE rec == [proc |-> p, open |-> TRUE]
           new == [i \in 1..n |-> rec]
<1>1. rec \in HandleRec
  BY DEF HandleRec
<1> HIDE DEF rec
<1>2. new \in [1..n -> HandleRec] /\ \A i \in 1..n : new[i] = rec
  BY <1>1
<1>3. new \in Seq(HandleRec) /\ Len(new) = n
  BY <1>2
<1>4. Opening(n, p) = handles \o new
  BY DEF Opening, new, rec
<1> HIDE DEF new
<1>5. Len(handles) \in Nat
  BY LenProperties
<1>6. /\ handles \o new \in Seq(HandleRec)
      /\ Len(handles \o new) = Len(handles) + n
      /\ \A i \in 1..(Len(handles) + n) :
           (handles \o new)[i] = IF i <= Len(handles) THEN handles[i] ELSE new[i - Len(handles)]
  BY <1>3, ConcatProperties
<1>7. ASSUME NEW i \in 1..n
      PROVE  Opening(n, p)[NewHandle(i)] = rec
  <2>1. /\ NewHandle(i) \in 1..(Len(handles) + n)
        /\ ~(NewHandle(i) <= Len(handles))
        /\ NewHandle(i) - Len(handles) = i
    BY <1>5 DEF NewHandle
  <2>2. (handles \o new)[NewHandle(i)] = new[i]
    BY <1>6, <2>1
  <2> QED
    BY <1>2, <1>4, <2>2
<1>8. \A h \in Handle : Opening(n, p)[h] = handles[h]
  BY <1>4, <1>5, <1>6 DEF Handle
<1> QED
  BY <1>4, <1>5, <1>6, <1>7, <1>8 DEF rec

\* close(): the handles stay, those that are closed no longer open.
LEMMA ClosingFacts ==
  ASSUME NEW hs \in Seq(HandleRec), NEW closed
  PROVE  /\ Closing(closed, hs) \in Seq(HandleRec)
         /\ Len(Closing(closed, hs)) = Len(hs) /\ Len(hs) \in Nat
         /\ \A h \in 1..Len(hs) :
              /\ Closing(closed, hs)[h].proc = hs[h].proc
              /\ Closing(closed, hs)[h].open <=> hs[h].open /\ h \notin closed
              /\ h \notin closed => Closing(closed, hs)[h] = hs[h]
<1> DEFINE now(h) == IF h \in closed THEN [hs[h] EXCEPT !.open = FALSE] ELSE hs[h]
           n == Len(hs)
<1>1. n \in Nat /\ \A h \in 1..n : hs[h] \in HandleRec
  BY LenProperties, ElementOfSeq
<1>2. \A h \in 1..n : /\ now(h) \in HandleRec
                      /\ now(h).proc = hs[h].proc
                      /\ now(h).open <=> hs[h].open /\ h \notin closed
                      /\ h \notin closed => now(h) = hs[h]
  BY <1>1 DEF HandleRec
<1> HIDE DEF now
<1>3. Closing(closed, hs) = [h \in 1..n |-> now(h)]
  BY DEF Closing, now
<1> HIDE DEF n
<1>4. [h \in 1..n |-> now(h)] \in [1..n -> HandleRec]
  BY <1>2
<1>5. [h \in 1..n |-> now(h)] \in Seq(HandleRec) /\ Len([h \in 1..n |-> now(h)]) = n
  BY <1>1, <1>4
<1> QED
  BY <1>1, <1>2, <1>3, <1>5 DEF n

-----------------------------------------------------------------------------
(* Objects *)

\* What each kind of object refers to.
LEMMA Kinds ==
  ASSUME TypeOK, NEW o \in Object
  PROVE  /\ Len(handles) \in Nat /\ handles \in Seq(HandleRec)
         /\ object[o] # None =>
              object[o] \in MountsOn(Handle) \cup CursorsOn(Handle) \cup FilesOn(Handle)
                              \cup ListingsOn(Handle)
         /\ IsA(o, "mount") => object[o] \in MountsOn(Handle)
         /\ IsA(o, "cursor") => object[o] \in CursorsOn(Handle)
         /\ IsA(o, "file") => object[o] \in FilesOn(Handle)
         /\ IsA(o, "listing") => object[o] \in ListingsOn(Handle)
         /\ object[o] # None => \/ IsA(o, "mount") \/ IsA(o, "cursor")
                                \/ IsA(o, "file") \/ IsA(o, "listing")
         /\ HasBytes(o) => object[o].file \in Handle
         /\ HasFs(o) => object[o].fs \in Handle
<1>1. handles \in Seq(HandleRec) /\ Len(handles) \in Nat
  BY LenProperties DEF TypeOK, HandleRec
<1>2. object[o] # None =>
        object[o] \in MountsOn(Handle) \cup CursorsOn(Handle) \cup FilesOn(Handle)
                        \cup ListingsOn(Handle)
  BY DEF TypeOK, Objects
<1>3. /\ \A x \in MountsOn(Handle) :
           x.kind = "mount" /\ x.file \in Handle /\ x.fs \in Handle \cup {None}
      /\ \A x \in CursorsOn(Handle) : x.kind = "cursor" /\ x.file \in Handle
      /\ \A x \in FilesOn(Handle) : x.kind = "file" /\ x.file \in Handle
      /\ \A x \in ListingsOn(Handle) : x.kind = "listing"
  BY DEF MountsOn, CursorsOn, FilesOn, ListingsOn
<1>4. /\ IsA(o, "mount") => object[o] \in MountsOn(Handle)
      /\ IsA(o, "cursor") => object[o] \in CursorsOn(Handle)
      /\ IsA(o, "file") => object[o] \in FilesOn(Handle)
      /\ IsA(o, "listing") => object[o] \in ListingsOn(Handle)
      /\ object[o] # None => \/ IsA(o, "mount") \/ IsA(o, "cursor")
                             \/ IsA(o, "file") \/ IsA(o, "listing")
  BY <1>2, <1>3 DEF IsA
<1> QED
  BY <1>1, <1>2, <1>3, <1>4 DEF HasBytes, HasFs, Holder

\* More handles, more objects; none of them is None.
LEMMA ObjectsGrow ==
  ASSUME NEW A, NEW B, A \subseteq B, B \subseteq Nat
  PROVE  Objects(A) \subseteq Objects(B) /\ None \notin Objects(B)
<1>1. ASSUME NEW C, NEW D, C \subseteq D PROVE Objects(C) \subseteq Objects(D)
  BY <1>1 DEF Objects, MountsOn, CursorsOn, FilesOn, ListingsOn
<1> QED
  BY <1>1, NoneAssumption

\* The step puts a mount or a cursor x on handles new to it under a name that is
\* free or stood for a closed cursor, and leaves no new handle open to nobody.
Places(o, x, new) ==
  /\ new = {h \in 1..Len(handles') : h > Len(handles)}
  /\ object[o] = None \/ (IsA(o, "cursor") /\ ~Open(object[o].file))
  /\ x \in MountsOn(new) \cup CursorsOn(new)
  /\ object' = [object EXCEPT ![o] = x]
  /\ handles' \in Seq(HandleRec) /\ Len(handles') >= Len(handles)
  /\ \A h \in Handle : handles'[h] = handles[h]
  /\ handles'[x.file].proc = x.proc
  /\ x.kind = "mount" /\ x.fs # None => x.fs # x.file /\ handles'[x.fs].proc = x.proc
  /\ x.kind = "mount" /\ ~x.unmounted => x.fs # None
  /\ \A h \in new : handles'[h].open =>
       h = x.file \/ (x.kind = "mount" /\ h = x.fs) \/ h \in pinned'
  /\ pinned \subseteq pinned' /\ pinned' \subseteq 1..Len(handles')
  /\ mail' = mail /\ crashed' = crashed

\* The others see no difference.
LEMMA Placed ==
  ASSUME MountInv, NEW o \in Object, NEW x, NEW New, Places(o, x, New)
  PROVE  MountInv'
<1>0. /\ New = {h \in 1..Len(handles') : h > Len(handles)}
      /\ object[o] = None \/ (IsA(o, "cursor") /\ ~Open(object[o].file))
      /\ x \in MountsOn(New) \cup CursorsOn(New)
      /\ object' = [object EXCEPT ![o] = x]
      /\ handles' \in Seq(HandleRec) /\ Len(handles') >= Len(handles)
      /\ \A h \in Handle : handles'[h] = handles[h]
      /\ handles'[x.file].proc = x.proc
      /\ x.kind = "mount" /\ x.fs # None => x.fs # x.file /\ handles'[x.fs].proc = x.proc
      /\ x.kind = "mount" /\ ~x.unmounted => x.fs # None
      /\ \A h \in New : handles'[h].open =>
           h = x.file \/ (x.kind = "mount" /\ h = x.fs) \/ h \in pinned'
      /\ pinned \subseteq pinned' /\ pinned' \subseteq 1..Len(handles')
      /\ mail' = mail /\ crashed' = crashed
  BY DEF Places
<1>1. /\ TypeOK /\ FilesFollowOwners /\ CopiesIndependent /\ LeaksAreIterated
      /\ FsApart /\ MountedHasFs /\ ListingsFromMounts
  BY DEF MountInv
<1>2. Len(handles) \in Nat /\ Len(handles') \in Nat
  BY <1>1, Kinds, LenProperties
<1>3. /\ Handle' = Handle \cup New /\ Handle \cap New = {}
      /\ Handle \subseteq Handle' /\ New \subseteq Handle' /\ Handle' \subseteq Nat
  BY <1>0, <1>2 DEF Handle
<1>4. x \in Objects(Handle') /\ x # None
  <2>1. x \in Objects(New)
    BY <1>0 DEF Objects
  <2> QED
    BY <1>3, <2>1, ObjectsGrow
<1>5. /\ x.kind \in {"mount", "cursor"} /\ x.file \in New
      /\ x.kind = "mount" => x.fs \in New \cup {None}
  BY <1>0 DEF MountsOn, CursorsOn
<1>6. /\ object \in [Object -> Objects(Handle) \cup {None}]
      /\ object'[o] = x /\ \A q \in Object \ {o} : object'[q] = object[q]
  BY <1>0, <1>1 DEF TypeOK
<1>7. /\ \A q \in Object \ {o} : /\ \A kind : IsA(q, kind)' <=> IsA(q, kind)
                                 /\ Holder(q)' <=> Holder(q)
                                 /\ HasBytes(q)' <=> HasBytes(q)
                                 /\ HasFs(q)' <=> HasFs(q)
      /\ ~IsA(o, "file")' /\ ~IsA(o, "listing")' /\ Holder(o)' /\ HasBytes(o)'
      /\ HasFs(o)' <=> x.kind = "mount" /\ x.fs # None
      /\ IsA(o, "mount")' <=> x.kind = "mount"
  BY <1>4, <1>5, <1>6 DEF IsA, Holder, HasBytes, HasFs
<1>8. \A q \in Object : /\ HasBytes(q) => object[q].file \in Handle
                        /\ HasFs(q) => object[q].fs \in Handle
  BY <1>1, Kinds
<1>9. TypeOK'
  <2>1. object' \in [Object -> Objects(Handle') \cup {None}]
    <3>1. Objects(Handle) \subseteq Objects(Handle')
      BY <1>3, ObjectsGrow
    <3> QED
      BY <1>0, <1>4, <1>6, <3>1
  <2>2. ASSUME NEW q \in Object
        PROVE  /\ (Holder(q) \/ IsA(q, "file"))' =>
                    (handles[object[q].file].proc = object[q].proc)'
               /\ ((IsA(q, "mount") \/ IsA(q, "listing")) /\ object[q].fs # None)' =>
                    (handles[object[q].fs].proc = object[q].proc)'
    <3>1. CASE q = o
      BY <1>0, <1>6, <1>7, <3>1
    <3>2. CASE q # o
      <4>1. /\ Holder(q) \/ IsA(q, "file") => handles[object[q].file].proc = object[q].proc
            /\ (IsA(q, "mount") \/ IsA(q, "listing")) /\ object[q].fs # None
                 => handles[object[q].fs].proc = object[q].proc
        BY <1>1 DEF TypeOK
      <4>2. IsA(q, "listing") /\ object[q].fs # None => object[q].fs \in Handle
        BY <1>1, Kinds DEF ListingsOn
      <4> QED
        BY <1>0, <1>6, <1>7, <1>8, <3>2, <4>1, <4>2 DEF HasBytes, HasFs
    <3> QED
      BY <3>1, <3>2
  <2>3. /\ pinned' \subseteq Handle' /\ crashed' \subseteq Process
        /\ mail' \subseteq [kind: {"mount", "cursor"}, unmounted: BOOLEAN]
    BY <1>0, <1>1 DEF TypeOK, Handle
  <2> QED
    BY <1>0, <2>1, <2>2, <2>3 DEF TypeOK, HandleRec
<1>10. FilesFollowOwners'
  BY <1>0, <1>1, <1>6, <1>7, <1>8 DEF FilesFollowOwners, Open, HasBytes
<1>11. CopiesIndependent'
  <2> SUFFICES ASSUME NEW a \in Object, NEW b \in Object, Holder(a)', Holder(b)', a # b
               PROVE  /\ object'[a].file # object'[b].file
                      /\ IsA(a, "mount")' /\ IsA(b, "mount")' /\ object'[a].fs # None =>
                           object'[a].fs # object'[b].fs
    BY DEF CopiesIndependent
  <2>1. \A q \in Object \ {o} : IsA(q, "mount") => object[q].fs \in Handle \cup {None}
    BY <1>8 DEF HasFs
  <2>2. CASE a # o /\ b # o
    BY <1>1, <1>6, <1>7, <2>2 DEF CopiesIndependent
  <2>3. CASE a = o
    BY <1>3, <1>5, <1>6, <1>7, <1>8, <2>1, <2>3 DEF HasBytes
  <2>4. CASE b = o
    BY <1>3, <1>5, <1>6, <1>7, <1>8, <2>1, <2>4 DEF HasBytes
  <2> QED
    BY <2>2, <2>3, <2>4
<1>12. FsApart'
  <2> SUFFICES ASSUME NEW m \in Object, NEW q \in Object, HasFs(m)', HasBytes(q)'
               PROVE  object'[m].fs # object'[q].file
    BY DEF FsApart
  <2>1. CASE m # o /\ q # o
    BY <1>1, <1>6, <1>7, <2>1 DEF FsApart
  <2>2. CASE m = o
    BY <1>0, <1>3, <1>5, <1>6, <1>7, <1>8, <2>2
  <2>3. CASE m # o /\ q = o
    BY <1>3, <1>5, <1>6, <1>7, <1>8, <2>3
  <2> QED
    BY <2>1, <2>2, <2>3
<1>13. LeaksAreIterated'
  <2> SUFFICES ASSUME NEW h \in Handle', handles'[h].open
               PROVE  \/ \E q \in Object : HasBytes(q)' /\ object'[q].file = h
                      \/ h \in pinned'
                      \/ \E m \in Object : IsA(m, "mount")' /\ object'[m].fs = h
    BY DEF LeaksAreIterated, Open, Users, HasBytes
  <2>1. CASE h \in New
    BY <1>0, <1>6, <1>7, <2>1
  <2>2. CASE h \in Handle
    <3>1. Open(h)
      BY <1>0, <2>2 DEF Open
    <3>2. \/ \E q \in Object : HasBytes(q) /\ object[q].file = h
          \/ h \in pinned
          \/ \E m \in Object : IsA(m, "mount") /\ object[m].fs = h
      BY <1>1, <2>2, <3>1 DEF LeaksAreIterated, Users, HasBytes
    <3>3. /\ \A q \in Object : HasBytes(q) /\ object[q].file = h => q # o
          /\ \A m \in Object : IsA(m, "mount") => m # o
      BY <1>0, <3>1 DEF HasBytes, Holder, IsA
    <3> QED
      BY <1>0, <1>6, <1>7, <3>2, <3>3
  <2> QED
    BY <1>3, <2>1, <2>2
<1>14. MountedHasFs'
  BY <1>0, <1>1, <1>6, <1>7 DEF MountedHasFs
<1>15. ListingsFromMounts'
  <2> SUFFICES ASSUME NEW l \in Object, NEW m \in Object, IsA(l, "listing")', object'[l].from = m
               PROVE  IsA(m, "mount")' /\ object'[m].proc = object'[l].proc
    BY DEF ListingsFromMounts
  <2>1. l # o /\ IsA(l, "listing") /\ object'[l] = object[l]
    BY <1>6, <1>7
  <2>2. IsA(m, "mount") /\ object[m].proc = object[l].proc
    BY <1>1, <2>1 DEF ListingsFromMounts
  <2>3. m # o
    BY <1>0, <2>2 DEF IsA
  <2> QED
    BY <1>6, <1>7, <2>1, <2>2, <2>3
<1> QED
  BY <1>9, <1>10, <1>11, <1>12, <1>13, <1>14, <1>15 DEF MountInv

-----------------------------------------------------------------------------
(* Actions that open the image *)

\* The handles that n opens add, as Placed speaks of them.
LEMMA NewHandles ==
  ASSUME TypeOK, NEW n \in Nat, NEW p \in Process, handles' = Opening(n, p)
  PROVE  /\ handles' \in Seq(HandleRec) /\ Len(handles') >= Len(handles)
         /\ \A h \in Handle : handles'[h] = handles[h]
         /\ {h \in 1..Len(handles') : h > Len(handles)} = {NewHandle(i) : i \in 1..n}
         /\ \A i \in 1..n : handles'[NewHandle(i)] = [proc |-> p, open |-> TRUE]
         /\ Handle \subseteq 1..Len(handles')
<1>1. handles \in Seq(HandleRec)
  BY DEF TypeOK, HandleRec
<1>2. /\ Len(handles) \in Nat /\ Len(handles') = Len(handles) + n
      /\ handles' \in Seq(HandleRec)
      /\ \A h \in Handle : handles'[h] = handles[h]
      /\ \A i \in 1..n : handles'[NewHandle(i)] = [proc |-> p, open |-> TRUE]
  BY <1>1, OpeningFacts
<1>3. ASSUME NEW h
      PROVE  h \in 1..Len(handles') /\ h > Len(handles) <=> \E i \in 1..n : h = NewHandle(i)
  <2>1. ASSUME h \in 1..Len(handles'), h > Len(handles)
        PROVE  \E i \in 1..n : h = NewHandle(i)
    <3>1. h - Len(handles) \in 1..n /\ h = NewHandle(h - Len(handles))
      BY <1>2, <2>1 DEF NewHandle
    <3> QED
      BY <3>1
  <2>2. ASSUME NEW i \in 1..n, h = NewHandle(i)
        PROVE  h \in 1..Len(handles') /\ h > Len(handles)
    BY <1>2, <2>2 DEF NewHandle
  <2> QED
    BY <2>1, <2>2
<1>4. {h \in 1..Len(handles') : h > Len(handles)} = {NewHandle(i) : i \in 1..n}
  BY <1>3
<1>5. Handle \subseteq 1..Len(handles') /\ Len(handles') >= Len(handles)
  BY <1>2 DEF Handle
<1> QED
  BY <1>2, <1>4, <1>5

\* What an iterator keeps is still a handle when more are opened.
LEMMA PinnedHandles ==
  ASSUME TypeOK
  PROVE  pinned \subseteq Handle
BY DEF TypeOK

\* Bcachefs.__init__ opens the image twice.
LEMMA MountKeeps ==
  ASSUME MountInv, NEW p \in Process, NEW o \in Object, Mount(p, o)
  PROVE  MountInv'
<1> DEFINE x == MountOf(p, NewHandle(1), NewHandle(2))
           New == {h \in 1..Len(handles') : h > Len(handles)}
<1>1. TypeOK
  BY DEF MountInv
<1>2. /\ object[o] = None /\ handles' = Opening(2, p) /\ object' = [object EXCEPT ![o] = x]
      /\ UNCHANGED <<pinned, mail, crashed>>
  BY DEF Mount
<1>3. /\ handles' \in Seq(HandleRec) /\ Len(handles') >= Len(handles)
      /\ \A h \in Handle : handles'[h] = handles[h]
      /\ New = {NewHandle(i) : i \in 1..2}
      /\ \A i \in 1..2 : handles'[NewHandle(i)] = [proc |-> p, open |-> TRUE]
      /\ Handle \subseteq 1..Len(handles')
  BY <1>1, <1>2, NewHandles
<1>4. New = {NewHandle(1), NewHandle(2)} /\ NewHandle(1) # NewHandle(2) /\ NewHandle(1) # None
  <2>1. 1..2 = {1, 2}
    OBVIOUS
  <2>2. Len(handles) \in Nat
    BY <1>1, Kinds, LenProperties DEF TypeOK
  <2>3. NewHandle(1) \in Nat /\ NewHandle(1) # NewHandle(2)
    BY <2>2 DEF NewHandle
  <2> QED
    BY <1>3, <2>1, <2>3, NoneAssumption
<1>5. /\ handles'[NewHandle(1)].proc = p /\ handles'[NewHandle(2)].proc = p
  BY <1>3
<1>6. /\ x \in MountsOn(New) /\ x.kind = "mount" /\ x.fs = NewHandle(1)
      /\ x.file = NewHandle(2) /\ x.proc = p
  BY <1>4 DEF MountOf, MountsOn
<1>7. pinned' \subseteq 1..Len(handles') /\ pinned \subseteq pinned'
  BY <1>1, <1>2, <1>3, PinnedHandles
<1> HIDE DEF x, New
<1>8. New = {h \in 1..Len(handles') : h > Len(handles)}
  BY DEF New
<1>9. Places(o, x, New)
  BY <1>2, <1>3, <1>4, <1>5, <1>6, <1>7, <1>8 DEF Places
<1> QED
  BY <1>9, Placed

\* A cursor on one new handle.
LEMMA CursorPlaced ==
  ASSUME MountInv, NEW p \in Process, NEW o \in Object,
         object[o] = None \/ (IsA(o, "cursor") /\ ~Open(object[o].file)),
         handles' = Opening(1, p),
         object' = [object EXCEPT ![o] = CursorOf(p, NewHandle(1))],
         pinned \subseteq pinned', pinned' \subseteq Handle,
         mail' = mail, crashed' = crashed
  PROVE  MountInv'
<1> DEFINE x == CursorOf(p, NewHandle(1))
           New == {h \in 1..Len(handles') : h > Len(handles)}
<1>1. TypeOK
  BY DEF MountInv
<1>2. /\ handles' \in Seq(HandleRec) /\ Len(handles') >= Len(handles)
      /\ \A h \in Handle : handles'[h] = handles[h]
      /\ New = {NewHandle(i) : i \in 1..1}
      /\ \A i \in 1..1 : handles'[NewHandle(i)] = [proc |-> p, open |-> TRUE]
      /\ Handle \subseteq 1..Len(handles')
  BY <1>1, NewHandles
<1>3. New = {NewHandle(1)} /\ handles'[NewHandle(1)].proc = p
  BY <1>2
<1>4. x \in CursorsOn(New) /\ x.kind = "cursor" /\ x.file = NewHandle(1) /\ x.proc = p
  BY <1>3 DEF CursorOf, CursorsOn
<1>5. pinned' \subseteq 1..Len(handles')
  BY <1>2
<1>6. object' = [object EXCEPT ![o] = x]
  OBVIOUS
<1> HIDE DEF x, New
<1>7. New = {h \in 1..Len(handles') : h > Len(handles)}
  BY DEF New
<1>8. Places(o, x, New)
  BY <1>2, <1>3, <1>4, <1>5, <1>6, <1>7 DEF Places
<1> QED
  BY <1>8, Placed

\* A cursor over a mount opens the image for itself and pins the C file of the mount.
LEMMA CursorFromMountKeeps ==
  ASSUME MountInv, NEW m \in Object, NEW o \in Object, CursorFromMount(m, o)
  PROVE  MountInv'
<1>1. TypeOK /\ MountedHasFs
  BY DEF MountInv
<1>2. IsA(m, "mount") /\ object[m] \in MountsOn(Handle)
  BY <1>1, Kinds DEF CursorFromMount
<1>3. object[m].proc \in Process /\ object[m].fs \in Handle \cup {None}
  BY <1>2 DEF MountsOn
<1>4. pinned \subseteq pinned' /\ pinned' \subseteq Handle
  BY <1>1, <1>2, <1>3, PinnedHandles DEF CursorFromMount, MountedHasFs
<1> QED
  BY <1>3, <1>4, CursorPlaced DEF CursorFromMount

\* cd inside the cache opens the image again.
LEMMA CursorFromCursorKeeps ==
  ASSUME MountInv, NEW c \in Object, NEW o \in Object, CursorFromCursor(c, o)
  PROVE  MountInv'
<1>1. TypeOK
  BY DEF MountInv
<1>2. object[c] \in CursorsOn(Handle)
  BY <1>1, Kinds DEF CursorFromCursor
<1>3. object[c].proc \in Process
  BY <1>2 DEF CursorsOn
<1>4. pinned \subseteq pinned' /\ pinned' \subseteq Handle
  BY <1>1, PinnedHandles DEF CursorFromCursor
<1> QED
  BY <1>3, <1>4, CursorPlaced DEF CursorFromCursor

\* Entering a closed cursor is like making another one in its place.
LEMMA CursorEnterKeeps ==
  ASSUME MountInv, NEW c \in Object, CursorEnter(c)
  PROVE  MountInv'
<1>1. TypeOK
  BY DEF MountInv
<1>2. IsA(c, "cursor") /\ object[c] \in CursorsOn(Handle)
  BY <1>1, Kinds DEF CursorEnter
<1>3. object[c].proc \in Process
  BY <1>2 DEF CursorsOn
<1>4. \A n : [object[c] EXCEPT !.file = n] = CursorOf(object[c].proc, n)
  BY <1>2 DEF CursorsOn, CursorOf
<1>5. object' = [object EXCEPT ![c] = CursorOf(object[c].proc, NewHandle(1))]
  BY <1>1, <1>4 DEF CursorEnter, TypeOK
<1>6. pinned \subseteq pinned' /\ pinned' \subseteq Handle
  BY <1>1, PinnedHandles DEF CursorEnter
<1> QED
  BY <1>2, <1>3, <1>5, <1>6, CursorPlaced DEF CursorEnter

\* A copy of a cursor opens the image for itself.
LEMMA UnpickleCursorKeeps ==
  ASSUME MountInv, NEW p \in Process, NEW o \in Object, UnpickleCursor(p, o)
  PROVE  MountInv'
<1>1. pinned \subseteq pinned' /\ pinned' \subseteq Handle
  BY PinnedHandles DEF UnpickleCursor, MountInv
<1> QED
  BY <1>1, CursorPlaced DEF UnpickleCursor

\* NewHandles, when some of the new handles are closed again at once.
LEMMA NewClosedHandles ==
  ASSUME TypeOK, NEW n \in Nat, NEW p \in Process, NEW k \in 1..n,
         NEW closed, closed = {NewHandle(k)}, handles' = Closing(closed, Opening(n, p))
  PROVE  /\ handles' \in Seq(HandleRec) /\ Len(handles') >= Len(handles)
         /\ \A h \in Handle : handles'[h] = handles[h]
         /\ {h \in 1..Len(handles') : h > Len(handles)} = {NewHandle(i) : i \in 1..n}
         /\ \A i \in 1..n : handles'[NewHandle(i)].proc = p
         /\ ~handles'[NewHandle(k)].open
         /\ Handle \subseteq 1..Len(handles')
<1> DEFINE opened == Opening(n, p)
<1>1. handles \in Seq(HandleRec)
  BY DEF TypeOK, HandleRec
<1>2. /\ Len(handles) \in Nat /\ Len(opened) = Len(handles) + n
      /\ opened \in Seq(HandleRec)
      /\ \A h \in Handle : opened[h] = handles[h]
      /\ \A i \in 1..n : opened[NewHandle(i)] = [proc |-> p, open |-> TRUE]
  BY <1>1, OpeningFacts
<1> HIDE DEF opened
<1>3. handles' = Closing(closed, opened)
  BY DEF opened
<1>4. /\ handles' \in Seq(HandleRec) /\ Len(handles') = Len(opened)
      /\ \A h \in 1..Len(opened) :
           /\ handles'[h].proc = opened[h].proc
           /\ handles'[h].open <=> opened[h].open /\ h \notin closed
           /\ h \notin closed => handles'[h] = opened[h]
  <2> DEFINE new == Closing(closed, opened)
  <2>1. handles' = new
    BY <1>3
  <2>2. /\ new \in Seq(HandleRec) /\ Len(new) = Len(opened)
        /\ \A h \in 1..Len(opened) :
             /\ new[h].proc = opened[h].proc
             /\ new[h].open <=> opened[h].open /\ h \notin closed
             /\ h \notin closed => new[h] = opened[h]
    BY <1>2, ClosingFacts
  <2> HIDE DEF new
  <2> QED
    BY <2>1, <2>2
<1>5. ASSUME NEW h \in Handle PROVE handles'[h] = handles[h]
  <2>1. h \in 1..Len(opened) /\ h # NewHandle(k)
    BY <1>2 DEF Handle, NewHandle
  <2> QED
    BY <1>2, <1>4, <2>1
<1>6. ASSUME NEW i \in 1..n PROVE handles'[NewHandle(i)].proc = p
  <2>1. NewHandle(i) \in 1..Len(opened)
    BY <1>2 DEF NewHandle
  <2>2. opened[NewHandle(i)].proc = p
    BY <1>2
  <2> QED
    BY <1>4, <2>1, <2>2
<1>7. ~handles'[NewHandle(k)].open
  <2>1. NewHandle(k) \in 1..Len(opened)
    BY <1>2 DEF NewHandle
  <2> QED
    BY <1>4, <2>1
<1>8. {h \in 1..Len(handles') : h > Len(handles)} = {NewHandle(i) : i \in 1..n}
  <2>1. ASSUME NEW h \in 1..Len(handles'), h > Len(handles)
        PROVE  \E i \in 1..n : h = NewHandle(i)
    <3>1. h - Len(handles) \in 1..n /\ h = NewHandle(h - Len(handles))
      BY <1>2, <1>4, <2>1 DEF NewHandle
    <3> QED
      BY <3>1
  <2>2. \A i \in 1..n : NewHandle(i) \in 1..Len(handles') /\ NewHandle(i) > Len(handles)
    BY <1>2, <1>4 DEF NewHandle
  <2> QED
    BY <2>1, <2>2
<1>9. Handle \subseteq 1..Len(handles') /\ Len(handles') >= Len(handles)
  BY <1>2, <1>4 DEF Handle
<1> QED
  BY <1>4, <1>5, <1>6, <1>7, <1>8, <1>9

\* The mount that parses for the cursor is gone; its C file stays with iterators.
LEMMA CursorFromNameKeeps ==
  ASSUME MountInv, NEW p \in Process, NEW o \in Object, CursorFromName(p, o)
  PROVE  MountInv'
<1> DEFINE x == CursorOf(p, NewHandle(3))
           New == {h \in 1..Len(handles') : h > Len(handles)}
<1>1. TypeOK
  BY DEF MountInv
<1>2. /\ object[o] = None /\ handles' = Closing({NewHandle(2)}, Opening(3, p))
      /\ object' = [object EXCEPT ![o] = x]
      /\ pinned' = pinned \cup {NewHandle(1)} /\ UNCHANGED <<mail, crashed>>
  BY DEF CursorFromName
<1>3. /\ handles' \in Seq(HandleRec) /\ Len(handles') >= Len(handles)
      /\ \A h \in Handle : handles'[h] = handles[h]
      /\ New = {NewHandle(i) : i \in 1..3}
      /\ \A i \in 1..3 : handles'[NewHandle(i)].proc = p
      /\ ~handles'[NewHandle(2)].open
      /\ Handle \subseteq 1..Len(handles')
  <2>1. 3 \in Nat /\ 2 \in 1..3
    OBVIOUS
  <2> QED
    BY <1>1, <1>2, <2>1, NewClosedHandles
<1>4. New = {NewHandle(1), NewHandle(2), NewHandle(3)} /\ handles'[NewHandle(3)].proc = p
  <2>1. 1..3 = {1, 2, 3}
    OBVIOUS
  <2> QED
    BY <1>3, <2>1
<1>5. x \in CursorsOn(New) /\ x.kind = "cursor" /\ x.file = NewHandle(3) /\ x.proc = p
  BY <1>4 DEF CursorOf, CursorsOn
<1>6. pinned' \subseteq 1..Len(handles') /\ pinned \subseteq pinned'
  BY <1>1, <1>2, <1>3, <1>4, PinnedHandles
<1> HIDE DEF x, New
<1>7. New = {h \in 1..Len(handles') : h > Len(handles)}
  BY DEF New
<1>8. \A h \in New : handles'[h].open => h = x.file \/ h \in pinned'
  BY <1>2, <1>3, <1>4, <1>5
<1>9. Places(o, x, New)
  BY <1>2, <1>3, <1>4, <1>5, <1>6, <1>7, <1>8 DEF Places
<1> QED
  BY <1>9, Placed

\* A copy of an unmounted mount opens the image and closes it again.
LEMMA UnpickleUnmountedKeeps ==
  ASSUME MountInv, NEW p \in Process, NEW o \in Object, UnpickleUnmounted(p, o)
  PROVE  MountInv'
<1> DEFINE x == [MountOf(p, None, NewHandle(1)) EXCEPT !.unmounted = TRUE]
           New == {h \in 1..Len(handles') : h > Len(handles)}
<1>1. TypeOK
  BY DEF MountInv
<1>2. /\ object[o] = None /\ handles' = Closing({NewHandle(1)}, Opening(1, p))
      /\ object' = [object EXCEPT ![o] = x]
      /\ UNCHANGED <<pinned, mail, crashed>>
  BY DEF UnpickleUnmounted
<1>3. /\ handles' \in Seq(HandleRec) /\ Len(handles') >= Len(handles)
      /\ \A h \in Handle : handles'[h] = handles[h]
      /\ New = {NewHandle(i) : i \in 1..1}
      /\ \A i \in 1..1 : handles'[NewHandle(i)].proc = p
      /\ Handle \subseteq 1..Len(handles')
  <2>1. 1 \in Nat /\ 1 \in 1..1
    OBVIOUS
  <2> QED
    BY <1>1, <1>2, <2>1, NewClosedHandles
<1>4. New = {NewHandle(1)} /\ handles'[NewHandle(1)].proc = p
  BY <1>3
<1>5. /\ x \in MountsOn(New) /\ x.kind = "mount" /\ x.file = NewHandle(1) /\ x.proc = p
      /\ x.fs = None /\ x.unmounted
  BY <1>4 DEF MountOf, MountsOn
<1>6. pinned' \subseteq 1..Len(handles') /\ pinned \subseteq pinned'
  BY <1>1, <1>2, <1>3, PinnedHandles
<1> HIDE DEF x, New
<1>7. New = {h \in 1..Len(handles') : h > Len(handles)}
  BY DEF New
<1>8. Places(o, x, New)
  BY <1>2, <1>3, <1>4, <1>5, <1>6, <1>7 DEF Places
<1> QED
  BY <1>8, Placed

-----------------------------------------------------------------------------
(* Actions that close files *)

\* What a step that closes some handles must do for the invariant to hold: the
\* objects that stay refer to what they referred to, bar a mount to its C file;
\* of the files just those on closed handles are revoked; and what is left open
\* is still referred to.
Closes(closed) ==
  /\ handles' = Closing(closed, handles)
  /\ object' \in [Object -> Objects(Handle) \cup {None}]
  /\ \A q \in Object : object'[q] # None =>
       /\ object[q] # None /\ object'[q].kind = object[q].kind /\ object'[q].proc = object[q].proc
       /\ HasBytes(q) => object'[q].file = object[q].file
       /\ IsA(q, "mount") \/ IsA(q, "listing") => object'[q].fs \in {object[q].fs, None}
       /\ IsA(q, "mount") /\ object'[q].fs = None => object'[q].unmounted
       /\ IsA(q, "mount") /\ object'[q].fs # None => object'[q].unmounted = object[q].unmounted
       /\ IsA(q, "file") => (object'[q].revoked <=> object[q].revoked \/ object[q].file \in closed)
  /\ \A q \in Object : HasBytes(q) /\ object'[q] = None =>
       \/ object[q].file \in closed \/ ~Open(object[q].file)
       \/ \E r \in Object : HasBytes(r) /\ object'[r] # None /\ object[r].file = object[q].file
  /\ \A m \in Object : HasFs(m) /\ (object'[m] = None \/ object'[m].fs = None) =>
       object[m].fs \in closed \cup pinned \/ ~Open(object[m].fs)
  /\ \A l \in Object : IsA(l, "listing") /\ object'[l] # None /\ object'[l].from # None =>
       object'[l].from = object[l].from /\ object'[object[l].from] # None
  /\ pinned' = pinned /\ mail' = mail /\ crashed' \subseteq Process

\* Such a step keeps the invariant.
LEMMA Closed ==
  ASSUME MountInv, NEW closed, Closes(closed)
  PROVE  MountInv'
<1>1. /\ TypeOK /\ FilesFollowOwners /\ CopiesIndependent /\ LeaksAreIterated
      /\ FsApart /\ MountedHasFs /\ ListingsFromMounts
  BY DEF MountInv
<1>2. handles \in Seq(HandleRec) /\ Len(handles) \in Nat
  BY <1>1, Kinds, LenProperties DEF TypeOK, HandleRec
<1>3. /\ handles' \in Seq(HandleRec) /\ Len(handles') = Len(handles)
      /\ \A h \in Handle : /\ handles'[h].proc = handles[h].proc
                           /\ handles'[h].open <=> Open(h) /\ h \notin closed
  <2> DEFINE new == Closing(closed, handles)
  <2>1. /\ new \in Seq(HandleRec) /\ Len(new) = Len(handles)
        /\ \A h \in 1..Len(handles) :
             /\ new[h].proc = handles[h].proc
             /\ new[h].open <=> handles[h].open /\ h \notin closed
    BY <1>2, ClosingFacts
  <2>2. handles' = new
    BY DEF Closes
  <2> HIDE DEF new
  <2> QED
    BY <2>1, <2>2 DEF Handle, Open
<1>4. Handle' = Handle
  BY <1>3 DEF Handle
<1>5. \A q \in Object :
        /\ \A kind : IsA(q, kind)' <=> IsA(q, kind) /\ object'[q] # None
        /\ Holder(q)' <=> Holder(q) /\ object'[q] # None
        /\ HasBytes(q)' <=> HasBytes(q) /\ object'[q] # None
        /\ HasBytes(q)' => object'[q].file = object[q].file
        /\ HasFs(q)' => HasFs(q) /\ object'[q].fs = object[q].fs
  BY DEF Closes, IsA, Holder, HasBytes, HasFs
<1>6. \A q \in Object : /\ HasBytes(q) => object[q].file \in Handle
                        /\ HasFs(q) => object[q].fs \in Handle
                        /\ IsA(q, "listing") /\ object[q].fs # None => object[q].fs \in Handle
  BY <1>1, Kinds DEF ListingsOn
<1>7. TypeOK'
  <2>1. object' \in [Object -> Objects(Handle') \cup {None}]
    BY <1>4 DEF Closes
  <2>2. ASSUME NEW q \in Object
        PROVE  /\ (Holder(q) \/ IsA(q, "file"))' =>
                    (handles[object[q].file].proc = object[q].proc)'
               /\ ((IsA(q, "mount") \/ IsA(q, "listing")) /\ object[q].fs # None)' =>
                    (handles[object[q].fs].proc = object[q].proc)'
    <3>1. /\ HasBytes(q) => handles[object[q].file].proc = object[q].proc
          /\ (IsA(q, "mount") \/ IsA(q, "listing")) /\ object[q].fs # None
               => handles[object[q].fs].proc = object[q].proc
      BY <1>1 DEF TypeOK, HasBytes
    <3>2. object'[q] # None => object'[q].proc = object[q].proc
      BY DEF Closes
    <3>3. HasBytes(q)' => handles'[object'[q].file].proc = object'[q].proc
      BY <1>3, <1>5, <1>6, <3>1, <3>2 DEF HasBytes, Holder, IsA
    <3>4. ASSUME (IsA(q, "mount") \/ IsA(q, "listing"))', object'[q].fs # None
          PROVE  handles'[object'[q].fs].proc = object'[q].proc
      <4>1. IsA(q, "mount") \/ IsA(q, "listing")
        BY <1>5, <3>4
      <4>2. object'[q] # None
        BY <1>5, <3>4
      <4>3. object'[q].fs = object[q].fs
        BY <3>4, <4>1, <4>2 DEF Closes
      <4>4. object[q].fs \in Handle
        BY <1>6, <3>4, <4>1, <4>3 DEF HasFs
      <4> QED
        BY <1>3, <3>1, <3>2, <3>4, <4>1, <4>2, <4>3, <4>4
    <3> QED
      BY <3>3, <3>4 DEF HasBytes
  <2>3. /\ pinned' \subseteq Handle' /\ crashed' \subseteq Process
        /\ mail' \subseteq [kind: {"mount", "cursor"}, unmounted: BOOLEAN]
    BY <1>1, <1>4 DEF TypeOK, Closes
  <2> QED
    BY <1>3, <2>1, <2>2, <2>3 DEF TypeOK, HandleRec
<1>8. FilesFollowOwners'
  <2> SUFFICES ASSUME NEW f \in Object, IsA(f, "file")'
               PROVE  handles'[object'[f].file].open <=> ~object'[f].revoked
    BY DEF FilesFollowOwners, Open
  <2>1. IsA(f, "file") /\ object'[f] # None /\ HasBytes(f)
    BY <1>5 DEF HasBytes
  <2>2. /\ object'[f].file = object[f].file /\ object[f].file \in Handle
        /\ object'[f].revoked <=> object[f].revoked \/ object[f].file \in closed
    BY <1>6, <2>1 DEF Closes
  <2>3. Open(object[f].file) <=> ~object[f].revoked
    BY <1>1, <2>1 DEF FilesFollowOwners
  <2> QED
    BY <1>3, <2>2, <2>3
<1>9. CopiesIndependent'
  <2> SUFFICES ASSUME NEW a \in Object, NEW b \in Object, Holder(a)', Holder(b)', a # b
               PROVE  /\ object'[a].file # object'[b].file
                      /\ IsA(a, "mount")' /\ IsA(b, "mount")' /\ object'[a].fs # None =>
                           object'[a].fs # object'[b].fs
    BY DEF CopiesIndependent
  <2>1. Holder(a) /\ Holder(b) /\ HasBytes(a)' /\ HasBytes(b)'
    BY <1>5 DEF HasBytes
  <2>2. object'[a].file # object'[b].file
    BY <1>1, <1>5, <2>1 DEF CopiesIndependent
  <2>3. ASSUME IsA(a, "mount")', IsA(b, "mount")', object'[a].fs # None,
               object'[a].fs = object'[b].fs
        PROVE  FALSE
    <3>1. HasFs(a)' /\ HasFs(b)'
      BY <2>3 DEF HasFs
    <3> QED
      BY <1>1, <1>5, <2>1, <2>3, <3>1 DEF CopiesIndependent, HasFs
  <2> QED
    BY <2>2, <2>3
<1>10. FsApart'
  BY <1>1, <1>5 DEF FsApart
<1>11. MountedHasFs'
  BY <1>5 DEF MountedHasFs, Closes
<1>12. LeaksAreIterated'
  <2> SUFFICES ASSUME NEW h \in Handle', handles'[h].open
               PROVE  \/ \E q \in Object : HasBytes(q)' /\ object'[q].file = h
                      \/ h \in pinned'
                      \/ \E m \in Object : IsA(m, "mount")' /\ object'[m].fs = h
    BY DEF LeaksAreIterated, Open, Users, HasBytes
  <2>1. h \in Handle /\ Open(h) /\ h \notin closed
    BY <1>3, <1>4
  <2>2. \/ \E q \in Object : HasBytes(q) /\ object[q].file = h
        \/ h \in pinned
        \/ \E m \in Object : IsA(m, "mount") /\ object[m].fs = h
    BY <1>1, <2>1 DEF LeaksAreIterated, Users, HasBytes
  <2>3. ASSUME NEW q \in Object, HasBytes(q), object[q].file = h
        PROVE  \E r \in Object : HasBytes(r)' /\ object'[r].file = h
    <3>1. CASE object'[q] # None
      BY <1>5, <2>3, <3>1
    <3>2. CASE object'[q] = None
      <4>1. PICK r \in Object : HasBytes(r) /\ object'[r] # None /\ object[r].file = h
        BY <2>1, <2>3, <3>2 DEF Closes
      <4> QED
        BY <1>5, <4>1
    <3> QED
      BY <3>1, <3>2
  <2>4. ASSUME NEW m \in Object, IsA(m, "mount"), object[m].fs = h
        PROVE  h \in pinned' \/ (IsA(m, "mount")' /\ object'[m].fs = h)
    <3>1. HasFs(m)
      <4>1. h \in Nat
        BY <1>2, <2>1 DEF Handle
      <4> QED
        BY <2>4, <4>1, NoneAssumption DEF HasFs
    <3>2. CASE object'[m] = None \/ object'[m].fs = None
      BY <2>1, <2>4, <3>1, <3>2 DEF Closes
    <3>3. CASE object'[m] # None /\ object'[m].fs # None
      BY <1>5, <2>4, <3>3 DEF Closes
    <3> QED
      BY <3>2, <3>3
  <2> QED
    BY <2>2, <2>3, <2>4 DEF Closes
<1>13. ListingsFromMounts'
  <2> SUFFICES ASSUME NEW l \in Object, NEW m \in Object, IsA(l, "listing")', object'[l].from = m
               PROVE  IsA(m, "mount")' /\ object'[m].proc = object'[l].proc
    BY DEF ListingsFromMounts
  <2>1. IsA(l, "listing") /\ object'[l] # None
    BY <1>5
  <2>2. object[l].from = m /\ object'[m] # None
    BY <2>1, NoneAssumption DEF Closes
  <2>3. IsA(m, "mount") /\ object[m].proc = object[l].proc
    BY <1>1, <2>1, <2>2 DEF ListingsFromMounts
  <2>4. object'[m].proc = object[m].proc /\ object'[l].proc = object[l].proc
    BY <2>1, <2>2 DEF Closes
  <2> QED
    BY <1>5, <2>2, <2>3, <2>4
<1> QED
  BY <1>7, <1>8, <1>9, <1>10, <1>11, <1>12, <1>13 DEF MountInv

\* A file that is told that its handle is closed.
LEMMA FileRevoked ==
  ASSUME NEW x \in FilesOn(Handle), NEW y, y = [x EXCEPT !.revoked = TRUE]
  PROVE  /\ y \in FilesOn(Handle) /\ y.kind = "file"
         /\ y.file = x.file /\ y.proc = x.proc /\ y.revoked
BY DEF FilesOn

\* Revoking, as the steps that close files use it.
LEMMA RevokingFacts ==
  ASSUME TypeOK, NEW h, NEW q \in Object
  PROVE  /\ IsA(q, "file") =>
              /\ Revoking(h)[q] \in FilesOn(Handle) /\ Revoking(h)[q].kind = "file"
              /\ Revoking(h)[q].file = object[q].file /\ Revoking(h)[q].proc = object[q].proc
              /\ Revoking(h)[q].revoked <=> object[q].revoked \/ object[q].file = h
         /\ ~IsA(q, "file") => Revoking(h)[q] = object[q]
         /\ Revoking(h) = [o \in Object |-> Revoking(h)[o]]
<1> DEFINE rev == Revoking(h)
<1>1. /\ rev[q] = IF IsA(q, "file") /\ object[q].file = h
                  THEN [object[q] EXCEPT !.revoked = TRUE] ELSE object[q]
      /\ rev = [o \in Object |-> rev[o]]
  BY DEF Revoking
<1> HIDE DEF rev
<1>2. ASSUME IsA(q, "file")
      PROVE  /\ rev[q] \in FilesOn(Handle) /\ rev[q].kind = "file"
             /\ rev[q].file = object[q].file /\ rev[q].proc = object[q].proc
             /\ rev[q].revoked <=> object[q].revoked \/ object[q].file = h
  <2>1. object[q] \in FilesOn(Handle)
    BY <1>2, Kinds
  <2>2. CASE object[q].file = h
    <3>1. rev[q] = [object[q] EXCEPT !.revoked = TRUE]
      BY <1>1, <1>2, <2>2
    <3> QED
      BY <2>1, <2>2, <3>1, FileRevoked
  <2>3. CASE object[q].file # h
    BY <1>1, <1>2, <2>1, <2>3 DEF IsA
  <2> QED
    BY <2>2, <2>3
<1> QED
  BY <1>1, <1>2 DEF rev

\* umount closes both files of the mount, and with them the files opened from it.
LEMMA UmountKeeps ==
  ASSUME MountInv, NEW m \in Object, Umount(m)
  PROVE  MountInv'
<1> DEFINE closed == {object[m].fs, object[m].file}
           rev == Revoking(object[m].file)
<1>1. /\ TypeOK /\ FsApart /\ CopiesIndependent /\ MountedHasFs
  BY DEF MountInv
<1>2. /\ IsA(m, "mount") /\ ~object[m].unmounted
      /\ handles' = Closing(closed, handles)
      /\ object' = [rev EXCEPT ![m].fs = None, ![m].unmounted = TRUE]
      /\ UNCHANGED <<pinned, mail, crashed>>
  BY DEF Umount
<1>3. object[m] \in MountsOn(Handle) /\ HasFs(m) /\ HasBytes(m)
  BY <1>1, <1>2, Kinds DEF HasFs, HasBytes, Holder, MountedHasFs
<1>4. /\ \A q \in Object : ~IsA(q, "file") => rev[q] = object[q]
      /\ rev = [q \in Object |-> rev[q]]
  BY <1>1, RevokingFacts
<1>5. /\ \A q \in Object \ {m} : object'[q] = rev[q]
      /\ object'[m] = [object[m] EXCEPT !.fs = None, !.unmounted = TRUE]
      /\ object' \in [Object -> {object'[q] : q \in Object}]
  <2>1. rev[m] = object[m]
    BY <1>2, <1>4 DEF IsA
  <2> HIDE DEF rev
  <2>2. object' = [q \in Object |-> IF q = m THEN [rev[m] EXCEPT !.fs = None, !.unmounted = TRUE]
                                    ELSE rev[q]]
    BY <1>2, <1>4
  <2> QED
    BY <2>1, <2>2
<1>6. /\ object'[m] \in MountsOn(Handle) /\ object'[m].fs = None /\ object'[m].unmounted
      /\ object'[m].kind = "mount" /\ object'[m].file = object[m].file
      /\ object'[m].proc = object[m].proc
  BY <1>3, <1>5 DEF MountsOn
<1>7. ASSUME NEW q \in Object, IsA(q, "file")
      PROVE  /\ object'[q] \in FilesOn(Handle) /\ object'[q].kind = "file"
             /\ object'[q].file = object[q].file /\ object'[q].proc = object[q].proc
             /\ object'[q].revoked <=> object[q].revoked \/ object[q].file = object[m].file
  <2>1. q # m
    BY <1>2, <1>7 DEF IsA
  <2> QED
    BY <1>1, <1>5, <1>7, <2>1, RevokingFacts
<1>8. \A q \in Object : q # m /\ ~IsA(q, "file") => object'[q] = object[q]
  BY <1>4, <1>5
<1>9. object' \in [Object -> Objects(Handle) \cup {None}]
  <2>1. ASSUME NEW q \in Object PROVE object'[q] \in Objects(Handle) \cup {None}
    BY <1>1, <1>6, <1>7, <1>8 DEF Objects, TypeOK
  <2> QED
    BY <1>5, <2>1
<1>10. \A f \in Object : IsA(f, "file") => object[f].file # object[m].fs
  BY <1>1, <1>3 DEF FsApart, HasBytes
<1>11. \A q \in Object : object'[q] = None => object[q] = None
  <2>1. None \notin MountsOn(Handle) \cup FilesOn(Handle)
    <3>1. Handle \subseteq Nat
      BY <1>1, Kinds DEF Handle
    <3> QED
      BY <3>1, ObjectsGrow DEF Objects
  <2> QED
    BY <1>6, <1>7, <1>8, <2>1
<1> HIDE DEF rev
<1>12. Closes(closed)
  <2>1. \A q \in Object : object'[q] # None =>
          /\ object[q] # None /\ object'[q].kind = object[q].kind /\ object'[q].proc = object[q].proc
          /\ HasBytes(q) => object'[q].file = object[q].file
          /\ IsA(q, "mount") \/ IsA(q, "listing") => object'[q].fs \in {object[q].fs, None}
          /\ IsA(q, "mount") /\ object'[q].fs = None => object'[q].unmounted
          /\ IsA(q, "mount") /\ object'[q].fs # None => object'[q].unmounted = object[q].unmounted
    <3> TAKE q \in Object
    <3>1. CASE q = m
      BY <1>2, <1>6, <3>1 DEF IsA
    <3>2. CASE IsA(q, "file")
      BY <1>7, <3>2 DEF IsA
    <3>3. CASE q # m /\ ~IsA(q, "file")
      BY <1>1, <1>8, <3>3 DEF MountedHasFs
    <3> QED
      BY <3>1, <3>2, <3>3
  <2>2. \A q \in Object : IsA(q, "file") =>
          (object'[q].revoked <=> object[q].revoked \/ object[q].file \in closed)
    BY <1>7, <1>10
  <2>3. \A q \in Object : HasBytes(q) => object'[q] # None
    BY <1>11 DEF HasBytes, Holder, IsA
  <2>4. \A q \in Object : HasFs(q) /\ (object'[q] = None \/ object'[q].fs = None) =>
          object[q].fs \in closed
    BY <1>8, <1>11 DEF HasFs, IsA
  <2>5. \A l \in Object : IsA(l, "listing") /\ object'[l] # None /\ object'[l].from # None =>
          object'[l].from = object[l].from /\ object'[object[l].from] # None
    <3> SUFFICES ASSUME NEW l \in Object, IsA(l, "listing"), object'[l].from # None
                 PROVE  object'[l].from = object[l].from /\ object'[object[l].from] # None
      OBVIOUS
    <3>1. object'[l] = object[l]
      BY <1>2, <1>8 DEF IsA
    <3>2. object[l].from \in Object
      BY <1>1, <3>1, Kinds DEF ListingsOn
    <3>3. IsA(object[l].from, "mount")
      BY <3>2 DEF MountInv, ListingsFromMounts
    <3> QED
      BY <1>11, <3>1, <3>2, <3>3 DEF IsA
  <2>6. crashed' \subseteq Process
    BY <1>1, <1>2 DEF TypeOK
  <2> HIDE DEF closed
  <2> QED
    BY <1>2, <1>9, <2>1, <2>2, <2>3, <2>4, <2>5, <2>6 DEF Closes
<1> QED
  BY <1>12, Closed

\* close of a cursor closes its file, and with it the files opened from it.
LEMMA CursorCloseKeeps ==
  ASSUME MountInv, NEW c \in Object, CursorClose(c)
  PROVE  MountInv'
<1> DEFINE closed == {object[c].file}
<1>1. TypeOK /\ MountedHasFs /\ ListingsFromMounts
  BY DEF MountInv
<1>2. /\ handles' = Closing(closed, handles) /\ object' = Revoking(object[c].file)
      /\ UNCHANGED <<pinned, mail, crashed>>
  BY DEF CursorClose
<1>3. /\ \A q \in Object : IsA(q, "file") =>
           /\ object'[q] \in FilesOn(Handle) /\ object'[q].kind = "file"
           /\ object'[q].file = object[q].file /\ object'[q].proc = object[q].proc
           /\ object'[q].revoked <=> object[q].revoked \/ object[q].file \in closed
      /\ \A q \in Object : ~IsA(q, "file") => object'[q] = object[q]
      /\ object' = [q \in Object |-> object'[q]]
  BY <1>1, <1>2, RevokingFacts
<1>4. object' \in [Object -> Objects(Handle) \cup {None}]
  <2>1. ASSUME NEW q \in Object PROVE object'[q] \in Objects(Handle) \cup {None}
    BY <1>1, <1>3 DEF Objects, TypeOK
  <2> QED
    BY <1>3, <2>1
<1>5. \A q \in Object : object'[q] = None <=> object[q] = None
  <2>1. None \notin FilesOn(Handle)
    <3>1. Handle \subseteq Nat
      BY <1>1, Kinds DEF Handle
    <3> QED
      BY <3>1, ObjectsGrow DEF Objects
  <2> QED
    BY <1>3, <2>1 DEF IsA
<1> HIDE DEF closed
<1>6. Closes(closed)
  <2>1. \A q \in Object : object'[q] # None =>
          /\ object[q] # None /\ object'[q].kind = object[q].kind /\ object'[q].proc = object[q].proc
          /\ HasBytes(q) => object'[q].file = object[q].file
          /\ IsA(q, "mount") \/ IsA(q, "listing") => object'[q].fs \in {object[q].fs, None}
          /\ IsA(q, "mount") /\ object'[q].fs = None => object'[q].unmounted
          /\ IsA(q, "mount") /\ object'[q].fs # None => object'[q].unmounted = object[q].unmounted
    <3> TAKE q \in Object
    <3>1. CASE IsA(q, "file")
      BY <1>3, <3>1 DEF IsA
    <3>2. CASE ~IsA(q, "file")
      BY <1>1, <1>3, <3>2 DEF MountedHasFs
    <3> QED
      BY <3>1, <3>2
  <2>2. \A q \in Object : HasBytes(q) => object'[q] # None
    BY <1>5 DEF HasBytes, Holder, IsA
  <2>3. \A q \in Object : ~(HasFs(q) /\ (object'[q] = None \/ object'[q].fs = None))
    BY <1>3, <1>5 DEF HasFs, IsA
  <2>4. \A l \in Object : IsA(l, "listing") /\ object'[l] # None /\ object'[l].from # None =>
          object'[l].from = object[l].from /\ object'[object[l].from] # None
    <3> SUFFICES ASSUME NEW l \in Object, IsA(l, "listing"), object'[l].from # None
                 PROVE  object'[l].from = object[l].from /\ object'[object[l].from] # None
      OBVIOUS
    <3>1. object'[l] = object[l]
      BY <1>3 DEF IsA
    <3>2. object[l].from \in Object
      BY <1>1, <3>1, Kinds DEF ListingsOn
    <3>3. IsA(object[l].from, "mount")
      BY <1>1, <3>2 DEF ListingsFromMounts
    <3> QED
      BY <1>5, <3>1, <3>2, <3>3 DEF IsA
  <2>5. crashed' \subseteq Process
    BY <1>1, <1>2 DEF TypeOK
  <2> QED
    BY <1>2, <1>3, <1>4, <2>1, <2>2, <2>3, <2>4, <2>5 DEF Closes
<1> QED
  BY <1>6, Closed

\* Closing no handle changes nothing.
LEMMA ClosingNothing ==
  ASSUME TypeOK
  PROVE  Closing({}, handles) = handles
<1>1. handles \in Seq(HandleRec)
  BY DEF TypeOK, HandleRec
<1>2. handles = [h \in 1..Len(handles) |-> handles[h]]
  BY <1>1, LenProperties
<1> QED
  BY <1>2 DEF Closing

\* A process that dies closes what it has open, and its objects are gone; no
\* object of another process refers to what it had open.
LEMMA DescendKeeps ==
  ASSUME MountInv, NEW d \in Object, Descend(d)
  PROVE  MountInv'
<1> DEFINE p == object[d].proc
           closed == {h \in Handle : handles[h].proc = p}
<1>1. TypeOK /\ MountedHasFs /\ ListingsFromMounts
  BY DEF MountInv
<1>2. /\ IsA(d, "listing") /\ crashed' = crashed \cup {p}
      /\ handles' = Closing(closed, handles) /\ pinned' = pinned /\ mail' = mail
      /\ object' = [o \in Object |-> IF object[o] # None /\ object[o].proc = p
                                     THEN None ELSE object[o]]
  BY DEF Descend
<1>3. p \in Process
  BY <1>1, <1>2, Kinds DEF ListingsOn
<1>4. \A q \in Object : /\ HasBytes(q) => object[q].file \in Handle
                        /\ HasFs(q) => object[q].fs \in Handle
                        /\ HasBytes(q) => handles[object[q].file].proc = object[q].proc
                        /\ HasFs(q) => handles[object[q].fs].proc = object[q].proc
  BY <1>1, Kinds DEF TypeOK, HasBytes, HasFs
<1> HIDE DEF p
<1>5. /\ \A q \in Object : object'[q] # None => object'[q] = object[q] /\ object[q].proc # p
      /\ \A q \in Object : object'[q] = None => object[q] = None \/ object[q].proc = p
      /\ object' \in [Object -> Objects(Handle) \cup {None}]
  BY <1>1, <1>2 DEF TypeOK
<1>6. Closes(closed)
  <2>1. \A q \in Object : object'[q] # None =>
          /\ object[q] # None /\ object'[q].kind = object[q].kind /\ object'[q].proc = object[q].proc
          /\ HasBytes(q) => object'[q].file = object[q].file
          /\ IsA(q, "mount") \/ IsA(q, "listing") => object'[q].fs \in {object[q].fs, None}
          /\ IsA(q, "mount") /\ object'[q].fs = None => object'[q].unmounted
          /\ IsA(q, "mount") /\ object'[q].fs # None => object'[q].unmounted = object[q].unmounted
    BY <1>1, <1>5 DEF MountedHasFs
  <2>2. \A q \in Object : object'[q] # None /\ IsA(q, "file") =>
          (object'[q].revoked <=> object[q].revoked \/ object[q].file \in closed)
    BY <1>4, <1>5 DEF HasBytes
  <2>3. \A q \in Object : HasBytes(q) /\ object'[q] = None => object[q].file \in closed
    BY <1>4, <1>5 DEF HasBytes, Holder, IsA
  <2>4. \A q \in Object : HasFs(q) /\ (object'[q] = None \/ object'[q].fs = None) =>
          object[q].fs \in closed
    BY <1>4, <1>5 DEF HasFs, IsA
  <2>5. \A l \in Object : IsA(l, "listing") /\ object'[l] # None /\ object'[l].from # None =>
          object'[l].from = object[l].from /\ object'[object[l].from] # None
    <3> SUFFICES ASSUME NEW l \in Object, IsA(l, "listing"), object'[l] # None, object'[l].from # None
                 PROVE  object'[l].from = object[l].from /\ object'[object[l].from] # None
      OBVIOUS
    <3>1. object'[l] = object[l] /\ object[l].proc # p
      BY <1>5
    <3>2. object[l].from \in Object
      BY <1>1, <3>1, Kinds DEF ListingsOn
    <3>3. IsA(object[l].from, "mount") /\ object[object[l].from].proc = object[l].proc
      BY <1>1, <3>2 DEF ListingsFromMounts
    <3> QED
      BY <1>5, <3>1, <3>2, <3>3 DEF IsA
  <2>6. crashed' \subseteq Process
    BY <1>1, <1>2, <1>3 DEF TypeOK
  <2> HIDE DEF closed
  <2> QED
    BY <1>2, <1>5, <2>1, <2>2, <2>3, <2>4, <2>5, <2>6 DEF Closes
<1> QED
  BY <1>6, Closed

\* Dropping an object closes its file of bytes only when no other object uses it,
\* its C file only when no iterator keeps it.
LEMMA DropKeeps ==
  ASSUME MountInv, NEW o \in Object, Drop(o)
  PROVE  MountInv'
<1> DEFINE closed == IF IsA(o, "listing") THEN {} ELSE FileReclaimed(o) \cup FsReclaimed(o)
<1>1. TypeOK /\ FsApart /\ MountedHasFs /\ ListingsFromMounts
  BY DEF MountInv
<1>2. /\ object[o] # None /\ \A l \in Object : ~(IsA(l, "listing") /\ object[l].from = o)
      /\ handles' = Closing(closed, handles)
      /\ object' = [object EXCEPT ![o] = None]
      /\ UNCHANGED <<pinned, mail, crashed>>
  BY <1>1, ClosingNothing DEF Drop
<1>3. ASSUME NEW q \in Object, q # o, IsA(q, "file")
      PROVE  /\ object'[q] \in FilesOn(Handle) /\ object'[q].kind = "file"
             /\ object'[q].file = object[q].file /\ object'[q].proc = object[q].proc
             /\ object'[q].revoked <=> object[q].revoked
  <2>1. object[q] \in FilesOn(Handle)
    BY <1>1, <1>3, Kinds
  <2>2. object'[q] = object[q]
    BY <1>1, <1>2, <1>3 DEF TypeOK
  <2> QED
    BY <1>3, <2>1, <2>2 DEF IsA
<1>4. /\ \A q \in Object : q # o /\ ~IsA(q, "file") => object'[q] = object[q]
      /\ object'[o] = None
  BY <1>1, <1>2 DEF TypeOK
<1>5. object' \in [Object -> Objects(Handle) \cup {None}]
  BY <1>1, <1>2 DEF TypeOK
<1>6. \A q \in Object : object'[q] = None <=> q = o \/ object[q] = None
  <2>1. None \notin FilesOn(Handle)
    <3>1. Handle \subseteq Nat
      BY <1>1, Kinds DEF Handle
    <3> QED
      BY <3>1, ObjectsGrow DEF Objects
  <2> QED
    BY <1>3, <1>4, <2>1 DEF IsA
<1>7. ASSUME NEW q \in Object, q # o, IsA(q, "file") PROVE object[q].file \notin closed
  <2>1. HasBytes(q)
    BY <1>7 DEF HasBytes
  <2>2. object[q].file \notin FileReclaimed(o)
    BY <1>7, <2>1 DEF FileReclaimed, Users, HasBytes
  <2>3. object[q].file \notin FsReclaimed(o)
    BY <1>1, <2>1 DEF FsReclaimed, FsApart, HasFs
  <2> QED
    BY <2>2, <2>3
<1>8. ASSUME HasBytes(o)
      PROVE  \/ object[o].file \in closed
             \/ \E r \in Object : HasBytes(r) /\ object'[r] # None /\ object[r].file = object[o].file
  <2>1. ~IsA(o, "listing")
    BY <1>8 DEF HasBytes, Holder, IsA
  <2>2. o \in Users(object[o].file)
    BY <1>8 DEF Users, HasBytes
  <2>3. CASE Users(object[o].file) = {o}
    BY <2>1, <2>3 DEF FileReclaimed
  <2>4. CASE Users(object[o].file) # {o}
    <3>1. PICK r \in Users(object[o].file) : r # o
      BY <2>2, <2>4
    <3>2. r \in Object /\ HasBytes(r) /\ object[r].file = object[o].file
      BY DEF Users, HasBytes
    <3> QED
      BY <1>6, <3>1, <3>2 DEF HasBytes, Holder, IsA
  <2> QED
    BY <2>3, <2>4
<1>9. HasFs(o) => object[o].fs \in closed \cup pinned
  BY DEF HasFs, FsReclaimed, IsA
<1> HIDE DEF closed
<1>10. Closes(closed)
  <2>1. \A q \in Object : object'[q] # None =>
          /\ object[q] # None /\ object'[q].kind = object[q].kind /\ object'[q].proc = object[q].proc
          /\ HasBytes(q) => object'[q].file = object[q].file
          /\ IsA(q, "mount") \/ IsA(q, "listing") => object'[q].fs \in {object[q].fs, None}
          /\ IsA(q, "mount") /\ object'[q].fs = None => object'[q].unmounted
          /\ IsA(q, "mount") /\ object'[q].fs # None => object'[q].unmounted = object[q].unmounted
    <3> TAKE q \in Object
    <3>1. CASE q = o
      BY <1>4, <3>1
    <3>2. CASE q # o /\ IsA(q, "file")
      BY <1>3, <3>2 DEF IsA
    <3>3. CASE q # o /\ ~IsA(q, "file")
      BY <1>1, <1>4, <3>3 DEF MountedHasFs
    <3> QED
      BY <3>1, <3>2, <3>3
  <2>2. \A q \in Object : object'[q] # None /\ IsA(q, "file") =>
          (object'[q].revoked <=> object[q].revoked \/ object[q].file \in closed)
    BY <1>3, <1>4, <1>7
  <2>3. \A q \in Object : HasBytes(q) /\ object'[q] = None =>
          \/ object[q].file \in closed
          \/ \E r \in Object : HasBytes(r) /\ object'[r] # None /\ object[r].file = object[q].file
    BY <1>6, <1>8 DEF HasBytes, Holder, IsA
  <2>4. \A m \in Object : HasFs(m) /\ (object'[m] = None \/ object'[m].fs = None) =>
          object[m].fs \in closed \cup pinned
    BY <1>4, <1>6, <1>9 DEF HasFs, IsA
  <2>5. \A l \in Object : IsA(l, "listing") /\ object'[l] # None /\ object'[l].from # None =>
          object'[l].from = object[l].from /\ object'[object[l].from] # None
    <3> SUFFICES ASSUME NEW l \in Object, IsA(l, "listing"), object'[l] # None, object'[l].from # None
                 PROVE  object'[l].from = object[l].from /\ object'[object[l].from] # None
      OBVIOUS
    <3>1. object'[l] = object[l]
      BY <1>4 DEF IsA
    <3>2. object[l].from \in Object /\ object[l].from # o
      BY <1>1, <1>2, <3>1, Kinds DEF ListingsOn
    <3>3. IsA(object[l].from, "mount")
      BY <1>1, <3>2 DEF ListingsFromMounts
    <3> QED
      BY <1>6, <3>1, <3>2, <3>3 DEF IsA
  <2>6. crashed' \subseteq Process
    BY <1>1, <1>2 DEF TypeOK
  <2> QED
    BY <1>2, <1>5, <2>1, <2>2, <2>3, <2>4, <2>5, <2>6 DEF Closes
<1> QED
  BY <1>10, Closed

\* A step that changes nothing keeps everything.
LEMMA StutterKeeps ==
  ASSUME MountInv, UNCHANGED vars
  PROVE  MountInv'
BY DEF vars, MountInv, TypeOK, FilesFollowOwners, CopiesIndependent, LeaksAreIterated, FsApart,
       MountedHasFs, ListingsFromMounts, Handle, Holder, IsA, Open, Users, HasBytes, HasFs

\* close of a mount closes nothing.
LEMMA CloseKeeps ==
  ASSUME MountInv, NEW m \in Object, Close(m)
  PROVE  MountInv'
BY StutterKeeps DEF Close

-----------------------------------------------------------------------------
(* Actions that open and close nothing *)

\* The step puts a file or a listing y under a name that is free or stood for a
\* listing, and opens and closes nothing.
Puts(n, y) ==
  /\ object[n] = None \/ IsA(n, "listing")
  /\ object' = [object EXCEPT ![n] = y]
  /\ \/ /\ y \in FilesOn(Handle)
        /\ handles[y.file].proc = y.proc /\ (Open(y.file) <=> ~y.revoked)
        /\ \A m \in Object : HasFs(m) => object[m].fs # y.file
     \/ /\ y \in ListingsOn(Handle)
        /\ y.fs # None => handles[y.fs].proc = y.proc
        /\ \A m \in Object : y.from = m => IsA(m, "mount") /\ object[m].proc = y.proc
  /\ handles' = handles /\ mail' = mail /\ crashed' = crashed
  /\ pinned \subseteq pinned' /\ pinned' \subseteq Handle

\* The others see no difference.
LEMMA Put ==
  ASSUME MountInv, NEW n \in Object, NEW y, Puts(n, y)
  PROVE  MountInv'
<1>1. /\ TypeOK /\ FilesFollowOwners /\ CopiesIndependent /\ LeaksAreIterated
      /\ FsApart /\ MountedHasFs /\ ListingsFromMounts
  BY DEF MountInv
<1>2. Handle' = Handle /\ handles' = handles
  BY DEF Puts, Handle
<1>3. object'[n] = y /\ \A q \in Object \ {n} : object'[q] = object[q]
  BY <1>1 DEF Puts, TypeOK
<1>4. y \in Objects(Handle) /\ y # None /\ y.kind \in {"file", "listing"}
  <2>1. y \in Objects(Handle) /\ y.kind \in {"file", "listing"}
    BY DEF Puts, Objects, FilesOn, ListingsOn
  <2>2. Handle \subseteq Nat
    BY <1>1, Kinds DEF Handle
  <2> QED
    BY <2>1, <2>2, ObjectsGrow
<1>5. /\ \A q \in Object \ {n} : /\ \A kind : IsA(q, kind)' <=> IsA(q, kind)
                                 /\ Holder(q)' <=> Holder(q)
                                 /\ HasBytes(q)' <=> HasBytes(q)
                                 /\ HasFs(q)' <=> HasFs(q)
      /\ ~Holder(n) /\ ~HasBytes(n) /\ ~HasFs(n)
      /\ ~Holder(n)' /\ ~HasFs(n)' /\ ~IsA(n, "mount")'
      /\ HasBytes(n)' => y.kind = "file"
      /\ IsA(n, "file")' <=> y.kind = "file"
      /\ IsA(n, "listing")' <=> y.kind = "listing"
  BY <1>3, <1>4 DEF Puts, IsA, Holder, HasBytes, HasFs
<1>6. /\ y.kind = "file" =>
           /\ y \in FilesOn(Handle)
           /\ handles[y.file].proc = y.proc /\ (handles[y.file].open <=> ~y.revoked)
           /\ \A m \in Object : HasFs(m) => object[m].fs # y.file
      /\ y.kind = "listing" =>
           /\ y.fs # None => handles[y.fs].proc = y.proc
           /\ \A m \in Object : y.from = m => IsA(m, "mount") /\ object[m].proc = y.proc
  BY DEF Puts, FilesOn, ListingsOn, Open
<1>7. TypeOK'
  <2>1. object' \in [Object -> Objects(Handle') \cup {None}]
    BY <1>1, <1>2, <1>4 DEF TypeOK, Puts
  <2>2. ASSUME NEW q \in Object
        PROVE  /\ (Holder(q) \/ IsA(q, "file"))' =>
                    (handles[object[q].file].proc = object[q].proc)'
               /\ ((IsA(q, "mount") \/ IsA(q, "listing")) /\ object[q].fs # None)' =>
                    (handles[object[q].fs].proc = object[q].proc)'
    <3>1. CASE q = n
      BY <1>2, <1>3, <1>5, <1>6, <3>1
    <3>2. CASE q # n
      <4>1. /\ Holder(q) \/ IsA(q, "file") => handles[object[q].file].proc = object[q].proc
            /\ (IsA(q, "mount") \/ IsA(q, "listing")) /\ object[q].fs # None
                 => handles[object[q].fs].proc = object[q].proc
        BY <1>1 DEF TypeOK
      <4> QED
        BY <1>2, <1>3, <1>5, <3>2, <4>1
    <3> QED
      BY <3>1, <3>2
  <2>3. /\ pinned' \subseteq Handle' /\ crashed' \subseteq Process
        /\ mail' \subseteq [kind: {"mount", "cursor"}, unmounted: BOOLEAN]
        /\ handles' \in Seq([proc: Process, open: BOOLEAN])
    BY <1>1, <1>2 DEF TypeOK, Puts
  <2> QED
    BY <2>1, <2>2, <2>3 DEF TypeOK
<1>8. FilesFollowOwners'
  <2> SUFFICES ASSUME NEW f \in Object, IsA(f, "file")'
               PROVE  handles'[object'[f].file].open <=> ~object'[f].revoked
    BY DEF FilesFollowOwners, Open
  <2>1. CASE f = n
    BY <1>2, <1>3, <1>5, <1>6, <2>1
  <2>2. CASE f # n
    BY <1>1, <1>2, <1>3, <1>5, <2>2 DEF FilesFollowOwners, Open
  <2> QED
    BY <2>1, <2>2
<1>9. CopiesIndependent'
  <2> SUFFICES ASSUME NEW a \in Object, NEW b \in Object, Holder(a)', Holder(b)', a # b
               PROVE  /\ object'[a].file # object'[b].file
                      /\ IsA(a, "mount")' /\ IsA(b, "mount")' /\ object'[a].fs # None =>
                           object'[a].fs # object'[b].fs
    BY DEF CopiesIndependent
  <2>1. a # n /\ b # n
    BY <1>5
  <2> QED
    BY <1>1, <1>3, <1>5, <2>1 DEF CopiesIndependent
<1>10. FsApart'
  <2> SUFFICES ASSUME NEW m \in Object, NEW q \in Object, HasFs(m)', HasBytes(q)'
               PROVE  object'[m].fs # object'[q].file
    BY DEF FsApart
  <2>1. m # n /\ HasFs(m)
    BY <1>5
  <2>2. CASE q # n
    BY <1>1, <1>3, <1>5, <2>1, <2>2 DEF FsApart
  <2>3. CASE q = n
    <3>1. object'[m].fs = object[m].fs /\ object'[q].file = y.file
      BY <1>3, <2>1, <2>3
    <3> QED
      BY <1>5, <1>6, <2>1, <2>3, <3>1
  <2> QED
    BY <2>2, <2>3
<1>11. MountedHasFs'
  BY <1>1, <1>3, <1>5 DEF MountedHasFs
<1>12. ListingsFromMounts'
  <2> SUFFICES ASSUME NEW l \in Object, NEW m \in Object, IsA(l, "listing")', object'[l].from = m
               PROVE  IsA(m, "mount")' /\ object'[m].proc = object'[l].proc
    BY DEF ListingsFromMounts
  <2>1. IsA(m, "mount") /\ object[m].proc = object'[l].proc
    <3>1. CASE l = n
      BY <1>3, <1>5, <1>6, <3>1
    <3>2. CASE l # n
      BY <1>1, <1>3, <1>5, <3>2 DEF ListingsFromMounts
    <3> QED
      BY <3>1, <3>2
  <2>2. m # n
    BY <1>5, <2>1 DEF Holder
  <2> QED
    BY <1>3, <1>5, <2>1, <2>2
<1>13. LeaksAreIterated'
  <2> SUFFICES ASSUME NEW h \in Handle', handles'[h].open
               PROVE  \/ \E q \in Object : HasBytes(q)' /\ object'[q].file = h
                      \/ h \in pinned'
                      \/ \E m \in Object : IsA(m, "mount")' /\ object'[m].fs = h
    BY DEF LeaksAreIterated, Users, HasBytes, Open
  <2>1. \/ \E q \in Object : HasBytes(q) /\ object[q].file = h
        \/ h \in pinned
        \/ \E m \in Object : IsA(m, "mount") /\ object[m].fs = h
    BY <1>1, <1>2 DEF LeaksAreIterated, Users, HasBytes, Open
  <2> QED
    BY <1>3, <1>5, <2>1 DEF Puts, Holder
<1> QED
  BY <1>7, <1>8, <1>9, <1>10, <1>11, <1>12, <1>13 DEF MountInv

\* open: the file is readable if that of the mount or cursor is.
LEMMA OpenFileKeeps ==
  ASSUME MountInv, NEW o \in Object, NEW f \in Object, OpenFile(o, f)
  PROVE  MountInv'
<1> DEFINE y == [kind |-> "file", proc |-> object[o].proc, file |-> object[o].file,
                 revoked |-> ~Open(object[o].file)]
<1>1. TypeOK /\ FsApart
  BY DEF MountInv
<1>2. /\ object[f] = None /\ Holder(o) /\ object' = [object EXCEPT ![f] = y]
      /\ UNCHANGED <<handles, pinned, mail, crashed>>
  BY DEF OpenFile
<1>3. /\ object[o].file \in Handle /\ object[o].proc \in Process
      /\ handles[object[o].file].proc = object[o].proc
  <2>1. object[o] \in MountsOn(Handle) \cup CursorsOn(Handle)
    BY <1>1, <1>2, Kinds DEF Holder
  <2> QED
    BY <1>1, <1>2, <2>1 DEF TypeOK, MountsOn, CursorsOn
<1>4. Open(object[o].file) \in BOOLEAN
  <2>1. handles[object[o].file] \in [proc: Process, open: BOOLEAN]
    BY <1>1, <1>3, ElementOfSeq DEF TypeOK, Handle
  <2> QED
    BY <2>1 DEF Open
<1>5. y \in FilesOn(Handle)
  BY <1>3, <1>4 DEF FilesOn
<1>6. /\ handles[y.file].proc = y.proc /\ (Open(y.file) <=> ~y.revoked)
      /\ \A m \in Object : HasFs(m) => object[m].fs # y.file
  BY <1>1, <1>2, <1>3, <1>4 DEF FsApart, HasBytes
<1>7. pinned \subseteq pinned' /\ pinned' \subseteq Handle
  BY <1>1, <1>2 DEF TypeOK
<1> HIDE DEF y
<1>8. Puts(f, y)
  BY <1>2, <1>5, <1>6, <1>7 DEF Puts
<1> QED
  BY <1>8, Put

\* The generators keep the mount until the first item is asked for.
LEMMA ListKeeps ==
  ASSUME MountInv, NEW m \in Object, NEW l \in Object, List(m, l)
  PROVE  MountInv'
<1> DEFINE y == ListingOf(object[m].proc, m, None)
<1>1. TypeOK
  BY DEF MountInv
<1>2. /\ IsA(m, "mount") /\ object[l] = None /\ object' = [object EXCEPT ![l] = y]
      /\ UNCHANGED <<handles, pinned, mail, crashed>>
  BY DEF List
<1>3. object[m].proc \in Process
  BY <1>1, <1>2, Kinds DEF MountsOn
<1>4. /\ y \in ListingsOn(Handle) /\ y.fs = None
      /\ \A q \in Object : y.from = q => IsA(q, "mount") /\ object[q].proc = y.proc
  BY <1>2, <1>3 DEF ListingOf, ListingsOn
<1>5. pinned \subseteq pinned' /\ pinned' \subseteq Handle
  BY <1>1, <1>2 DEF TypeOK
<1> HIDE DEF y
<1>6. Puts(l, y)
  BY <1>2, <1>4, <1>5 DEF Puts
<1> QED
  BY <1>6, Put

\* From then on they refer to its C file, which the process of the mount opened.
LEMMA BeginKeeps ==
  ASSUME MountInv, NEW l \in Object, Begin(l)
  PROVE  MountInv'
<1> DEFINE m == object[l].from
           y == [object[l] EXCEPT !.fs = object[m].fs, !.from = None]
<1>1. TypeOK /\ ListingsFromMounts
  BY DEF MountInv
<1>2. /\ IsA(l, "listing") /\ m # None
      /\ object' = [object EXCEPT ![l].fs = object[m].fs, ![l].from = None]
      /\ pinned' = pinned \cup ({object[m].fs} \ {None})
      /\ UNCHANGED <<handles, mail, crashed>>
  BY DEF Begin
<1>3. object[l] \in ListingsOn(Handle) /\ m \in Object
  BY <1>1, <1>2, Kinds DEF ListingsOn
<1>4. IsA(m, "mount") /\ object[m].proc = object[l].proc
  BY <1>1, <1>2, <1>3 DEF ListingsFromMounts
<1>5. /\ object[m].fs \in Handle \cup {None}
      /\ object[m].fs # None => handles[object[m].fs].proc = object[m].proc
  <2>1. object[m] \in MountsOn(Handle)
    BY <1>1, <1>3, <1>4, Kinds
  <2> QED
    BY <1>1, <1>3, <1>4, <2>1 DEF TypeOK, MountsOn
<1> HIDE DEF m
<1>6. /\ y \in ListingsOn(Handle) /\ y.fs = object[m].fs /\ y.from = None
      /\ y.proc = object[l].proc
  BY <1>3, <1>5 DEF ListingsOn
<1>7. object' = [object EXCEPT ![l] = y]
  BY <1>2
<1>8. pinned \subseteq pinned' /\ pinned' \subseteq Handle
  BY <1>1, <1>2, <1>5 DEF TypeOK
<1>9. \A q \in Object : y.from # q
  BY <1>6, NoneAssumption
<1> HIDE DEF y
<1>10. Puts(l, y)
  BY <1>2, <1>4, <1>5, <1>6, <1>7, <1>8, <1>9 DEF Puts
<1> QED
  BY <1>10, Put

\* Pickling changes nothing but the pickled states that exist.
LEMMA PickleKeeps ==
  ASSUME MountInv, NEW o \in Object, Pickle(o)
  PROVE  MountInv'
<1>1. UNCHANGED <<object, handles, pinned, crashed>>
  BY DEF Pickle
<1>2. mail' \subseteq [kind: {"mount", "cursor"}, unmounted: BOOLEAN]
  <2>1. TypeOK
    BY DEF MountInv
  <2>2. object[o].kind \in {"mount", "cursor"} /\ IsA(o, "mount") \in BOOLEAN
    BY DEF Pickle, Holder, IsA
  <2>3. IsA(o, "mount") => object[o].unmounted \in BOOLEAN
    BY <2>1, Kinds DEF MountsOn
  <2> DEFINE unmounted == IsA(o, "mount") /\ object[o].unmounted
  <2>4. unmounted \in BOOLEAN
    BY <2>2, <2>3
  <2>5. mail' = mail \cup {[kind |-> object[o].kind, unmounted |-> unmounted]}
    BY DEF Pickle
  <2> HIDE DEF unmounted
  <2>6. mail \subseteq [kind: {"mount", "cursor"}, unmounted: BOOLEAN]
    BY <2>1 DEF TypeOK
  <2> QED
    BY <2>2, <2>4, <2>5, <2>6
<1>3. TypeOK'
  BY <1>1, <1>2 DEF MountInv, TypeOK, Handle, Holder, IsA
<1> QED
  BY <1>1, <1>3 DEF MountInv, FilesFollowOwners, CopiesIndependent, LeaksAreIterated, FsApart,
                    MountedHasFs, ListingsFromMounts, Handle, Holder, IsA, Open, Users,
                    HasBytes, HasFs

-----------------------------------------------------------------------------
(* The theorems *)

\* At first there is nothing.
LEMMA InitHolds == Init => MountInv
<1> SUFFICES ASSUME Init PROVE MountInv
  OBVIOUS
<1>1. /\ object = [o \in Object |-> None] /\ handles = <<>>
      /\ pinned = {} /\ mail = {} /\ crashed = {}
  BY DEF Init
<1>2. /\ Handle = {} /\ handles \in Seq([proc: Process, open: BOOLEAN])
      /\ \A o \in Object : object[o] = None
  BY <1>1 DEF Handle
<1>3. \A o \in Object : \A kind : ~IsA(o, kind)
  BY <1>2 DEF IsA
<1>4. TypeOK
  BY <1>1, <1>2, <1>3 DEF TypeOK, Holder
<1> QED
  BY <1>2, <1>3, <1>4 DEF MountInv, FilesFollowOwners, CopiesIndependent, LeaksAreIterated,
                          FsApart, MountedHasFs, ListingsFromMounts, Holder, HasFs

\* Every step keeps the invariant.
LEMMA StepKeeps ==
  ASSUME MountInv, Next
  PROVE  MountInv'
<1>1. PICK o \in Object :
        \/ Umount(o) \/ Close(o) \/ CursorClose(o) \/ CursorEnter(o)
        \/ Pickle(o) \/ Begin(o) \/ Descend(o) \/ Drop(o)
        \/ \E n \in Object : \/ CursorFromMount(o, n) \/ CursorFromCursor(o, n)
                             \/ OpenFile(o, n) \/ List(o, n)
        \/ \E p \in Process : \/ Mount(p, o) \/ CursorFromName(p, o)
                              \/ UnpickleMount(p, o) \/ UnpickleUnmounted(p, o)
                              \/ UnpickleCursor(p, o)
  BY DEF Next
<1>2. CASE Umount(o)
  BY <1>2, UmountKeeps
<1>3. CASE Close(o)
  BY <1>3, CloseKeeps
<1>4. CASE CursorClose(o)
  BY <1>4, CursorCloseKeeps
<1>5. CASE CursorEnter(o)
  BY <1>5, CursorEnterKeeps
<1>6. CASE Pickle(o)
  BY <1>6, PickleKeeps
<1>7. CASE Begin(o)
  BY <1>7, BeginKeeps
<1>8. CASE Descend(o)
  BY <1>8, DescendKeeps
<1>9. CASE Drop(o)
  BY <1>9, DropKeeps
<1>10. ASSUME NEW n \in Object,
              \/ CursorFromMount(o, n) \/ CursorFromCursor(o, n) \/ OpenFile(o, n) \/ List(o, n)
       PROVE  MountInv'
  BY <1>10, CursorFromMountKeeps, CursorFromCursorKeeps, OpenFileKeeps, ListKeeps
<1>11. ASSUME NEW p \in Process,
              \/ Mount(p, o) \/ CursorFromName(p, o)
              \/ UnpickleMount(p, o) \/ UnpickleUnmounted(p, o) \/ UnpickleCursor(p, o)
       PROVE  MountInv'
  <2>1. CASE Mount(p, o) \/ UnpickleMount(p, o)
    BY <2>1, MountKeeps DEF UnpickleMount
  <2>2. CASE CursorFromName(p, o)
    BY <2>2, CursorFromNameKeeps
  <2>3. CASE UnpickleUnmounted(p, o)
    BY <2>3, UnpickleUnmountedKeeps
  <2>4. CASE UnpickleCursor(p, o)
    BY <2>4, UnpickleCursorKeeps
  <2> QED
    BY <1>11, <2>1, <2>2, <2>3, <2>4
<1> QED
  BY <1>1, <1>2, <1>3, <1>4, <1>5, <1>6, <1>7, <1>8, <1>9, <1>10, <1>11

\* The invariant holds of whoever opens, copies, closes and drops the image.
THEOREM MountInvariant == Spec => []MountInv
<1>1. Init => MountInv
  BY InitHolds
<1>2. MountInv /\ [Next]_vars => MountInv'
  BY StepKeeps, StutterKeeps
<1> QED
  BY <1>1, <1>2, PTL DEF Spec

\* Every object refers only to files that its own process opened.
THEOREM MountsTypeCorrect == Spec => []TypeOK
<1>1. MountInv => TypeOK
  BY DEF MountInv
<1> QED
  BY <1>1, MountInvariant, PTL

\* A file can be read exactly until the mount or cursor it was opened from is
\* unmounted or closed.
THEOREM FilesAlwaysFollow == Spec => []FilesFollowOwners
<1>1. MountInv => FilesFollowOwners
  BY DEF MountInv
<1> QED
  BY <1>1, MountInvariant, PTL

\* Mounts, cursors and their copies never share an open file.
THEOREM CopiesAlwaysIndependent == Spec => []CopiesIndependent
<1>1. MountInv => CopiesIndependent
  BY DEF MountInv
<1> QED
  BY <1>1, MountInvariant, PTL

\* What stays open with nobody to close it is the C file of a mount that was
\* iterated over.
THEOREM OnlyIteratedLeak == Spec => []LeaksAreIterated
<1>1. MountInv => LeaksAreIterated
  BY DEF MountInv
<1> QED
  BY <1>1, MountInvariant, PTL
===============================================================================
