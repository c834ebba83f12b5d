-------------------------------- MODULE Mounts --------------------------------
(***************************************************************************)
(* Who holds the image open: mounts, cursors, the files opened from them,  *)
(* the iterators over a mount, and the copies of mounts and cursors that   *)
(* pickling makes in other processes.  A mount opens the image twice, once *)
(* in C (fs) for the btrees and once in Python (file) for the bytes; a     *)
(* cursor only for the bytes.  Dropping an object is the interpreter's     *)
(* reclaiming it once nothing refers to it.  Objects reach another process *)
(* only by pickling.  A definition Slip... is a slip in the one that       *)
(* follows it, for mutation testing; no specification uses it.             *)
(***************************************************************************)
EXTENDS Integers, Sequences

CONSTANTS
  Process,
  Object,       \* names for the objects that exist at a time
  MaxHandles,   \* bound: how often the image is opened
  None

ASSUME BoundAssumption == MaxHandles \in Nat

\* Objects that refer to some handles.  revoked is a ghost: whether the mount or
\* cursor that a file was opened from has closed it.
MountsOn(refs) ==
  [kind: {"mount"}, proc: Process, fs: refs \cup {None}, file: refs, unmounted: BOOLEAN]
CursorsOn(refs) == [kind: {"cursor"}, proc: Process, file: refs]
FilesOn(refs) ==
  [kind: {"file"}, proc: Process, file: refs, revoked: BOOLEAN]
ListingsOn(refs) ==
  [kind: {"listing"}, proc: Process, from: Object \cup {None}, fs: refs \cup {None}]
Objects(refs) == MountsOn(refs) \cup CursorsOn(refs) \cup FilesOn(refs) \cup ListingsOn(refs)

ASSUME NoneAssumption ==
  None \notin Object \cup Process \cup Nat /\ None \notin Objects(Nat)

VARIABLES
  object,     \* what each name stands for, or None
  handles,    \* the files opened so far: [proc, open]
  pinned,     \* the C files whose owner an iterator refers to, for good
  mail,       \* the pickled states that exist
  crashed     \* processes that died of a null pointer

vars == <<object, handles, pinned, mail, crashed>>

Handle == 1..Len(handles)
IsA(o, kind) == object[o] # None /\ object[o].kind = kind
Holder(o) == IsA(o, "mount") \/ IsA(o, "cursor")
Open(h) == handles[h].open

Opening(n, p) == handles \o [i \in 1..n |-> [proc |-> p, open |-> TRUE]]
Closing(closed, hs) ==
  [h \in 1..Len(hs) |-> IF h \in closed THEN [hs[h] EXCEPT !.open = FALSE] ELSE hs[h]]

\* Room for n more opens in a living process.
CanOpen(n, p) == Len(handles) + n <= MaxHandles /\ p \notin crashed
NewHandle(i) == Len(handles) + i

Init == /\ object = [o \in Object |-> None]
        /\ handles = <<>>
        /\ pinned = {}
        /\ mail = {}
        /\ crashed = {}

MountOf(p, fs, file) ==
  [kind |-> "mount", proc |-> p, fs |-> fs, file |-> file, unmounted |-> FALSE]
CursorOf(p, file) == [kind |-> "cursor", proc |-> p, file |-> file]

\* Bcachefs.__init__
Mount(p, o) ==
  /\ object[o] = None /\ CanOpen(2, p)
  /\ handles' = Opening(2, p)
  /\ object' = [object EXCEPT ![o] = MountOf(p, NewHandle(1), NewHandle(2))]
  /\ UNCHANGED <<pinned, mail, crashed>>

\* Files that have been told that handle h is closed.
Revoking(h) ==
  [o \in Object |-> IF IsA(o, "file") /\ object[o].file = h
                    THEN [object[o] EXCEPT !.revoked = TRUE] ELSE object[o]]

\* umount, once: the second call finds the mount unmounted.
SlipUmount(m) ==
  /\ IsA(m, "mount") /\ ~object[m].unmounted
  /\ handles' = Closing({object[m].fs}, handles)
  /\ object' = [Revoking(object[m].file) EXCEPT ![m].fs = None, ![m].unmounted = TRUE]
  /\ UNCHANGED <<pinned, mail, crashed>>

Umount(m) ==
  /\ IsA(m, "mount") /\ ~object[m].unmounted
  /\ handles' = Closing({object[m].fs, object[m].file}, handles)
  /\ object' = [Revoking(object[m].file) EXCEPT ![m].fs = None, ![m].unmounted = TRUE]
  /\ UNCHANGED <<pinned, mail, crashed>>

\* ZipFileLikeMixin.close calls the umount of the mixin, which raises: a mount
\* and its files stay as they are.
Close(m) ==
  /\ IsA(m, "mount")
  /\ UNCHANGED vars

\* Cursor(mount, path): the image is opened again and parsed with three iterators
\* of the mount.  With the mount unmounted they are empty iterators.
CursorFromMount(m, o) ==
  /\ IsA(m, "mount") /\ object[o] = None /\ CanOpen(1, object[m].proc)
  /\ handles' = Opening(1, object[m].proc)
  /\ object' = [object EXCEPT ![o] = CursorOf(object[m].proc, NewHandle(1))]
  /\ pinned' = IF object[m].unmounted THEN pinned ELSE pinned \cup {object[m].fs}
  /\ UNCHANGED <<mail, crashed>>

\* Cursor(filename, path), and cd to what the cache does not have: a mount is
\* made, parsed and dropped, and leaves its C file open behind the iterators.
CursorFromName(p, o) ==
  /\ object[o] = None /\ CanOpen(3, p)
  /\ handles' = Closing({NewHandle(2)}, Opening(3, p))
  /\ object' = [object EXCEPT ![o] = CursorOf(p, NewHandle(3))]
  /\ pinned' = pinned \cup {NewHandle(1)}
  /\ UNCHANGED <<mail, crashed>>

\* cd inside the cache: the maps are shared, the file is opened again.
SlipCursorFromCursor(c, o) ==
  /\ IsA(c, "cursor") /\ object[o] = None
  /\ object' = [object EXCEPT ![o] = object[c]]
  /\ UNCHANGED <<handles, pinned, mail, crashed>>

CursorFromCursor(c, o) ==
  /\ IsA(c, "cursor") /\ object[o] = None /\ CanOpen(1, object[c].proc)
  /\ handles' = Opening(1, object[c].proc)
  /\ object' = [object EXCEPT ![o] = CursorOf(object[c].proc, NewHandle(1))]
  /\ UNCHANGED <<pinned, mail, crashed>>

\* Cursor.close and __exit__
CursorClose(c) ==
  /\ IsA(c, "cursor") /\ Open(object[c].file)
  /\ handles' = Closing({object[c].file}, handles)
  /\ object' = Revoking(object[c].file)
  /\ UNCHANGED <<pinned, mail, crashed>>

\* Cursor.__enter__ opens a closed cursor's file anew.
CursorEnter(c) ==
  /\ IsA(c, "cursor") /\ ~Open(object[c].file) /\ CanOpen(1, object[c].proc)
  /\ handles' = Opening(1, object[c].proc)
  /\ object' = [object EXCEPT ![c].file = NewHandle(1)]
  /\ UNCHANGED <<pinned, mail, crashed>>

\* open: an unmounted mount has no file system to look into; a closed cursor has
\* its cache, and gives out a file that cannot be read.
OpenFile(o, f) ==
  /\ object[f] = None
  /\ Holder(o) /\ (IsA(o, "mount") => ~object[o].unmounted)
  /\ object' = [object EXCEPT ![f] =
       [kind |-> "file", proc |-> object[o].proc, file |-> object[o].file,
        revoked |-> ~Open(object[o].file)]]
  /\ UNCHANGED <<handles, pinned, mail, crashed>>

\* __getstate__: the names of the files, and whether the mount was unmounted.
Pickle(o) ==
  /\ Holder(o)
  /\ mail' = mail \cup {[kind |-> object[o].kind,
                         unmounted |-> IsA(o, "mount") /\ object[o].unmounted]}
  /\ UNCHANGED <<object, handles, pinned, crashed>>

\* __setstate__: files of its own, closed again for an unmounted mount; a copy of
\* a closed cursor is open.
UnpickleMount(p, o) ==
  /\ [kind |-> "mount", unmounted |-> FALSE] \in mail
  /\ Mount(p, o)

SlipUnpickleUnmounted(p, o) ==
  /\ [kind |-> "mount", unmounted |-> TRUE] \in mail
  /\ object[o] = None /\ CanOpen(1, p)
  /\ handles' = Closing({NewHandle(1)}, Opening(1, p))
  /\ object' = [object EXCEPT ![o] = [MountOf(p, NewHandle(2), NewHandle(1)) EXCEPT !.unmounted = TRUE]]
  /\ UNCHANGED <<pinned, mail, crashed>>

UnpickleUnmounted(p, o) ==
  /\ [kind |-> "mount", unmounted |-> TRUE] \in mail
  /\ object[o] = None /\ CanOpen(1, p)
  /\ handles' = Closing({NewHandle(1)}, Opening(1, p))
  /\ object' = [object EXCEPT ![o] = [MountOf(p, None, NewHandle(1)) EXCEPT !.unmounted = TRUE]]
  /\ UNCHANGED <<pinned, mail, crashed>>

UnpickleCursor(p, o) ==
  /\ [kind |-> "cursor", unmounted |-> FALSE] \in mail
  /\ object[o] = None /\ CanOpen(1, p)
  /\ handles' = Opening(1, p)
  /\ object' = [object EXCEPT ![o] = CursorOf(p, NewHandle(1))]
  /\ UNCHANGED <<pinned, mail, crashed>>

ListingOf(p, from, fs) == [kind |-> "listing", proc |-> p, from |-> from, fs |-> fs]

\* extents(), inodes(), dirents() and scandir(): generators, which keep the mount
\* and look at it when the first item is asked for.
List(m, l) ==
  /\ IsA(m, "mount") /\ object[l] = None
  /\ object' = [object EXCEPT ![l] = ListingOf(object[m].proc, m, None)]
  /\ UNCHANGED <<handles, pinned, mail, crashed>>

\* The iterator keeps the C object, not the mount; nothing ever releases it.  Of
\* an unmounted mount the listing is empty.
Begin(l) ==
  /\ IsA(l, "listing") /\ object[l].fs = None /\ object[l].from # None
  /\ LET m == object[l].from IN
     /\ object' = [object EXCEPT ![l].fs = object[m].fs, ![l].from = None]
     /\ pinned' = pinned \cup ({object[m].fs} \ {None})
  /\ UNCHANGED <<handles, mail, crashed>>

\* Bcachefs_iter_next on a pointer to a child allocates a node of the size the
\* superblock tells, which umount has freed.
Descend(l) ==
  /\ IsA(l, "listing") /\ object[l].fs # None /\ ~Open(object[l].fs)
  /\ crashed' = crashed \cup {object[l].proc}
  /\ handles' = Closing({h \in Handle : handles[h].proc = object[l].proc}, handles)
  /\ object' = [o \in Object |-> IF object[o] # None /\ object[o].proc = object[l].proc
                                 THEN None ELSE object[o]]
  /\ UNCHANGED <<pinned, mail>>

\* Names that refer to a handle for bytes.
Users(h) == {o \in Object : (Holder(o) \/ IsA(o, "file")) /\ object[o].file = h}

\* What is closed when object o is reclaimed: its file unless another object uses
\* it, its C file unless an iterator keeps that.
FileReclaimed(o) == IF Users(object[o].file) = {o} THEN {object[o].file} ELSE {}

SlipFsReclaimedNever(o) == {}
FsReclaimed(o) == IF IsA(o, "mount") THEN {object[o].fs} \ ({None} \cup pinned) ELSE {}

Drop(o) ==
  /\ object[o] # None
  /\ ~ \E l \in Object : IsA(l, "listing") /\ object[l].from = o
  /\ handles' = IF IsA(o, "listing") THEN handles
                ELSE Closing(FileReclaimed(o) \cup FsReclaimed(o), handles)
  /\ object' = [object EXCEPT ![o] = None]
  /\ UNCHANGED <<pinned, mail, crashed>>

Next ==
  \E o \in Object :
    \/ Umount(o) \/ Close(o) \/ CursorClose(o) \/ CursorEnter(o)
    \/ Pickle(o) \/ Begin(o) \/ Descend(o) \/ Drop(o)
    \/ \E n \in Object : \/ CursorFromMount(o, n) \/ CursorFromCursor(o, n)
                         \/ OpenFile(o, n) \/ List(o, n)
    \/ \E p \in Process : \/ Mount(p, o) \/ CursorFromName(p, o)
                          \/ UnpickleMount(p, o) \/ UnpickleUnmounted(p, o) \/ UnpickleCursor(p, o)

Spec == Init /\ [][Next]_vars

-----------------------------------------------------------------------------
(* Properties *)

\* Every object refers to files that its own process opened.
TypeOK ==
  /\ handles \in Seq([proc: Process, open: BOOLEAN])
  /\ object \in [Object -> Objects(Handle) \cup {None}]
  /\ \A o \in Object :
       /\ Holder(o) \/ IsA(o, "file") => handles[object[o].file].proc = object[o].proc
       /\ (IsA(o, "mount") \/ IsA(o, "listing")) /\ object[o].fs # None
            => handles[object[o].fs].proc = object[o].proc
  /\ pinned \subseteq Handle /\ crashed \subseteq Process
  /\ mail \subseteq [kind: {"mount", "cursor"}, unmounted: BOOLEAN]

\* A file can be read exactly until the mount or cursor it was opened from is
\* unmounted or closed: not that object's reclamation, nor what happens to a
\* copy, another cursor or a reopened one, makes a difference to it.
FilesFollowOwners ==
  \A f \in Object : IsA(f, "file") => (Open(object[f].file) <=> ~object[f].revoked)

\* Mounts and cursors, pickled copies and those of cd included, share no open
\* file, so that closing one leaves the others usable.
CopiesIndependent ==
  \A a, b \in Object :
    Holder(a) /\ Holder(b) /\ a # b =>
      /\ object[a].file # object[b].file
      /\ IsA(a, "mount") /\ IsA(b, "mount") /\ object[a].fs # None => object[a].fs # object[b].fs

\* An image left open that no object can close any more is the C file of a mount
\* that was iterated over and dropped without umount: nothing else leaks.
LeaksAreIterated ==
  \A h \in Handle :
    Open(h) => \/ Users(h) # {} \/ h \in pinned
               \/ \E m \in Object : IsA(m, "mount") /\ object[m].fs = h
=============================================================================
