------------------------------ MODULE NodeView ------------------------------
(***************************************************************************)
(* What the key cache of a btree node promises: the node's visible keys,   *)
(* each once, in ascending order, and all of them once it is complete.     *)
(***************************************************************************)
EXTENDS BsetKeys

VARIABLES
  bsets,     \* the node
  keys,      \* pointers to the keys delivered so far
  complete   \* the cache is ready to be used

vars == <<bsets, keys, complete>>

Delivered == {keys[i] : i \in 1..Len(keys)}

Init == /\ bsets \in Seq(Bset)
        /\ keys = <<>>
        /\ complete = FALSE

\* p is the least visible key not delivered yet.
Deliver(p) ==
  /\ ~complete
  /\ p \notin Delivered
  /\ \A q \in Visible(bsets) :
       Less(KeyAt(bsets, q), KeyAt(bsets, p)) <=> q \in Delivered
  /\ keys' = Append(keys, p)
  /\ UNCHANGED <<bsets, complete>>

Complete ==
  /\ ~complete
  /\ Visible(bsets) = Delivered
  /\ complete' = TRUE
  /\ UNCHANGED <<bsets, keys>>

Next == (\E p \in Visible(bsets) : Deliver(p)) \/ Complete

Spec == Init /\ [][Next]_vars
=============================================================================
