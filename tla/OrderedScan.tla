----------------------------- MODULE OrderedScan -----------------------------
(***************************************************************************)
(* What an iteration over a btree promises: the keys come one by one in    *)
(* ascending order, each once; keys in a part of the tree that cannot be   *)
(* read are given up all together, with a placeholder in their place; the  *)
(* iteration ends when no key is left to come.                             *)
(***************************************************************************)
EXTENDS Integers, Sequences

CONSTANT Placeholder

VARIABLES
  todo,      \* start positions of the keys still to come
  yields,    \* what the iteration has returned
  ended

vars == <<todo, yields, ended>>

Init == todo \subseteq Nat /\ yields = <<>> /\ ended = FALSE

Yield(k) == /\ ~ended
            /\ \A other \in todo : k <= other
            /\ todo' = todo \ {k}
            /\ yields' = Append(yields, k)
            /\ UNCHANGED ended

\* The lost keys lie together: they come before all the keys that are kept.
Lose(kept) == /\ ~ended
              /\ \A k \in kept, l \in todo \ kept : l < k
              /\ todo' = kept
              /\ yields' = Append(yields, Placeholder)
              /\ UNCHANGED ended

End == /\ ~ended
       /\ todo = {}
       /\ ended' = TRUE
       /\ UNCHANGED <<todo, yields>>

Next == (\E k \in todo : Yield(k)) \/ (\E kept \in SUBSET todo : Lose(kept)) \/ End

Spec == Init /\ [][Next]_vars
=============================================================================
