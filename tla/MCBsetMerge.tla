----------------------------- MODULE MCBsetMerge -----------------------------
(***************************************************************************)
(* Nodes for the model checker, of two kinds.  Resizings: up to MaxBsets   *)
(* bsets of up to two keys over two positions, each key live or deleted,   *)
(* of either size at position 1.  Packings: up to two bsets of up to three *)
(* keys over three positions, those at position 2 in KEY_FORMAT_CURRENT.   *)
(***************************************************************************)
EXTENDS BsetMerge

CONSTANT MaxBsets

KeysOf(positions, sizes, packed) ==
  UNION {[pos: {p}, size: IF p = 1 THEN sizes ELSE {1}, live: BOOLEAN,
          fmt: {IF p \in packed THEN "current" ELSE "local"}] : p \in positions}

BsetsOf(keySet, most) ==
  {s \in UNION {[1..n -> keySet] : n \in 1..most} :
     \A i \in 1..(Len(s) - 1) : Less(s[i], s[i + 1])}

NodesOf(bsetSet, most) == UNION {[1..n -> bsetSet] : n \in 0..most}

Resizings == NodesOf(BsetsOf(KeysOf({1, 2}, {1, 2}, {}), 2), MaxBsets)
Packings == NodesOf(BsetsOf(KeysOf({1, 2, 3}, {1}, {2}), 3), 2)

MCNodes == Resizings \cup Packings
=============================================================================
