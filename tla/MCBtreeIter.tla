----------------------------- MODULE MCBtreeIter -----------------------------
(* Iterations over every point btree and extents btree of BtreeShapes. *)
EXTENDS BtreeIter, BtreeShapes

MCTrees == Shapes(PointSets \cup ExtentSets)
=============================================================================
