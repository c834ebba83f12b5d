----------------------------- MODULE MCBtreeFind -----------------------------
(* Every point btree and every extents btree of BtreeShapes, every reference. *)
EXTENDS BtreeFind, BtreeShapes

MCTrees == Shapes(PointSets \cup ExtentSets)
MCReferences == 0..(MaxPos + 1)
=============================================================================
