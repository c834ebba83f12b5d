-------------------------------- MODULE Sectors --------------------------------
(* The sector, the unit of keys in the extents btree. *)
EXTENDS Integers

CONSTANT SectorSize   \* bytes of a sector, 512 in the code

ASSUME SectorAssumption == SectorSize \in Nat \ {0}
=============================================================================
