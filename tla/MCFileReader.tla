---------------------------- MODULE MCFileReader ----------------------------
EXTENDS FileReader

CONSTANTS r1, r2, p1

OneProcess == [r \in Reader |-> p1]

Ext(file_offset, offset, size) ==
  [file_offset |-> file_offset, offset |-> offset, size |-> size]

\* Two extents out of order in the image with padding behind the end, one
\* extent that ends with the file, a file cut off by the end of the image.
TwoExtents == [extents |-> <<Ext(0, 4, 2), Ext(2, 0, 3)>>, size |-> 3]
OneExtent == [extents |-> <<Ext(0, 2, 2)>>, size |-> 2]
CutOff == [extents |-> <<Ext(0, 3, 1), Ext(1, 6, 2)>>, size |-> 2]
MCLayouts == {TwoExtents, OneExtent, CutOff}
=============================================================================
