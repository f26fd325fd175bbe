------------------------------ MODULE MCGcHeap ------------------------------
\* Three objects, a weak reference and two registers for TLC.
EXTENDS GcHeap, TLC

MCSymmetry == Permutations(Obj)
=============================================================================
