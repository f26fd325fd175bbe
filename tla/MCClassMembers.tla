--------------------------- MODULE MCClassMembers ---------------------------
\* Two classes, one of which can derive from the other, and two instances.
EXTENDS ClassMembers, TLC

MCSymmetry == Permutations(Class) \cup Permutations(Inst)
=============================================================================
