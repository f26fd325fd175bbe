----------------------------- MODULE MCOuterCells -----------------------------
(* Closures over the variables of nested frames and blocks.                *)
EXTENDS OuterCells, TLC

MCSymmetry == Permutations(Var) \cup Permutations(Outer)
=============================================================================
