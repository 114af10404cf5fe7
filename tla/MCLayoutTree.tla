--------------------------- MODULE MCLayoutTree ---------------------------
(* Small instances of LayoutTree for TLC. *)
EXTENDS LayoutTree

\* A large and a small terminal.
TwoSizes == {[rows |-> 8, cols |-> 11], [rows |-> 3, cols |-> 6]}

\* Panes are interchangeable.
Symmetry == Permutations(Panes)
=============================================================================
