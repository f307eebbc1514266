------------------------- MODULE MCFileCheckpointer -------------------------
(* A small instance of FileCheckpointer for TLC. *)
EXTENDS FileCheckpointer, TLC

CONSTANTS p1, p2, c1, c2

TwoPaths == {p1, p2}
TwoContents == {c1, c2}
Symmetry == {p @@ c : p \in Permutations(TwoPaths), c \in Permutations(TwoContents)}
=============================================================================
