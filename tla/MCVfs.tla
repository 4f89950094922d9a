------------------------------- MODULE MCVfs --------------------------------
(* Three tasks with one descriptor each, two handles and two files.        *)
EXTENDS Vfs, TLC

MCContents == {<<>>, <<1>>, <<2, 3>>}
MCDistances == {-1}
MCSymmetry == Permutations(Tasks) \union Permutations(Paths)
=============================================================================
