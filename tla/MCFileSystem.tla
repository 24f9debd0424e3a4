---------------------------- MODULE MCFileSystem ----------------------------
(* Blocks of three bytes, and contents of one block and of two.              *)
EXTENDS FileSystem, TLC

MCContents == {<<1>>, <<2, 3, 4, 5>>}
Symmetry == Permutations(Clients) \cup Permutations(Workers) \cup Permutations(Paths)

=============================================================================
