----------------------------- MODULE MCTransfer -----------------------------
(* A file of three bytes in a directory, a name for a file at the root, and  *)
(* two blocks, one cached.                                                   *)
EXTENDS Transfer

MCPaths == {<<"d">>, <<"d", "x">>, <<"x">>}
MCCwd == <<"d">>
MCFiles == [p \in {<<"d", "x">>} |-> <<1, 2, 3>>]
MCCached == [b \in {CHOOSE b \in Blocks : TRUE} |-> <<8, 9>>]
Symmetry == Permutations(Tasks)

=============================================================================
