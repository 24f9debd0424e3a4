---------------------------- MODULE MCInodeTree -----------------------------
(* Two interchangeable names and three inodes besides the root: a directory  *)
(* with a subdirectory and a file below it, or two files of one directory.   *)
EXTENDS InodeTree, TLC

\* Of the sizes only the abstract tree speaks, which is about clients behind FUSE.
MCSizes == [fuse \in BOOLEAN |-> IF fuse THEN {1} ELSE {0}]

Symmetry == Permutations(Names)

=============================================================================
