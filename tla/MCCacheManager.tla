--------------------------- MODULE MCCacheManager ---------------------------
(* Three interchangeable blocks are enough for two blocks at one frequency  *)
(* and a third at another, and for an eviction that takes some, not all.    *)
EXTENDS CacheManager

Symmetry == Permutations(Blocks)

=============================================================================
