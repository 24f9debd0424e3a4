---------------------------- MODULE MCBlockStore ----------------------------
(* Constants of the model-checking runs of BlockStore that a .cfg cannot     *)
(* write: sequences, tuples and functions.                                   *)
EXTENDS BlockStore

OneTier == <<"Memory">>
TwoTiers == <<"Memory", "SSD">>
TwoBytesEach == [k \in TierSet |-> 2]
ThreeBytesEach == [k \in TierSet |-> 3]

\* Whole-block writes of no, one and two bytes, and a write behind the first byte.
AllSpans == {<<0, 0>>, <<0, 1>>, <<0, 2>>, <<1, 1>>}
FromStart == {<<0, 1>>, <<0, 2>>}

Symmetry == Permutations(Blocks) \cup Permutations(Threads) \cup Permutations(Vals)

=============================================================================
