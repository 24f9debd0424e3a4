-------------------------------- MODULE Seqs --------------------------------
(***************************************************************************)
(* The operators of the community module SequencesExt that the modules     *)
(* with proofs use, under the same names.  SequencesExt brings Bags along, *)
(* and the prover, which takes every definition in scope into account, is  *)
(* twenty times slower with it.                                            *)
(***************************************************************************)
EXTENDS Sequences, Naturals

BoundedSeq(S, n) == UNION {[1 .. m -> S] : m \in 0 .. n}

Front(s) == SubSeq(s, 1, Len(s) - 1)
Last(s) == s[Len(s)]

RemoveAt(s, i) == SubSeq(s, 1, i - 1) \o SubSeq(s, i + 1, Len(s))

IsPrefix(s, t) == Len(s) <= Len(t) /\ s = SubSeq(t, 1, Len(s))

=============================================================================
