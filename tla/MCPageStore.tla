---------------------------- MODULE MCPageStore ----------------------------
(* Two files of three and of two bytes, in pages of two: a short last page, *)
(* and a page that is empty because the file ends with the one before it.   *)
EXTENDS PageStore, TLC

CONSTANTS f, g

MCOld == f :> <<"a", "b", "c">> @@ g :> <<"d", "e">>
MCNew == f :> <<"x">> @@ g :> <<"d", "e">>
MCReads == {<<0, 4>>, <<1, 0>>, <<1, 1>>, <<1, 2>>}
ThreadsSym == Permutations(Threads)

MCDirt == <<"w", "w">>

=============================================================================
