------------------------------ MODULE MCTreeOps ------------------------------
(***************************************************************************)
(* Symbol 1 -> 1 2 1 | 2, symbol 2 -> (nothing): edges to a first and to a *)
(* last child, with a sibling between them.                                *)
(***************************************************************************)
EXTENDS TreeOps, TLC

N(id, depth) == [id |-> id, depth |-> depth]

MCGenTrees == (1 :> {<<N(1, 0), N(1, 1), N(2, 1), N(1, 1)>>}
               @@ 2 :> {<<N(2, 0)>>})
MCMinTrees == (1 :> {<<N(1, 0)>>} @@ 2 :> {<<N(2, 0)>>})
MCChunks == (1 :> {<<N(1, 0), N(1, 1)>>} @@ 2 :> {<<N(2, 0)>>})
=============================================================================
