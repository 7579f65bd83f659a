---------------------------- MODULE MCChunkStore ----------------------------
(***************************************************************************)
(* Trees that share subtrees, for ChunkStore.                              *)
(***************************************************************************)
EXTENDS ChunkStore

N(id, val, depth) == [id |-> id, val |-> val, depth |-> depth]

(* twice has the same subtree under it twice, leaf is that subtree, and    *)
(* nested has twice below it, beside another terminal.                     *)
leaf == <<N(2, 0, 0), N(0, 1, 1)>>
twice == <<N(1, 1, 0), N(2, 0, 1), N(0, 1, 2), N(2, 0, 1), N(0, 1, 2)>>
nested == <<N(1, 0, 0), N(1, 1, 1), N(2, 0, 2), N(0, 1, 3), N(2, 0, 2), N(0, 1, 3), N(0, 0, 1)>>

MCInputs == {leaf, twice, nested}
ASSUME InputsHaveFixedArity == FixedArity(MCInputs)
MCAddr == 1..12

(* Two trees as the parser leaves them after an error, with one rule id    *)
(* for nodes with one and with two subnodes.                               *)
MCErrorInputs == {<<N(1, 9, 0), N(2, 9, 1), N(0, 1, 2)>>, <<N(1, 9, 0), N(2, 9, 1), N(0, 1, 1)>>}
=============================================================================
