---------------------------- MODULE MCTrimming ----------------------------
(***************************************************************************)
(* A small grammar for Trimming and TrimHistory.  Symbol 1 is recursive    *)
(* (1 -> 1 1 | 2 | 1 2 ..), symbol 2 derives 3, symbol 3 derives text.     *)
(***************************************************************************)
EXTENDS TrimHistory, TLC

N(id, depth) == [id |-> id, depth |-> depth]

MCIds == 1..3

(* The minimal tree of 1 is larger than some of the subtrees it replaces,  *)
(* and there are two of them to choose from.                               *)
MCMinTrees ==
  1 :> {<<N(1, 0), N(2, 1), N(3, 2)>>, <<N(1, 0), N(3, 1)>>}
  @@ 2 :> {<<N(2, 0), N(3, 1)>>}
  @@ 3 :> {<<N(3, 0)>>}

CONSTANTS e1, e2, e3
MCEntries == {e1, e2, e3}

(* e1: edges under both children of the root; e2: an edge below a non-edge *)
(* and a node without children, as a parse error leaves it; e3: one node.  *)
MCEntryTree ==
  e1 :> <<N(1, 0), N(1, 1), N(3, 2), N(1, 1), N(1, 2), N(3, 3)>>
  @@ e2 :> <<N(2, 0), N(1, 1), N(1, 2), N(2, 1), N(3, 1)>>
  @@ e3 :> <<N(3, 0)>>
=============================================================================
