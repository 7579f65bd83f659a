----------------------------- MODULE MCFuzzing -----------------------------
(***************************************************************************)
(* A grammar of two symbols: 1 -> 2 | 1 2 | (nothing), 2 -> "x" | "yz"; a  *)
(* third symbol 3 -> "z" has only one rule, so nothing can replace it.     *)
(***************************************************************************)
EXTENDS FuzzHistory, TLC

CONSTANTS e1, e2, e3
NONE == -1

N(id, rule, depth) == [id |-> id, rule |-> rule, depth |-> depth]

MCRules == 1 :> (0 :> <<2>> @@ 1 :> <<1, 3>>)
           @@ 2 :> (0 :> <<>> @@ 1 :> <<>>)
           @@ 3 :> (0 :> <<>>)

MCTextLen == 1 :> (NONE :> 0 @@ 0 :> 0 @@ 1 :> 1)
             @@ 2 :> (NONE :> 0 @@ 0 :> 0 @@ 1 :> 3)
             @@ 3 :> (NONE :> 1 @@ 0 :> 1)

MCGenTrees ==
  1 :> (0 :> {<<N(1, 0, 0), N(2, 0, 1)>>}
        @@ 1 :> {<<N(1, 1, 0), N(1, 0, 1), N(2, 1, 2), N(3, 0, 1)>>})
  @@ 2 :> (0 :> {<<N(2, 0, 0)>>} @@ 1 :> {<<N(2, 1, 0)>>})
  @@ 3 :> (0 :> {<<N(3, 0, 0)>>})

MCEntries == {e1, e2, e3}

(* e1 has an edge; e2 a node in error, whose two rules both replace it; e3 *)
(* is a lone symbol with nothing to replace.                               *)
MCEntryTree ==
  e1 :> <<N(1, 1, 0), N(1, 0, 1), N(2, 0, 2), N(3, 0, 1)>>
  @@ e2 :> <<N(1, NONE, 0), N(2, 1, 1)>>
  @@ e3 :> <<N(3, 0, 0)>>
=============================================================================
