------------------------------ MODULE MCSession ------------------------------
(***************************************************************************)
(* Texts of the letters 1 and 2; a symbol 1 -> "12" | "1" 1 | "1" and what *)
(* the parser makes of the text "2", which it cannot match: a node with an *)
(* invalid rule number (9 here) that has lost the text.                    *)
(***************************************************************************)
EXTENDS Session, TLC

CONSTANTS e1, e2

S(rule_id, subnodes) == [id |-> 1, rule_id |-> rule_id, subnode_count |-> subnodes, val |-> <<>>]
T(val) == [id |-> 0, rule_id |-> 0, subnode_count |-> 0, val |-> val]

Pair == <<S(0, 1), T(<<1, 2>>)>>
Nested == <<S(1, 2), T(<<1>>), S(0, 1), T(<<1, 2>>)>>
Single == <<S(2, 1), T(<<1>>)>>
Lost == <<S(9, 0)>>

MCEntries == {e1, e2}
MCSeeds == e1 :> [text |-> <<1, 2>>, tree |-> Pair]
MCParse == <<1, 2>> :> Pair @@ <<1, 1, 2>> :> Nested @@ <<1>> :> Single
           @@ <<1, 1>> :> <<S(1, 2), T(<<1>>), S(2, 1), T(<<1>>)>>
           @@ <<2>> :> Lost @@ <<>> :> <<>>

MCTrims == (Pair :> {Single} @@ Nested :> {Pair} @@ Single :> {} @@ Lost :> {}
            @@ MCParse[<<1, 1>>] :> {Single})
MCMutants == (Pair :> {Nested, Single} @@ Nested :> {Pair} @@ Single :> {Nested, Lost}
              @@ Lost :> {Pair} @@ MCParse[<<1, 1>>] :> {Pair})

MCHavocTexts == {<<2>>}
MCImportTexts == {<<1>>, <<2>>}
=============================================================================
