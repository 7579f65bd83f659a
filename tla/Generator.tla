------------------------------- MODULE Generator -------------------------------
(***************************************************************************)
(* The generated functions gen_node_* (written by CFuzzer in               *)
(* src/grammars/f1_c_gen.py), which make a random tree of a key from a     *)
(* budget of characters: the build of GrammarCost, then one call from one  *)
(* of their callers, run as the stack of C calls it causes.                *)
(*                                                                         *)
(* A call [key, max_len, rule, sub, remaining_len, subnode_consumed,       *)
(* consumed, length] has the C variables of those names; rule is 0 until   *)
(* one is chosen, asked is rule_index + 1 (0 for -1), and length is how    *)
(* many characters its tree really has so far.                             *)
(***************************************************************************)
EXTENDS GrammarCost

CONSTANTS Generated,     \* the grammars that texts are generated from
          InitLens,      \* max_len of gen_init__
          max_tree_len   \* max_len of the mutations

(* gen_init__ calls gen_funcs[1], which a file without rules does not have. *)
ASSUME GeneratorAssumption ==
  /\ Generated \subseteq Grammars
  /\ \A f \in Generated : Calls[f] # <<>>
  /\ InitLens \subseteq Nat
  /\ max_tree_len \in Nat

VARIABLES calls,   \* calls of gen_node_* under way, the innermost last
          result   \* what the outermost call returned: <<length, consumed>>

genVars == <<calls, result>>
vars == <<buildVars, genVars>>

Caller == calls[Len(calls) - 1]
Callee == calls[Len(calls)]
Outer == SubSeq(calls, 1, Len(calls) - 1)

RuleOf(c) == grammar.rules[c.key][c.rule]
MinCost(k) == cost[k][1].cost

GenNode(k, max_len, rule_index) ==
  [key |-> k, max_len |-> max_len, asked |-> rule_index + 1, rule |-> 0, sub |-> 1,
   remaining_len |-> 0, subnode_consumed |-> 0, consumed |-> 0, length |-> 0]

-----------------------------------------------------------------------------
(* The callers: gen_init__, random_mutation, rules_mutation,               *)
(* subtree_trimming.  consumed starts as 0 in each of them.                *)
CallGenNode ==
  /\ pc = "ready"
  /\ file \in Generated
  /\ calls = <<>>
  /\ result = <<>>
  /\ \/ \E len \in InitLens : calls' = <<GenNode(grammar.keys[1], len, -1)>>
     \/ \E k \in Keys : calls' = <<GenNode(k, max_tree_len, -1)>>
     \/ \E k \in Keys : \E i \in DOMAIN grammar.rules[k] :
          calls' = <<GenNode(k, max_tree_len, i - 1)>>
     \/ \E k \in Keys : calls' = <<GenNode(k, 0, -1)>>
  /\ UNCHANGED <<buildVars, result>>

(* Back in the caller: sub_consumed is what subnode_consumed then holds.   *)
WithSubnode(c, length, sub_consumed) ==
  [c EXCEPT !.sub = @ + 1,
            !.subnode_consumed = sub_consumed,
            !.remaining_len = @ - sub_consumed,
            !.consumed = @ + sub_consumed,
            !.length = @ + length]

ReturnTree(length, sub_consumed) ==
  IF Len(calls) = 1
  THEN /\ calls' = <<>>
       /\ result' = <<length, sub_consumed>>
  ELSE /\ calls' = [Outer EXCEPT ![Len(Outer)] =
                       WithSubnode(@, length, sub_consumed)]
       /\ UNCHANGED result

(* max_len is too small for any rule: a tree from the pool.  The consumed  *)
(* this branch declares hides the parameter, which stays as it was.        *)
Unchanged == IF Len(calls) = 1 THEN 0 ELSE Caller.subnode_consumed

PoolTree ==
  /\ calls # <<>>
  /\ Callee.rule = 0
  /\ Callee.max_len < MinCost(Callee.key)
  /\ \E length \in pool[Callee.key] : ReturnTree(length, Unchanged)
  /\ UNCHANGED buildVars

(* The chain of comparisons written by gen_num_candidate_rules: it asks    *)
(* for the first cost, other than the least, that is above max_len.        *)
(* Mutant: a rule that fits exactly is not among them.                     *)
RulesThatFitStrictly(k, max_len) ==
  Cardinality({n \in DOMAIN cost[k] : cost[k][n].cost = MinCost(k)
                                      \/ cost[k][n].cost < max_len})
RulesThatFit(k, max_len) ==
  LET Above == {n \in DOMAIN cost[k] : cost[k][n].cost # MinCost(k)
                                       /\ max_len < cost[k][n].cost}
      first == CHOOSE n \in Above : \A m \in Above : n <= m
  IN IF Above = {} THEN Len(cost[k]) ELSE first - 1

(* rule_index decides, or the draw.  Mutant: the draw is from all rules.   *)
CandidatesAll(c) ==
  IF c.asked \in DOMAIN grammar.rules[c.key]
  THEN {c.asked}
  ELSE DOMAIN grammar.rules[c.key]
Candidates(c) ==
  IF c.asked \in DOMAIN grammar.rules[c.key]
  THEN {c.asked}
  ELSE 1..RulesThatFit(c.key, c.max_len)

(* What is left for longer subnodes.  Mutant: only the text of the rule    *)
(* itself is taken off.                                                    *)
BudgetAfterText(c, i) == c.max_len - grammar.rules[c.key][i].text
Budget(c, i) == c.max_len - cost[c.key][i].cost

WithRuleChosen(c, i) ==
  LET text == grammar.rules[c.key][i].text
  IN [c EXCEPT !.rule = i, !.remaining_len = Budget(c, i),
               !.consumed = text, !.length = text]

ChooseRule ==
  /\ calls # <<>>
  /\ Callee.rule = 0
  /\ Callee.max_len >= MinCost(Callee.key)
  /\ \E i \in Candidates(Callee) :
       calls' = Append(Outer, WithRuleChosen(Callee, i))
  /\ UNCHANGED <<buildVars, result>>

(* get_random_len: the least of num_subnodes - 1 draws from 0..total, or   *)
(* total itself.  (With a negative total random_below(0) draws 0.)         *)
(* Mutant: the draw is one too high and not compared with the total.       *)
RandomLensOneMore(num_subnodes, total) == 0..(total + 1)
RandomLens(num_subnodes, total) ==
  IF num_subnodes = 1 \/ total < 0 THEN {total} ELSE 0..total

CallGenSubnode ==
  /\ calls # <<>>
  /\ Callee.rule # 0
  /\ Callee.sub <= Len(RuleOf(Callee).keys)
  /\ LET nkeys == Len(RuleOf(Callee).keys) - Callee.sub + 1
         token == RuleOf(Callee).keys[Callee.sub]
     IN \E len \in RandomLens(nkeys, Callee.remaining_len) :
          calls' = Append(
            Append(Outer, [Callee EXCEPT !.remaining_len = @ + key_cost[token]]),
            GenNode(token, len + key_cost[token], -1))
  /\ UNCHANGED <<buildVars, result>>

ReturnNode ==
  /\ calls # <<>>
  /\ Callee.rule # 0
  /\ Callee.sub > Len(RuleOf(Callee).keys)
  /\ ReturnTree(Callee.length, Callee.consumed)
  /\ UNCHANGED buildVars

-----------------------------------------------------------------------------
(* The build and, for some grammars, one call have ended.                  *)
Finished ==
  /\ \/ pc = "failed"
     \/ pc = "ready" /\ (file \notin Generated \/ result # <<>>)
  /\ UNCHANGED vars

Init == BuildInit /\ calls = <<>> /\ result = <<>>

Generate == CallGenNode \/ PoolTree \/ ChooseRule \/ CallGenSubnode \/ ReturnNode

Next ==
  \/ Build /\ UNCHANGED genVars
  \/ Generate
  \/ Finished

(* One process that runs until it is done.                                 *)
Spec == Init /\ [][Next]_vars /\ WF_vars(Build /\ UNCHANGED genVars)

-----------------------------------------------------------------------------
(* The types of all variables; no budget is negative.                      *)
TypeOK ==
  /\ BuildTypeOK
  /\ \A i \in DOMAIN calls :
       /\ calls[i].key \in Keys
       /\ calls[i].asked \in Nat
       /\ calls[i].rule \in 0..Len(grammar.rules[calls[i].key])
       /\ \A n \in {"max_len", "sub", "remaining_len", "subnode_consumed",
                    "consumed", "length"} : calls[i][n] \in Nat
  /\ result \in {<<>>} \cup (Nat \X Nat)

(* gen_num_candidate_rules: the rules to choose from are those whose       *)
(* shortest text fits, every one of them and no other.                     *)
AllFittingRulesMayBeChosen ==
  calls # <<>> =>
    (Callee.rule = 0 /\ Callee.max_len >= MinCost(Callee.key) =>
       1..RulesThatFit(Callee.key, Callee.max_len) =
         {i \in DOMAIN cost[Callee.key] : cost[Callee.key][i].cost <= Callee.max_len})

(* What a call can still spend: its subnodes not made yet need their       *)
(* shortest texts at least.  The subnode under way has max_len to itself,  *)
(* and its shortest text was lent to remaining_len.                        *)
Reserved(c, from) ==
  IF c.rule = 0 THEN 0
  ELSE LET ks == RuleOf(c).keys
       IN SumOver(SubSeq(ks, from, Len(ks)), key_cost)

(* A tree is never longer than max_len, unless no text is that short: at   *)
(* any moment the text made so far, the budget that is left and the        *)
(* shortest texts of what is to come make up max_len, at every level.      *)
LengthWithinMax ==
  /\ \A i \in DOMAIN calls :
       LET c == calls[i] IN
       c.rule # 0 =>
         /\ i = Len(calls) =>
              c.length + c.remaining_len + Reserved(c, c.sub) = c.max_len
         /\ i < Len(calls) =>
              /\ c.length + c.remaining_len + Reserved(c, c.sub + 1) = c.max_len
              /\ calls[i + 1].max_len <= c.remaining_len

(* What gen_node_* reports as consumed is the length of the text it made:  *)
(* the caller takes it from its budget.                                    *)
ConsumedIsLength ==
  \A i \in DOMAIN calls : calls[i].consumed = calls[i].length

(* A key is generated inside itself only with a smaller budget: with the   *)
(* same one the calls could go on for ever.                                *)
BudgetShrinks ==
  \A i, j \in DOMAIN calls :
    i < j /\ calls[i].key = calls[j].key => calls[j].max_len < calls[i].max_len
=============================================================================
