------------------------------ MODULE GrammarCost ------------------------------
(***************************************************************************)
(* How the build turns a grammar file into what the mutator runs on:       *)
(* Context.rule (src/grammars/nautilus_py_grammar_to_json.py) collects the *)
(* rules, LimitFuzzer.compute_cost (src/grammars/f1_common.py) finds the   *)
(* length of the shortest text of every symbol, and PooledFuzzer           *)
(* (src/grammars/f1_c_gen.py) orders the rules by cost, keeps the cheapest *)
(* ones and builds a pool of shortest trees from them.  The parser grammar *)
(* is written from the same costs (src/grammars/f1_g4_translate.py).       *)
(*                                                                         *)
(* A rule is [text, keys]: how many characters its terminals have together *)
(* and its non-terminals in order.  Costs, lengths and calls depend on     *)
(* nothing else.  Every key a rule uses has rules of its own: the code     *)
(* takes any other token for a terminal.  An infinite cost is a key that   *)
(* is not in DOMAIN key_cost, as in the code.                              *)
(***************************************************************************)
EXTENDS Sums, FiniteSets

CONSTANTS Grammars,       \* names of grammar files
          Calls,          \* [Grammars -> the calls ctx.rule(key, rule), in order]
          LeftRecursive   \* [Grammars -> the keys whose texts can begin with
                          \*   the key itself, directly or through others]

FileKeys(f) == {Calls[f][n].key : n \in DOMAIN Calls[f]}
FileRules(f) == [text : Nat, keys : Seq(FileKeys(f))]

ASSUME CallsAssumption ==
  \A f \in Grammars : Calls[f] \in Seq([key : FileKeys(f), rule : FileRules(f)])

ASSUME LeftRecursiveAssumption ==
  \A f \in Grammars : LeftRecursive[f] \subseteq FileKeys(f)

VARIABLES
  file,       \* the grammar file this build is made for
  called,     \* calls of ctx.rule made so far
  grammar,    \* [keys: in order of first use, rules: [key -> rules]]
  pc,         \* phase of the build
  at,         \* <<key, rule>> that compute_cost looks at next
  key_cost,   \* the shortest text of a key found so far
  cost_,      \* _cost: [key -> <<[cost, id]>>] of the pass under way
  cost,       \* the same for the last whole pass; sorted in the end
  parser,     \* the parser grammar: its symbols and their rules, in order,
              \* and the symbols it starts from
  c_grammar,  \* [key -> its cheapest rules]
  stack,      \* calls of get_trees_for_key under way
  pool        \* pool_of_trees: [key -> lengths of the trees in its pool]

costVars == <<at, key_cost, cost_, cost>>
poolVars == <<parser, c_grammar, stack, pool>>
buildVars == <<file, called, grammar, pc, costVars, poolVars>>

Keys == DOMAIN grammar.rules
Key == grammar.keys[at[1]]

(* f with one more entry, or with another one for k.                       *)
Put(f, k, v) == [x \in DOMAIN f \cup {k} |-> IF x = k THEN v ELSE f[x]]

NoEntry == [k \in {} |-> 0]

-----------------------------------------------------------------------------
(* Reading the file.                                                       *)

WithRule(g, k, r) ==
  IF k \in DOMAIN g.rules
  THEN [g EXCEPT !.rules[k] = Append(@, r)]
  ELSE [keys |-> Append(g.keys, k), rules |-> Put(g.rules, k, <<r>>)]

Rule ==
  /\ pc = "read"
  /\ called < Len(Calls[file])
  /\ LET call == Calls[file][called + 1]
     IN grammar' = WithRule(grammar, call.key, call.rule)
  /\ called' = called + 1
  /\ UNCHANGED <<file, pc, costVars, poolVars>>

(* The JSON file is written and read back; LimitFuzzer starts its first    *)
(* pass.                                                                   *)
LoadGrammar ==
  /\ pc = "read"
  /\ called = Len(Calls[file])
  /\ pc' = "cost"
  /\ cost_' = [k \in Keys |-> <<>>]
  /\ UNCHANGED <<file, called, grammar, at, key_cost, cost, poolVars>>

-----------------------------------------------------------------------------
(* compute_cost: passes over all rules until a pass finds the same costs   *)
(* as the one before.                                                      *)

SumOver(ks, f) == SumSeq([j \in DOMAIN ks |-> f[ks[j]]])

(* expansion_cost of a rule is finite.                                     *)
HasCost(r, costs) == \A j \in DOMAIN r.keys : r.keys[j] \in DOMAIN costs

ExpansionCost(r, costs) == r.text + SumOver(r.keys, costs)

(* Mutant: the first cost found stays.                                     *)
CheaperKeyFirst(k, c) ==
  IF k \in DOMAIN key_cost THEN key_cost ELSE Put(key_cost, k, c)
CheaperKey(k, c) ==
  IF k \in DOMAIN key_cost /\ key_cost[k] <= c THEN key_cost
                                               ELSE Put(key_cost, k, c)

VisitRule ==
  /\ pc = "cost"
  /\ at[1] <= Len(grammar.keys)
  /\ at[2] <= Len(grammar.rules[Key])
  /\ LET r == grammar.rules[Key][at[2]] IN
       IF HasCost(r, key_cost)
       THEN LET c == ExpansionCost(r, key_cost) IN
              /\ key_cost' = CheaperKey(Key, c)
              /\ cost_' = [cost_ EXCEPT ![Key] =
                             Append(@, [cost |-> c, id |-> at[2]])]
       ELSE UNCHANGED <<key_cost, cost_>>
  /\ at' = <<at[1], at[2] + 1>>
  /\ UNCHANGED <<file, called, grammar, pc, cost, poolVars>>

NextKey ==
  /\ pc = "cost"
  /\ at[1] <= Len(grammar.keys)
  /\ at[2] > Len(grammar.rules[Key])
  /\ at' = <<at[1] + 1, 1>>
  /\ UNCHANGED <<file, called, grammar, pc, key_cost, cost_, cost, poolVars>>

(* sorted(cost[k]).  Equal costs are ordered by the text of the rules in   *)
(* the code, by their place in the file here: both are one fixed order.    *)
Sorted(entries) ==
  LET Before(d, e) == d.cost < e.cost \/ (d.cost = e.cost /\ d.id < e.id)
      Rank(e) == Cardinality({i \in DOMAIN entries : Before(entries[i], e)})
  IN [n \in DOMAIN entries |->
        CHOOSE e \in {entries[i] : i \in DOMAIN entries} : Rank(e) = n - 1]

(* Mutants: the passes end once every key has a cost; they never end.      *)
PassesFoundAllKeys == cost # NoEntry /\ DOMAIN key_cost = Keys
PassesNeverEnd == FALSE
PassChangedNothing == cost_ = cost

EndPass ==
  /\ pc = "cost"
  /\ at[1] > Len(grammar.keys)
  /\ IF PassChangedNothing
     THEN /\ cost' = [k \in Keys |-> Sorted(cost[k])]
          /\ pc' = "order"
          /\ UNCHANGED <<at, cost_>>
     ELSE /\ cost' = cost_
          /\ cost_' = [k \in Keys |-> <<>>]
          /\ at' = <<1, 1>>
          /\ UNCHANGED pc
  /\ UNCHANGED <<file, called, grammar, key_cost, poolVars>>

-----------------------------------------------------------------------------
(* PooledFuzzer.__init__: the cheap grammar, the new order of the rules.   *)

RulesOf(entries, k) ==
  [i \in DOMAIN entries |-> grammar.rules[k][entries[i].id]]

(* Mutants: rules one character longer count as cheap; all rules do.       *)
CheapRulesOneMore(k) ==
  LET cheap == {n \in DOMAIN cost[k] : cost[k][n].cost <= cost[k][1].cost + 1}
  IN RulesOf(Selected(cost[k], cheap), k)
CheapRulesAll(k) == RulesOf(cost[k], k)
CheapRules(k) ==
  LET cheap == {n \in DOMAIN cost[k] : cost[k][n].cost = cost[k][1].cost}
  IN RulesOf(Selected(cost[k], cheap), k)

(* self.grammar[k] of both programs: unusable rules are gone.              *)
(* Mutant: the translator keeps the order of the file.                     *)
OrderedRules(k) == RulesOf(cost[k], k)
ParserRulesAsRead(k) == grammar.rules[k]
ParserRules(k) == RulesOf(cost[k], k)

(* get_entry_key: the keys that no rule uses.                              *)
EntryKeys ==
  {k \in Keys : \A l \in Keys : \A i \in DOMAIN OrderedRules(l) :
     \A j \in DOMAIN OrderedRules(l)[i].keys : OrderedRules(l)[i].keys[j] # k}

(* AntlrG, a program of its own with the same costs: it writes the symbols *)
(* in their order, after the one it starts from, and the rules of each.    *)
(* ANTLR numbers the symbols as they are written, from 0 (getRuleIndex).   *)
NoParser == [symbols |-> <<>>, rules |-> NoEntry, entry |-> {}]

Translate ==
  /\ pc = "order"
  /\ parser = NoParser
  /\ parser' = [symbols |-> <<"entry">> \o grammar.keys,
                rules |-> [k \in Keys |-> ParserRules(k)],
                entry |-> EntryKeys]
  /\ UNCHANGED <<file, called, grammar, pc, costVars, c_grammar, stack, pool>>

(* getAltNumber: the numbers a node of k can get when alternative i of k   *)
(* was parsed.  A left-recursive rule is rewritten by ANTLR, and its       *)
(* numbers are others: 0 stands for none, which makes 2^32 - 1 of rule_id. *)
RuleIds(k, i) ==
  IF k \in LeftRecursive[file] THEN 0..Len(parser.rules[k]) ELSE {i}

(* A key without usable rule: crules[0] raises an IndexError.              *)
Unproductive == {k \in Keys : cost[k] = <<>>}

OrderRules ==
  /\ pc = "order"
  /\ parser # NoParser
  /\ IF Unproductive # {}
     THEN /\ pc' = "failed"
          /\ UNCHANGED <<grammar, c_grammar>>
     ELSE /\ c_grammar' = [k \in Keys |-> CheapRules(k)]
          /\ grammar' = [grammar EXCEPT !.rules =
                           [k \in Keys |-> OrderedRules(k)]]
          /\ pc' = "complete"
  /\ UNCHANGED <<file, called, costVars, parser, stack, pool>>

-----------------------------------------------------------------------------
(* completion_trees: get_trees_for_key calls itself for every non-terminal *)
(* of every cheapest rule.  A call is [key, rule, sub, text, all]: it is   *)
(* at subnode sub of its rule, whose trees have one of the lengths text so *)
(* far; all are the lengths of the trees of the rules before.  Lists of    *)
(* more than MAX_SAMPLE trees are sampled in the code: the lengths stay    *)
(* among these.                                                            *)

Call(k) == [key |-> k, rule |-> 1, sub |-> 1,
            text |-> {c_grammar[k][1].text}, all |-> {}]

Top == stack[Len(stack)]
Below == SubSeq(stack, 1, Len(stack) - 1)
TopRule == c_grammar[Top.key][Top.rule]
MoreSubnodes == Top.sub <= Len(TopRule.keys)

(* The calls from outside take the keys in order.                          *)
CompleteKey ==
  /\ pc = "complete"
  /\ stack = <<>>
  /\ Cardinality(DOMAIN pool) < Len(grammar.keys)
  /\ stack' = <<Call(grammar.keys[Cardinality(DOMAIN pool) + 1])>>
  /\ UNCHANGED <<file, called, grammar, pc, costVars, parser, c_grammar, pool>>

(* Without the first bound, which names what Python's recursion limit is   *)
(* to the code, a call that never returns would have no last state.        *)
CallSubnode ==
  /\ stack # <<>>
  /\ Len(stack) <= Len(grammar.keys)
  /\ MoreSubnodes
  /\ stack' = Append(stack, Call(TopRule.keys[Top.sub]))
  /\ UNCHANGED <<file, called, grammar, pc, costVars, parser, c_grammar, pool>>

NextCheapRule ==
  /\ stack # <<>>
  /\ ~MoreSubnodes
  /\ Top.rule < Len(c_grammar[Top.key])
  /\ stack' = Append(Below,
       [Top EXCEPT !.rule = @ + 1, !.sub = 1,
                   !.text = {c_grammar[Top.key][Top.rule + 1].text},
                   !.all = @ \cup Top.text])
  /\ UNCHANGED <<file, called, grammar, pc, costVars, parser, c_grammar, pool>>

(* The caller combines each of its trees with each tree returned.          *)
WithSubtree(call, lengths) ==
  [call EXCEPT !.sub = @ + 1,
               !.text = {a + b : a \in @, b \in lengths}]

ReturnTrees ==
  /\ stack # <<>>
  /\ ~MoreSubnodes
  /\ Top.rule = Len(c_grammar[Top.key])
  /\ LET lengths == Top.all \cup Top.text IN
       IF Len(stack) = 1
       THEN /\ stack' = <<>>
            /\ pool' = Put(pool, Top.key, lengths)
       ELSE /\ stack' = [Below EXCEPT ![Len(Below)] =
                           WithSubtree(@, lengths)]
            /\ UNCHANGED pool
  /\ UNCHANGED <<file, called, grammar, pc, costVars, parser, c_grammar>>

WriteSource ==
  /\ pc = "complete"
  /\ stack = <<>>
  /\ Cardinality(DOMAIN pool) = Len(grammar.keys)
  /\ pc' = "ready"
  /\ UNCHANGED <<file, called, grammar, costVars, poolVars>>

-----------------------------------------------------------------------------
BuildInit ==
  /\ file \in Grammars
  /\ called = 0
  /\ grammar = [keys |-> <<>>, rules |-> NoEntry]
  /\ pc = "read"
  /\ at = <<1, 1>>
  /\ key_cost = NoEntry
  /\ cost_ = NoEntry
  /\ cost = NoEntry
  /\ parser = NoParser
  /\ c_grammar = NoEntry
  /\ stack = <<>>
  /\ pool = NoEntry

Build ==
  \/ Rule \/ LoadGrammar
  \/ VisitRule \/ NextKey \/ EndPass
  \/ Translate \/ OrderRules
  \/ CompleteKey \/ CallSubnode \/ NextCheapRule \/ ReturnTrees
  \/ WriteSource

BuildSpec == BuildInit /\ [][Build]_buildVars

-----------------------------------------------------------------------------
(* The types of all variables.                                             *)
Entry == [cost : Nat, id : Nat \ {0}]

BuildTypeOK ==
  /\ file \in Grammars
  /\ called \in 0..Len(Calls[file])
  /\ grammar \in [keys : Seq(Keys), rules : [Keys -> Seq(FileRules(file))]]
  /\ Cardinality(Keys) = Len(grammar.keys)
  /\ pc \in {"read", "cost", "order", "complete", "ready", "failed"}
  /\ at \in (Nat \ {0}) \X (Nat \ {0})
  /\ key_cost \in [DOMAIN key_cost -> Nat] /\ DOMAIN key_cost \subseteq Keys
  /\ \A costs \in {cost_, cost} : /\ costs \in [DOMAIN costs -> Seq(Entry)]
                                 /\ DOMAIN costs \in {{}, Keys}
  /\ parser # NoParser => DOMAIN parser.rules = Keys /\ parser.entry \subseteq Keys
  /\ DOMAIN c_grammar \in {{}, Keys}
  /\ pool \in [DOMAIN pool -> (SUBSET Nat) \ {{}}] /\ DOMAIN pool \subseteq Keys
  /\ stack \in Seq([key : Keys, rule : Nat, sub : Nat,
                    text : (SUBSET Nat) \ {{}}, all : SUBSET Nat])

(* The keys with a rule that reaches key_cost from known keys, and the     *)
(* keys known in the end when every key builds on ones known before it.    *)
Reached(known) ==
  {k \in Keys : \E i \in DOMAIN grammar.rules[k] :
     LET r == grammar.rules[k][i] IN
       /\ \A j \in DOMAIN r.keys : r.keys[j] \in known
       /\ k \in DOMAIN key_cost
       /\ ExpansionCost(r, key_cost) = key_cost[k]}

Derived ==
  LET derived[n \in 0..Len(grammar.keys)] ==
        IF n = 0 THEN {} ELSE Reached(derived[n-1])
  IN derived[Len(grammar.keys)]

(* compute_cost (f1_common.py) ends with the length of the shortest text   *)
(* of every key: no rule makes a shorter one, and each cost is that of a   *)
(* derivation which uses cheapest rules only and no key below itself.      *)
CostsAreLeast ==
  pc = "order" =>
    /\ DOMAIN key_cost = Derived
    /\ \A k \in Keys : \A i \in DOMAIN grammar.rules[k] :
         LET r == grammar.rules[k][i] IN
           HasCost(r, key_cost) =>
             k \in DOMAIN key_cost /\ key_cost[k] <= ExpansionCost(r, key_cost)

(* The costs a pass notes down while key_cost still changes are, in the    *)
(* pass compute_cost ends with, those of the final key_cost; every usable  *)
(* rule is noted once; and the new order of the rules is the order of      *)
(* these costs, which gen_node_* relies on.                                *)
CostsBelongToRules ==
  /\ pc = "order" => \A k \in Keys :
       /\ {cost[k][n].id : n \in DOMAIN cost[k]} =
            {i \in DOMAIN grammar.rules[k] : HasCost(grammar.rules[k][i], key_cost)}
       /\ \A m, n \in DOMAIN cost[k] : m # n => cost[k][m].id # cost[k][n].id
  /\ pc \in {"complete", "ready"} => \A k \in Keys :
       /\ DOMAIN cost[k] = DOMAIN grammar.rules[k]
       /\ \A i \in DOMAIN cost[k] :
            /\ cost[k][i].cost = ExpansionCost(grammar.rules[k][i], key_cost)
            /\ i > 1 => cost[k][i - 1].cost <= cost[k][i].cost

(* The rule_id of a pool tree, its rule's place among the cheap rules, and *)
(* that of a tree made by gen_node_*, its place among the ordered ones,    *)
(* name the same rules: the cheap ones come first, none left out.          *)
PoolRulesComeFirst ==
  \A k \in DOMAIN c_grammar : \A i \in DOMAIN c_grammar[k] :
    i \in DOMAIN grammar.rules[k] /\ c_grammar[k][i] = grammar.rules[k][i]

(* What the parser numbers is what the generator numbers.  Symbols: the    *)
(* parser's i is the i-th key (k_to_id).  Rules: a parsed node has the     *)
(* rule_id of the rule it was parsed by, unless its key is left-recursive: *)
(* then it need not (grammars/README.md says so).  Start: the parser can   *)
(* start from the key that gen_init__ starts from.                         *)
ParserFitsGenerator ==
  pc \in {"complete", "ready"} =>
    /\ \A i \in DOMAIN grammar.keys : parser.symbols[i + 1] = grammar.keys[i]
    /\ \A k \in Keys \ LeftRecursive[file] : \A i \in DOMAIN parser.rules[k] :
         \A n \in RuleIds(k, i) : /\ n \in DOMAIN grammar.rules[k]
                                  /\ grammar.rules[k][n] = parser.rules[k][i]
    /\ grammar.keys[1] \in parser.entry

(* The programs that compute the costs, each for itself, agree on the      *)
(* numbers that nodes from the pools, the generator and the parser bear.   *)
ProgramsAgree == PoolRulesComeFirst /\ ParserFitsGenerator

(* Every tree of a pool has the length key_cost says, the one gen_node_*   *)
(* compares with max_len before it takes a tree from the pool.             *)
PoolTreesAreShortest == \A k \in DOMAIN pool : pool[k] = {key_cost[k]}

(* completion_trees: a key's cheapest rules never lead back to that key,   *)
(* or get_trees_for_key would call itself without end.                     *)
NoCallInsideItself ==
  \A i, j \in DOMAIN stack : i # j => stack[i].key # stack[j].key

(* The build comes to an end, with sources or with an error.               *)
BuildEnds == <>(pc \in {"ready", "failed"})
=============================================================================
