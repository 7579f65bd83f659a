------------------------------ MODULE Fuzzing ------------------------------
(***************************************************************************)
(* The fuzzing protocol of src/src/grammar_mutator.c: the hooks            *)
(* afl_custom_fuzz_count, afl_custom_fuzz and afl_custom_queue_new_entry   *)
(* with the four mutations of src/src/tree_mutation.c, called by the       *)
(* custom mutator stage of afl-fuzz, which is outside this repository:     *)
(*                                                                         *)
(*   queue_get(entry);  stage_max = fuzz_count();                          *)
(*   for (stage_cur = 0; stage_cur < stage_max; stage_cur++) {             *)
(*     if (fuzz() > 0) { run the target; if interesting queue_new_entry()}} *)
(*                                                                         *)
(* Trees are those of module Trees with the rule that expanded each node.  *)
(* Text is abstracted to its length.  A mutation is one atomic step (the   *)
(* relinking of C nodes that it does and undoes is not visible here).      *)
(***************************************************************************)
EXTENDS Trees, Sums, FiniteSetsExt

CONSTANTS
  Ids,              \* the grammar's symbols
  Rules,            \* Rules[id]: rule number -> the symbols it expands to
  NoRule,           \* rule_id of a node the parser found in error (alt 0, minus 1)
  TextLen,          \* TextLen[id]: rule number -> length of the rule's own text
  GenTrees,         \* GenTrees[id]: rule -> trees gen_funcs[id](1000, .., rule) returns
  Entries, EntryTree,
  RandomChoices, RecursiveChoices, SplicingChoices,  \* what the environment may set
  RRM_GROWTH,       \* bound on the exponent and on the growth (10 in the code)
  MaxAttempts,      \* failed_count of the recursive mutation (8 in the code)
  MaxSize,          \* max_size that afl-fuzz passes to afl_custom_fuzz
  MaxFinds          \* bound: interesting test cases per run of the model

NumRules(id) == Cardinality(DOMAIN Rules[id])
(* A node, made by the parser or a generator; the rules are the grammar's. *)
Node == {n \in [id : Ids, rule : Nat \cup {NoRule}, depth : Nat] :
           n.rule \in DOMAIN Rules[n.id] \cup {NoRule}}

ChildIds(t, i) ==
  LET children == Ascending(Children(t, i))
  IN  [k \in DOMAIN children |-> t[children[k]].id]

(* A node with its children, and the ones the grammar allows.              *)
Shape(t, i) == <<t[i].id, t[i].rule, ChildIds(t, i)>>
Shapes(t) == {Shape(t, i) : i \in DOMAIN t}
GrammarShapes == UNION {{<<id, r, Rules[id][r]>> : r \in DOMAIN Rules[id]} : id \in Ids}

ASSUME RulesAssumption ==
  \A id \in Ids : /\ IsFiniteSet(DOMAIN Rules[id]) /\ NumRules(id) > 0
                  /\ DOMAIN Rules[id] = 0..(NumRules(id)-1)
                  /\ NoRule \notin DOMAIN Rules[id]
                  /\ \A r \in DOMAIN Rules[id] \cup {NoRule} : TextLen[id][r] \in Nat

ASSUME SettingsAssumption ==
  /\ RandomChoices \subseteq Nat /\ RecursiveChoices \subseteq Nat /\ SplicingChoices \subseteq Nat
  /\ RRM_GROWTH \in Nat /\ MaxAttempts \in Nat /\ MaxSize \in Nat

(* The generator follows the grammar and starts with the rule asked for.   *)
ASSUME GenTreesAssumption ==
  \A id \in Ids : \A r \in DOMAIN Rules[id] :
    /\ GenTrees[id][r] # {}
    /\ \A m \in GenTrees[id][r] : /\ m \in Seq(Node) /\ IsTree(m)
                                  /\ m[1].id = id /\ m[1].rule = r
                                  /\ Shapes(m) \subseteq GrammarShapes

ASSUME EntryTreeAssumption ==
  \A e \in Entries : EntryTree[e] \in Seq(Node) /\ IsTree(EntryTree[e])

VARIABLES
  tree_cur,         \* data->tree_cur
  mutated_tree,     \* data->mutated_tree; <<>> is NULL
  nodes,            \* tree_cur->non_terminal_node_list
  stage, step,      \* data->cur_fuzzing_stage, cur_fuzzing_step
  rules_node,       \* data->cur_rules_mutation_node; 0 is NULL
  rules_rule,       \* data->cur_rules_mutation_rule_id
  total,            \* data->total_*_steps: [0..3 -> Nat], by stage
  config,           \* default_*_steps, read from the environment: [1..3 -> Nat]
  chunks,           \* the trees handed to the chunk store
  saved,            \* the trees written by queue_new_entry
  out_size,         \* what afl_custom_fuzz returned
  pc, stage_cur, stage_max, unfuzzed       \* afl-fuzz

walkVars == <<nodes, rules_node, rules_rule>>
aflVars == <<pc, stage_cur, stage_max, unfuzzed>>
vars == <<tree_cur, mutated_tree, walkVars, stage, step, total, config, chunks,
          saved, out_size, aflVars>>

-----------------------------------------------------------------------------
Init ==
  /\ tree_cur = <<>> /\ mutated_tree = <<>> /\ nodes = <<>>
  /\ stage = 0 /\ step = 0 /\ rules_node = 0 /\ rules_rule = 0
  /\ total = [k \in 0..3 |-> 0]
  /\ \E a \in RandomChoices, b \in RecursiveChoices, c \in SplicingChoices :
       config = <<a, b, c>>
  /\ chunks = {} /\ saved = {} /\ out_size = 0
  /\ pc = "idle" /\ stage_cur = 0 /\ stage_max = 0 /\ unfuzzed = Entries

(* fuzz_one loads an entry (its trimming is module Trimming).              *)
QueueGet(e) ==
  /\ pc = "idle" /\ e \in unfuzzed
  /\ tree_cur' = EntryTree[e]
  /\ chunks' = chunks \cup {EntryTree[e]}
  /\ unfuzzed' = unfuzzed \ {e}
  /\ pc' = "count"
  /\ UNCHANGED <<mutated_tree, walkVars, stage, step, total, config, saved,
                 out_size, stage_cur, stage_max>>

-----------------------------------------------------------------------------
(* The rules that can replace node i's own, from rule number r on.         *)
OtherRules(i, r) == {q \in r..(NumRules(tree_cur[i].id)-1) : q # tree_cur[i].rule}

(* The loop shared by fuzz_count and fuzz: from rule r of node i, or else  *)
(* from rule 0 of the nodes popped from list, to the next other rule.      *)
(* Node 0 stands for the NULL of an empty list, which the C code would     *)
(* dereference.  Mutant: a node's own rule is not skipped.                 *)
WalkFromSkipsNothing(i, r, list) ==
  IF OtherRules(i, r) # {}
  THEN [node |-> i, rule |-> r, list |-> list]
  ELSE IF list = <<>>
       THEN [node |-> 0, rule |-> 0, list |-> <<>>]
       ELSE [node |-> Head(list), rule |-> 0, list |-> Tail(list)]

WalkFrom(i, r, list) ==
  LET later == {k \in DOMAIN list : OtherRules(list[k], 0) # {}}
  IN  IF OtherRules(i, r) # {}
      THEN [node |-> i, rule |-> Min(OtherRules(i, r)), list |-> list]
      ELSE IF later = {}
           THEN [node |-> 0, rule |-> 0, list |-> <<>>]
           ELSE [node |-> list[Min(later)],
                 rule |-> Min(OtherRules(list[Min(later)], 0)),
                 list |-> DropFirst(list, Min(later))]

WalkTo(w) == rules_node' = w.node /\ rules_rule' = w.rule /\ nodes' = w.list

(* rules_mutation_count: one less than its rules for every node.           *)
(* Mutant: every rule is counted.                                          *)
RulesMutationCountAll ==
  SumSeq([i \in DOMAIN tree_cur |-> NumRules(tree_cur[i].id)])
RulesMutationCount ==
  SumSeq([i \in DOMAIN tree_cur |-> NumRules(tree_cur[i].id) - 1])

(* afl_custom_fuzz_count.                                                  *)
FuzzCount ==
  /\ pc = "count"
  /\ total' = [k \in 0..3 |-> CASE k = 0 -> RulesMutationCount
                                [] k = 2 -> IF EdgeSet(tree_cur) = {} THEN 0 ELSE config[2]
                                [] OTHER -> config[k]]
  /\ step' = 0
  /\ IF total'[0] > 0
     THEN /\ stage' = 0
          /\ WalkTo(WalkFrom(1, 0, Tail(NonTerminalNodes(tree_cur))))
     ELSE /\ stage' = 1
          /\ nodes' = NonTerminalNodes(tree_cur)
          /\ UNCHANGED <<rules_node, rules_rule>>
  /\ stage_cur' = 0
  /\ stage_max' = total'[0] + total'[1] + total'[2] + total'[3]
  /\ pc' = IF stage_max' > 0 THEN "fuzz" ELSE "idle"
  /\ UNCHANGED <<tree_cur, mutated_tree, config, chunks, saved, out_size, unfuzzed>>

-----------------------------------------------------------------------------
(* What the four mutations may make of tree_cur.                           *)

(* rules_mutation: the walk's node is expanded anew with the walk's rule.  *)
RulesMutants ==
  {ReplaceSubtree(tree_cur, rules_node, m) :
     m \in GenTrees[tree_cur[rules_node].id][rules_rule]}

(* random_mutation: any node is expanded anew with any rule.               *)
RandomMutants ==
  UNION {{ReplaceSubtree(tree_cur, i, m) :
            m \in UNION {GenTrees[tree_cur[i].id][r] : r \in DOMAIN Rules[tree_cur[i].id]}} :
         i \in DOMAIN tree_cur}

(* random_recursive_mutation, on any edge; num is 1 << n.                  *)
RepeatCounts == {num \in 1..2^RRM_GROWTH : \E n \in 0..RRM_GROWTH : num = 2^n}
RecursiveAttempts ==
  {RepeatEdge(tree_cur, c, num) : c \in EdgeSet(tree_cur), num \in RepeatCounts}

(* tree->data_len after tree_to_buf.                                       *)
DataLen(t) == SumSeq([i \in DOMAIN t |-> TextLen[t[i].id][t[i].rule]])
GrowsTooMuch(t) == DataLen(t) > 2^RRM_GROWTH + DataLen(tree_cur)

(* Attempts are repeated while they grow too much, MaxAttempts times: the  *)
(* last one is kept whatever its size.                                     *)
RecursiveMutants ==
  {t \in RecursiveAttempts :
     \E failed \in 0..MaxAttempts :
       /\ failed > 0 => \E other \in RecursiveAttempts : GrowsTooMuch(other)
       /\ failed < MaxAttempts => ~GrowsTooMuch(t)
       /\ failed = MaxAttempts => GrowsTooMuch(t)}

(* splicing_mutation: a node gives way to a chunk of the same type.  There *)
(* always is one: tree_cur itself was handed to the chunk store.           *)
(* Mutant: a chunk of any type.                                            *)
AlternativesOfAnyType(id) == UNION {{Subtree(s, i) : i \in DOMAIN s} : s \in chunks}
Alternatives(id) ==
  UNION {{Subtree(s, i) : i \in {j \in DOMAIN s : s[j].id = id}} : s \in chunks}

SplicingMutants ==
  UNION {{ReplaceSubtree(tree_cur, i, m) : m \in Alternatives(tree_cur[i].id)} :
         i \in DOMAIN tree_cur}

-----------------------------------------------------------------------------
(* "update internal status": the step just made is counted, and every      *)
(* stage whose steps are used up is left, in turn.                         *)
(* Mutant: the recursive stage is not left when it has no steps.           *)
Leave(pos, k) == IF pos[1] = k /\ pos[2] >= total[k] THEN <<k+1, 0>> ELSE pos
NextPositionOnce ==
  LET pos == <<stage, step+1>> IN Leave(pos, stage)
NextPosition == Leave(Leave(Leave(Leave(<<stage, step+1>>, 0), 1), 2), 3)

(* Where the rules walk goes on.  Mutant: at the rule it has just used.    *)
NextCandidateSame == WalkFrom(rules_node, rules_rule, nodes)
NextCandidate == WalkFrom(rules_node, rules_rule + 1, nodes)

(* The rest of afl_custom_fuzz once a mutation has produced t.             *)
Fuzzed(t) ==
  /\ mutated_tree' = t
  /\ stage' = NextPosition[1]
  /\ step' = NextPosition[2]
  /\ IF stage' = 0
     THEN WalkTo(NextCandidate)
     ELSE UNCHANGED walkVars
  /\ out_size' = IF DataLen(t) <= MaxSize THEN DataLen(t) ELSE MaxSize
  /\ stage_cur' = stage_cur + 1
  /\ pc' = IF out_size' > 0 THEN "target"
           ELSE IF stage_cur' < stage_max THEN "fuzz" ELSE "idle"
  /\ UNCHANGED <<tree_cur, total, config, chunks, saved, stage_max, unfuzzed>>

FuzzRules == pc = "fuzz" /\ stage = 0 /\ rules_node # 0 /\ \E t \in RulesMutants : Fuzzed(t)
FuzzRandom == pc = "fuzz" /\ stage = 1 /\ \E t \in RandomMutants : Fuzzed(t)
FuzzRecursive == pc = "fuzz" /\ stage = 2 /\ \E t \in RecursiveMutants : Fuzzed(t)
FuzzSplicing == pc = "fuzz" /\ stage = 3 /\ \E t \in SplicingMutants : Fuzzed(t)

Fuzz == FuzzRules \/ FuzzRandom \/ FuzzRecursive \/ FuzzSplicing

NextCall == IF stage_cur < stage_max THEN "fuzz" ELSE "idle"

(* The target ran: nothing new ...                                         *)
NotInteresting ==
  /\ pc = "target"
  /\ pc' = NextCall
  /\ UNCHANGED <<tree_cur, mutated_tree, walkVars, stage, step, total, config,
                 chunks, saved, out_size, stage_cur, stage_max, unfuzzed>>

(* ... or a new queue entry: afl_custom_queue_new_entry.  Mutant: the tree *)
(* is not handed to the chunk store.                                       *)
QueueNewEntryNotStored ==
  /\ pc = "target"
  /\ Cardinality(saved) < MaxFinds
  /\ saved' = saved \cup {mutated_tree}
  /\ mutated_tree' = <<>>
  /\ pc' = NextCall
  /\ UNCHANGED <<tree_cur, walkVars, stage, step, total, config, chunks,
                 out_size, stage_cur, stage_max, unfuzzed>>

QueueNewEntry ==
  /\ pc = "target"
  /\ Cardinality(saved) < MaxFinds
  /\ saved' = saved \cup {mutated_tree}
  /\ chunks' = chunks \cup {mutated_tree}
  /\ mutated_tree' = <<>>
  /\ pc' = NextCall
  /\ UNCHANGED <<tree_cur, walkVars, stage, step, total, config, out_size,
                 stage_cur, stage_max, unfuzzed>>

Finished == pc = "idle" /\ unfuzzed = {} /\ UNCHANGED vars

FuzzStep == FuzzCount \/ Fuzz \/ NotInteresting \/ QueueNewEntry
Next == (\E e \in Entries : QueueGet(e)) \/ FuzzStep \/ Finished

Spec == Init /\ [][Next]_vars

-----------------------------------------------------------------------------
TypeOK ==
  /\ tree_cur \in Seq(Node) /\ mutated_tree \in Seq(Node)
  /\ nodes \in Seq(Nat \ {0})
  /\ stage \in 0..4 /\ step \in Nat
  /\ rules_node \in Nat /\ rules_rule \in Nat
  /\ total \in [0..3 -> Nat] /\ config \in [1..3 -> Nat]
  /\ chunks \subseteq Seq(Node) /\ saved \subseteq chunks
  /\ out_size \in 0..MaxSize
  /\ pc \in {"idle", "count", "fuzz", "target"}
  /\ stage_cur \in Nat /\ stage_max \in Nat /\ unfuzzed \subseteq Entries

(* Every call of afl_custom_fuzz that afl_custom_fuzz_count announced finds *)
(* its mutation possible: the stage is one of the four, the rules walk has *)
(* not run out of nodes (the NULL of list_pop_front is never dereferenced) *)
(* and names a rule that rules_mutation accepts, and there is a recursion  *)
(* edge to repeat.  So no call ends in a "mutation error".                 *)
CandidateReady ==
  pc = "fuzz" =>
    /\ stage \in 0..3
    /\ stage = 0 => /\ rules_node \in DOMAIN tree_cur
                    /\ rules_rule \in DOMAIN Rules[tree_cur[rules_node].id]
                    /\ rules_rule # tree_cur[rules_node].rule
    /\ stage = 2 => EdgeSet(tree_cur) # {}

(* A mutation never makes a node with children the grammar does not give   *)
(* it: what a mutant holds besides the grammar's own expansions was parsed *)
(* that way from some test case, and reached the mutant whole.             *)
MutantsFollowTheGrammar ==
  /\ mutated_tree # <<>> => IsTree(mutated_tree)
  /\ Shapes(mutated_tree) \subseteq
       GrammarShapes \cup UNION {Shapes(EntryTree[e]) : e \in Entries \ unfuzzed}

(* The comment in afl_custom_fuzz on random recursive mutation: "Make sure *)
(* that the mutation doesn't grow more than RRM_GROWTH bytes per attempt!" *)
(* (2^RRM_GROWTH bytes, the comment where RRM_GROWTH is defined says).     *)
RecursiveGrowthBounded ==
  [][FuzzRecursive => DataLen(mutated_tree') <= 2^RRM_GROWTH + DataLen(tree_cur)]_vars
=============================================================================
