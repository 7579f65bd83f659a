# Grammar-Mutator in TLA+

A verification development for the grammar mutator of AFL++ (the C library that
`afl-fuzz` loads as a custom mutator): models of its parts, TLC configurations
that check them on small grammars and trees, and TLAPS proofs of the trimming and
fuzzing protocols, of the chunk store, of sessions with tree files, of the grammar
build and of the generated functions, for every grammar and every tree.

## 1. The system

`afl-fuzz` keeps a queue of test cases. For every entry the mutator keeps the
derivation tree of the test case, in memory while the entry is worked on
(`tree_cur`) and in a file `trees/<name>` beside `queue/<name>`. The library has
one thread; what makes it hard is the *protocol*: it is called through a dozen
hooks, keeps its position in pointers, counters and half-consumed lists between
the calls, and promises numbers to a caller that it must later meet exactly.

| part | code | state it keeps | operations |
|---|---|---|---|
| trees | `src/tree.c` | nodes with parent pointers, subtree sizes, two work lists per tree | create, clone, free, relink, size, pick, serialize |
| trimming | `grammar_mutator.c` 257-436, `tree_trimming.c` | stage, two step counters with totals, two "finished" counters, `trimmed_tree` | `init_trim`, `trim`, `post_trim` |
| fuzzing | `grammar_mutator.c` 438-738, `tree_mutation.c` | stage, step, four totals, position of the rules walk, `mutated_tree` | `fuzz_count`, `fuzz`, `queue_new_entry` |
| loading | `grammar_mutator.c` 130-254, `tree.c` 788-908 | `tree_cur`, `tree_fn_cur`, files under `trees/` | `queue_get`, read, parse, write |
| chunk store | `chunk_store.c` | a list of subtrees per symbol, a map of hashes seen | add a tree, take a random alternative, clear |
| list | `list.c` | doubly linked nodes | insert, append, remove, pop, get |
| grammar build | `grammars/f1_common.py`, `f1_c_gen.py`, `f1_g4_translate.py`, `nautilus_py_grammar_to_json.py` | costs per symbol and rule, order of the rules, pool of shortest trees | collect rules, cost fixpoint, cheap trees, write the two grammars |
| generated functions | written by `f1_c_gen.py`: `gen_node_*`, `gen_init__` | the budget of each call | a random tree of a symbol within a length |
| buffers | `include/helpers.h` | pointer and size | `next_pow2`, `maybe_grow` |
| parser shim | `lib/antlr4_shim` | none | parse tree to `tree_t` |

They interact as follows. `queue_get` reads or parses the entry's tree and hands
it to the chunk store. The trim hooks cut the tree down, asking the generator
for minimal subtrees, and at the end rewrite the tree file and feed the chunk
store. `fuzz_count` announces how many mutants `fuzz` will make; `fuzz` makes
them from the generator (rules and random mutation), from the tree itself
(random recursive mutation) or from the chunk store (splicing); when the target
finds one interesting, `queue_new_entry` writes its tree and stores its chunks.
Both protocols walk over the lists of non-terminal nodes and recursion edges
that the tree module builds. The numbers of symbols and rules that these
parts exchange were fixed before, by three computations of the build.

What makes each part correct:

* trimming - never asks for a candidate when there is none; the counters given to
  `afl-fuzz` account for the lists; it ends under any verdicts; nothing is tried
  twice; file, chunk store and queue agree in the end; the cut trees are trees;
* fuzzing - all announced calls succeed; the rules walk visits each replacement
  once; mutants are of the grammar; the announced numbers of mutations are made;
* loading - the tree file unparses to the queue file, also after a crash;
* chunk store - every subtree handed in can be drawn, no node is freed while a
  chunk reaches it, nothing is stored twice;
* tree operations - every node has one owner, the working tree is put back;
* list, buffers - the pointer structure implements a sequence, sizes never shrink
  below what was asked for;
* grammar build - the fixpoint ends with the least costs, the pool is finite, all
  parts number the rules alike, as far as ANTLR's numbers are the written ones;
* generated functions - trees fit, and the calls end.

The hazards with their lines are in `PROJECT.json`.

## 2. Modules

| module | models | kind |
|---|---|---|
| `Trees` | a derivation tree as the preorder sequence of its non-terminals; subtrees, sizes, work lists, replacement and promotion | operators |
| `Trimming` | the three trim hooks and the trim loop of `afl-fuzz` | state machine |
| `TrimHistory` | `Trimming` with a record of what was tried | history variables |
| `MCTrimming` | a grammar of three symbols, three entries | TLC constants |
| `FuzzSchedule` | what `fuzz_count` promises: so many mutations of each kind, in order | abstract specification |
| `Fuzzing` | `fuzz_count`, `fuzz`, the four mutations, `queue_new_entry` and the fuzz loop of `afl-fuzz` | state machine |
| `FuzzHistory` | `Fuzzing` with a record of what was done, and the refinement of `FuzzSchedule` | history variables |
| `MCFuzzing` | a grammar of three symbols, three entries | TLC constants |
| `ChunkSet` | what the chunk store promises: a set of subtrees | abstract specification |
| `ChunkStore` | the chunk store on a heap of nodes, and the refinement of `ChunkSet` | state machine |
| `MCChunkStore` | trees that share subtrees | TLC constants |
| `TreeFiles` | serialization, and what `tree_deserialize` makes of any file | operators |
| `Session` | the queue, the tree files and the hooks around them over restarts and failing writes | state machine |
| `MCSession` | two entries, four trees of a small grammar | TLC constants |
| `TreeChanges` | what a tree operation promises: a changed copy, the working tree as before | abstract specification |
| `TreeOps` | the trim operators and mutations on a heap of nodes, and the refinement of `TreeChanges` | state machine |
| `MCTreeOps` | a grammar of two symbols | TLC constants |
| `GrammarCost` | the build: rules, cost fixpoint, order, cheap grammar, pool of trees | state machine |
| `Generator` | `GrammarCost`, then one call of a generated function | state machine |
| `ShippedGrammars` | the five grammars of `nautilus_py_grammars` | data |
| `MCGenerator` | which grammars are built and which generated from | TLC constants |
| `Sums` | the sum of a sequence of numbers, and a selection from a sequence | operators |
| `SumsProof` | least numbers, recursion over intervals and by a measure, ranks in an ordered set; sums and selections | proofs |
| `TreesProof` | lemmas on trees and their recursion edges | proofs |
| `TrimmingProof` | the trimming protocol and its history | proofs |
| `ChunkStoreProof` | ownership of the nodes while duplicates are freed, what hashes determine, the refinement of `ChunkSet` | proofs |
| `FuzzingProof` | the fuzzing protocol, its history and the schedule it implements | proofs |
| `GrammarCostProof` | the cost fixpoint, the two programs, the pool of trees | proofs |
| `GeneratorProof` | the generated functions and their budgets | proofs |
| `SessionProof` | reading back tree files, whole and cut off; sessions over restarts and faults | proofs |

### Trees

A `tree_t` becomes the sequence of its non-terminal nodes in preorder, each with
its symbol and depth; a subtree is then a contiguous segment, an index plays the
part of a `node_t *`, `non_term_size` is the segment's length, and
`tree_get_non_terminal_nodes` returns the indices in order. A recursion edge is
named by its child. Terminals have no subnodes and no function modelled here
looks at one, so they are left out. `ReplaceSubtree` is what `subtree_trimming`,
`rules_mutation`, `random_mutation` and `splicing_mutation` do to the tree;
`PromoteSubtree` is `recursive_trimming`. `RepeatEdge` is
`random_recursive_mutation`: `Tails` is its loop, in which a clone of what is left
of the parent's subtree gets the tail and becomes the tail. That the C code gets there by relinking
the current tree, cloning it and linking it back is not visible at this level; it
is in `TreeOps`.

### Trimming

One action per hook: `QueueGet`, `InitTrim`, `SubtreeTrim` and `RecursiveTrim`
(the two stages of `afl_custom_trim`), `PostTrim`. The variables are the fields
of `my_mutator_t`, named after them, the tree files, the chunk store (as the set of trees given
to it), and the variables of the loop of `afl-fuzz`. The verdict of the target and
the minimal subtree are free choices. The loop may be abandoned between `trim`
and `post_trim` (`Abort`); `afl-fuzz` writes its queue file after the loop
(`EndTrim`). `RecursionEdgeSize` and the other operators that
`PostTrim` is built from have mutated versions beside them, which state what a
plausible mistake would be; no action uses these.

`TrimHistory` gives every node an origin that survives cloning, so that "already
tried" has a meaning across the rebuilt trees.

### Fuzzing

`FuzzCount` and one action per stage of `afl_custom_fuzz`. The rules walk keeps
`cur_rules_mutation_node`, `cur_rules_mutation_rule_id` and the list popped so
far; `WalkFrom` is the `while (true)` loop that both hooks contain, with node 0
for the NULL that popping an empty list would give. `NextPosition` is the cascade
of four checks that advances stage and step. Nodes carry their rule number, and a
node the parser found in error has the number `NoRule` (2^32-1 in the code).
Text is its length, which matters twice: for the growth bound of the random
recursive mutation and for `max_size`. The branch of `afl_custom_fuzz` without a
current tree is left out: `fuzz_count` returns 0 then and `afl-fuzz` does not
call `fuzz`.

`FuzzSchedule` says what the two hooks promise together. The refinement mapping
takes the four totals as the promise and the recorded mutations as what was performed.

### ChunkStore

Nodes live on a heap (`heap`, from addresses to `node_t`) with subnode and parent
pointers. `AddTree` is `chunk_store_add_tree` up to the call of
`chunk_store_take_node`; each step of that recursive function is an action:
`TakeDuplicate` (patch the parent, free the duplicate and all below it), `TakeNew` (record
hash and list entry, enter the loop over the subnodes) and `Return`; `calls` is the
stack of the loops in progress. `MaxNodes` bounds the nodes of an input, and so the depth to which
`Contents` and `Below` have to look. The hash is what `node_update_hash` feeds to
XXH3, which is taken to be injective. Unlike in `Trees`, terminals are nodes
(symbol 0). A node's value stands for its rule number and text.

The refinement mapping takes as the set what the lists hold and what is below the
nodes still to be taken: the tree enters the set when it is handed over, and
every step of the recursion has to leave the set as it is.

### TreeOps

A heap maps addresses to nodes with a parent pointer and subnode pointers, all that
`node_clone`, `node_free`, `node_set_subnode`, `node_replace_subnode` and
`node_get_parent_edge` look at. `subtree_trimming`, `rules_mutation` and
`recursive_trimming` link another subtree into the WORKING tree, clone it and
link the old one back; `random_mutation`, `splicing_mutation` and
`random_recursive_mutation` clone first. The library has one thread, so each function
is one action; its LET names the heap after each step of the function, in
order, and the invariants look at what is left behind. `Adopt` and `Discard` are
what the callers do with the result (`afl_custom_post_trim`, the next
`afl_custom_fuzz`). The refinement mapping reads both trees off the heap:
`ImplementsTreeChanges` says that they are the operators of `Trees`, the ones
that `Trimming` and `Fuzzing` are written with, and that the working tree comes
out of each call as it went in.

### TreeFiles and Session

`TreeFiles` has trees with all their nodes, terminals too, and files as sequences of cells (a 32
bit field, or a byte of a value), so that a file may end inside a node, inside a value or
between two nodes. `NotEnoughData` is the check of `_node_deserialize` with its unsigned
subtraction: once a value has run past the end of the file the difference is huge and the check
no longer stops anything. The comparison at the end of `tree_deserialize` has to catch that, if
the reader comes so far: between the end of the file and the end of its last page (`Mapped`) it
reads zeros (`Cell`), and behind that page (`RunsOff`) nothing need be mapped. `MayFault` says
that a reading of a file ends there. In the program that is a fault, or, where something else
happens to be mapped, a reading that goes on with a consumed size which only grows, and ends in
a fault later or in the NULL of the last comparison: `Deserialize` is NULL, and `ReadFault` of
`Session` is the fault. So one tree file that a crash or a full disk has cut in a value can
kill `afl-fuzz` each time it takes up the entry, in later sessions too: a partial file is never
taken for a tree (`PartialFilesNotAccepted`), but it is not always rejected either.

`Session` is the composition: `afl-fuzz` adds the seeds, moves them to `queue/`, and then takes
up entries, trims them, runs the custom mutator stage and the havoc stage, keeps finds, imports
test cases and may be killed, or die of a tree file it reads, and be run again on the same
folder. The trim loop and the mutator stage are reduced to their results (any tree that may come
out), because `Trimming` and `Fuzzing` have their details. `QueueGet` and `QueueNewEntry` are
whole, with `tree_fn_cur` and the order of reading, parsing, writing and storing. `WriteTree`
has the outcomes of `write_tree_to_file`: all of it, any prefix of it, or a file that could not
be opened and keeps what it had. Two history variables say what was last to be written to a file
(`written`) and which entries one of four causes has hit (`excused`):

* a mutant longer than `max_size`, of which the queue file holds the beginning;
* a find of the havoc stage, which is stored with the last mutant of the stage before;
* a restart between the last `post_trim` and the writing of the test case;
* a tree file that could not be opened when the trimmed tree was to be saved
  (and a `trees` folder that could not be created, which leaves no tree at all).

`TreeFilesMatch` says that there is no fifth. That they exist follows from the
order of the calls; the first needs no fault, and is the run `cut_mutant`.

### GrammarCost, Generator and ShippedGrammars

A rule is reduced to the number of characters of its text and its keys in order, which is all
that costs, lengths and calls depend on. `GrammarCost` is the build, statement by statement
where the order matters: `VisitRule`, `NextKey` and `EndPass` are the three loops of
`compute_cost`, which changes `key_cost` while a pass notes costs down; `OrderRules` is
`PooledFuzzer.__init__`; and the recursion of `get_trees_for_key` is a stack of calls
(`CallSubnode`, `NextCheapRule`, `ReturnTrees`). `Translate` is the second program, which
computes the costs again, writes the grammar of the parser in that order, and starts it from the
symbols that no rule uses. Which numbers the nodes of a parse tree get is ANTLR's affair
(`RuleIds`): those of the rules as they are written, but not for a left-recursive key, whose
rule ANTLR rewrites; for these keys (`LeftRecursive`) the number is left open.
`grammars/README.md` of the program advises against such grammars, but three of the five that
are shipped have some: `EXPR` of `javascript_new`, `EXPR` and `FUNCTIONCALL` of `lua` (each
through the other, which ANTLR may not accept at all), and `Domainlabel` of `url_schema`.
`ProgramsAgree` claims nothing of their rules in the parser. Rules of equal cost are sorted by their
text in the code and by their place in the file in the model. A list of more than 255 trees is
sampled in the code; the model keeps the set of lengths, which sampling can only reduce.

`Generator` goes on with one call of a generated function, by any of its callers,
as a stack of C calls with the variables of `gen_node_*`. `random_below` is a free
choice. The pool branch declares a `consumed` of its own, so the caller's
`subnode_consumed` keeps the value of an earlier subnode: `Unchanged` is that
value, and `ConsumedIsLength` says that it never matters.

`ShippedGrammars` lists the calls of `ctx.rule` of the five files; of rules that
differ only in terminal text the shortest and the longest of each section are kept,
since only these can change a cost. The four small grammars of `MCGenerator`
have what the shipped ones lack: a symbol that gets cheaper in each of several passes, a
symbol without finite text, empty lists, recursion on both sides.

## 3. Runs

| run | checks | shows |
|---|---|---|
| `trimming` (14,725 states) | `TypeOK NeverPopsEmpty StepsMatchLists KeptTreeIsSaved TrimmedTreesAreSound NothingTriedTwice FailuresTryEverything ProgressGrows TrimTerminates` | the trimming protocol is sound under every sequence of verdicts |
| `every_node_tried` | `EveryNodeTried` is violated | `post_trim` skips one node too many after a success |
| `fuzzing` (9,542 states) | `TypeOK CandidateReady MutantsFollowTheGrammar RulesTriedOnce RulesStageComplete SchedulePerformed` | the fuzzing protocol keeps its promises |
| `random_steps` | `RandomStepsHonoured` is violated | a random mutation is made though none is configured |
| `recursive_growth` | `RecursiveGrowthBounded` is violated | the retry loop ends with a mutant over the bound |
| `chunk_store` (414 states) | `TypeOK NoDanglingPointer FreedExactlyOnce DuplicatesAreExclusive ChunksAreDistinct IsASetOfSubtrees` | ownership of shared nodes, and the refinement of `ChunkSet` |
| `equal_hashes` | `EqualHashesMeanEqualNodes` is violated | the hash does not determine the subtree |
| `session` (158,320 states) | `TypeOK PartialFilesNotAccepted TreeFilesMatch WorkingTreeIsTheEntrys EveryEntryCanBeSpliced` | tree files over faults and restarts |
| `cut_mutant` | `TreeFilesCorrespond` is violated | a cut mutant is saved with its whole tree |
| `tree_ops` (9,594 states) | `TypeOK HeapIsSound ImplementsTreeChanges` | ownership and parent pointers, and the refinement of `TreeChanges` |
| `generator` (34,201 states) | `TypeOK CostsAreLeast CostsBelongToRules ProgramsAgree PoolTreesAreShortest NoCallInsideItself AllFittingRulesMayBeChosen LengthWithinMax ConsumedIsLength BudgetShrinks BuildEnds` | the build and the generated functions |
| `completion_trees` | `NoCallInsideItself` is violated | the build of the URL grammar does not end |

The violated properties state what comments and the README of the program say:

* `post_trim` pops the replaced node from the new list and then `non_term_size`
  nodes more; `non_term_size` counts the node, so the node behind the replaced
  subtree is never tried, though the comment speaks of the node and its children.
* `RANDOM_MUTATION_STEPS=0` is not honoured for a tree whose nodes have no other
  rule: `fuzz_count` enters the random stage without looking at its total.
* the loop around `random_recursive_mutation` breaks after eight failures and
  then uses the tree that failed.
* the comment on `hash_node` says it uses the fields `node_equal` uses; it leaves out
  `subnode_count`, and the parser gives every node in error the same rule number,
  so that two such nodes of different shape can hash alike and one is dropped.
* `queue_get` reads "the corresponding serialized tree", but the tree of a mutant that
  `fuzz` has cut to `max_size` is saved whole; trimming and mutation then work on
  a tree that does not unparse to the test case.
* the documentation says that the nautilus grammars can be converted and used;
  `url_schema.py` has the rule `Domainlabel -> Domainlabel`, which costs as much as
  the cheapest rule and therefore is one, and `get_trees_for_key` follows it for ever.

None of the first four breaks a safety property of the protocols: counters and lists stay in
step, and a subtree that is dropped is only never spliced.

**Bounds.** `MCTrimming`: trees of up to six nodes, with edges under both children
of the root, an edge below a non-edge, and one node alone; minimal trees that are
larger than what they replace, and a choice between two. That is the least with
which the rebuilt lists overlap, shrink and shift in every way `post_trim`
distinguishes; the proofs cover the rest. `MCFuzzing`: one recursive symbol, one with
alternatives, one with a single rule; an entry with a node in error; every
combination of one or two random, zero or one recursive and zero or one splicing
steps; one find (`MaxFinds`), so that a mutant reaches the chunk store and is
spliced from it. `RRM_GROWTH` and `MaxAttempts` are 1 and 2 instead of 10 and 8: one attempt
below and one above the bound exist; `MaxSize` is small enough to cut some mutants.

`MCChunkStore`: a tree, one that has it twice (siblings, so that a duplicate is freed while
the loop over its parent is running) and one that has the second below it; with them
a duplicate is a root, an inner node and a terminal, and a parent is patched at its
first and its later subnodes. Twelve addresses hold all that is kept and one
clone of the largest tree.

`MCSession`: two entries, one of them a seed with its tree file, the other free for a find or an
import; texts of one to three characters with `MaxSize` 2, so that one mutant is cut; a text
that the parser cannot read whole; two faults (`MaxFaults`), which may be a short write at every
possible length, a failing open, a failing folder, or a restart. Two faults allow a restart
after a short write, the longest chain that matters: every write is of one file and overwrites
it. With `AFL_CUSTOM_MUTATOR_ONLY`, which the README of the program recommends, `HavocTexts` is
empty (as in `cut_mutant`). A page has nine cells (`PageSize`), about two nodes: among the
cut files are then some that end with a page and some that end in the middle of one, in a value
and elsewhere. The theorem `NoPartialTreeIsAccepted` covers every other size of a page.

`MCTreeOps`: trees of up to four nodes with edges to a first and to a last child and a sibling
between them, adopted again and again (`MaxNodes`); `GROWTH` 1, so that an edge is repeated once or
twice; twenty addresses hold two trees and what is made on the way.

`MCGenerator`: all rules of four shipped grammars are built (the fifth is the run
`completion_trees`), and texts are generated from two small ones with every length from 0 to 5
and `max_tree_len` 10, which no rule with subnodes exceeds, as none exceeds 1000 in the code.
The bound on the stack in `CallSubnode` stands for Python's recursion limit and is one above
what a build without a call inside itself can reach.

**Fairness.** Only the steps of a loop that has been entered are weakly fair
(`TrimStep`, `HFuzzStep`): `afl-fuzz` runs the hooks and its loop in one thread and
does nothing else in between. Taking up the next entry is not assumed to happen.
`TrimTerminates` needs no assumption on the verdicts.
`BuildEnds` has weak fairness of the steps of the build, a single process that runs until it is done.

**Deadlock** is checked in all passing runs; the `Finished` steps mark the states in which
there is nothing left to do.

## 4. Proofs

The proof modules establish, for every value of the constants under the assumptions
named below:

| module | theorem | property |
|---|---|---|
| `TrimmingProof` | `TrimTypeOK` | `TypeOK` - among others, no counter goes below zero |
| | `TrimNeverPopsEmpty` | `NeverPopsEmpty` |
| | `TrimStepsMatchLists` | `StepsMatchLists` |
| | `TrimKeptTreeIsSaved` | `KeptTreeIsSaved` |
| | `TrimTreesAreSound` | `TrimmedTreesAreSound` |
| | `TrimProgressGrows` | `ProgressGrows` |
| | `TrimNothingTriedTwice` | `NothingTriedTwice` |
| | `TrimFailuresTryEverything` | `FailuresTryEverything` |
| `ChunkStoreProof` | `ChunkTypeOK` | `TypeOK` |
| | `ChunkNoDanglingPointer` | `NoDanglingPointer` |
| | `ChunkFreedExactlyOnce` | `FreedExactlyOnce` |
| | `ChunkDuplicatesAreExclusive` | `DuplicatesAreExclusive` |
| | `ChunksStayDistinct` | `ChunksAreDistinct` |
| | `ChunkEqualHashes` | `EqualHashesMeanEqualNodes`, for trees of fixed arity (`FixedArity`) |
| | `ChunkStoreIsASetOfSubtrees` | `IsASetOfSubtrees`, the refinement of `ChunkSet`, for trees of fixed arity |
| `FuzzingProof` | `FuzzingTypeOK` | `TypeOK` |
| | `MutationAlwaysPossible` | `CandidateReady` |
| | `NoReplacementTriedTwice` | `RulesTriedOnce` |
| | `RulesStageTriesAll` | `RulesStageComplete` |
| | `ScheduleIsKept` | the safety part of `SchedulePerformed`: every step is a step of `FuzzSchedule` or a stutter |
| | `MutantsAreDerivations` | `MutantsFollowTheGrammar` |
| `GrammarCostProof` | `BuildTypes` | `BuildTypeOK` |
| | `ShortestCosts` | `CostsAreLeast` |
| | `TablesAreExact` | `CostsBelongToRules` |
| | `PoolRuleIds` | the part `PoolRulesComeFirst` of `ProgramsAgree` |
| | `StartCanBeParsed` | of `ProgramsAgree` the part about the start, if no rule uses the first key (`StartUnused`) |
| | `ShortestPools` | `PoolTreesAreShortest` |
| | `CompletionEnds` | `NoCallInsideItself`, if no key leads back to itself by cheapest rules without other text (`CheapestRulesEnd`) |
| `GeneratorProof` | `GeneratorBuilds` | the generator's runs are runs of the build |
| | `RulesDrawnFit` | `AllFittingRulesMayBeChosen` |
| | `GeneratorTypes` | `TypeOK`, if every rule fits `max_tree_len` (`AllRulesFit`) |
| | `TextsWithinBudget` | `LengthWithinMax`, if every rule with subnodes fits (`RulesFit`) |
| | `ConsumedIsTheLength` | `ConsumedIsLength`, if every rule with subnodes fits |
| | `RecursionEnds` | `BudgetShrinks`, if every rule with subnodes fits and no key leads back to itself by rules without other text (`RulesEnd`) |
| `SessionProof` | `FilesAreReadBack` | `Deserialize(Serialize(t)) = t` and no reading off the end, for every whole tree `t` |
| | `SessionTypeOK` | `TypeOK` |
| | `NoPartialTreeIsAccepted` | `PartialFilesNotAccepted`, for every `PageSize` |
| | `TreeFilesStayMatched` | `TreeFilesMatch` |
| | `WorkingTreeStaysTheEntrys` | `WorkingTreeIsTheEntrys` |
| | `QueueIsInTheChunkStore` | `EveryEntryCanBeSpliced` |

### The trimming protocol

The theorems rest on `MinTreesAssumption` (a minimal tree is a tree of its symbol without
recursion edges, because it is built from cheapest rules only and the generator
could not have expanded them had they a cycle) and `EntryTreeAssumption` (a tree
file holds a tree).

None of the invariants is inductive alone. `IInv` adds what the hooks rely on:
in the subtree stage the node list is what is left of the preorder behind the
`finished_nodes` first nodes and the edge list is untouched (`SubtreeStage`); in the
recursive stage the node list is empty and `finished_nodes` is past the end of any
later tree, so that the popping of nodes that `post_trim` still does then
changes nothing (`RecursiveStage`); between `trim` and `post_trim`, one candidate
has left its list and is not counted, and the trimmed tree is such that rebuilding
the lists leaves fewer candidates (`Trimmed`); a promotion takes an edge away and a
replacement adds none, so `total_recursive_steps` bounds every later edge list
(`EdgesBounded`); and the tree file is behind the current tree only inside a loop
with a success (`Filed`). The lemmas that carry this are about trees:
`ReplaceIsTree` (replacing a subtree by a tree gives a tree), `ReplaceEdges` (where
the edges of the new tree come from), `PromoteShrinks` (a promotion makes the tree
and its edge set smaller) and `AscendingMembers` (the edge list holds each edge
once). `IInv` itself has been checked with TLC on the constants of `MCTrimming`.

The two properties of `TrimHistory` need `HistoryInv` beside it. Of the nodes tried and the edges
tried it says where they are in the trees: in a tree as long as its origins, what lies behind
the place the walk has reached is untried and has an origin of its own (`NodesUntried`,
`EdgesUntried`), both for the current tree (`CurrentUntried`) and, between `trim` and `post_trim`,
for the trimmed one behind the place where `post_trim` will resume (`TrimmedUntried`). A cut
shifts the nodes behind it, a promotion moves them up: the lemmas say where each node, and each
edge, of the new tree comes from. `AllFailed` is for the second property: while all
trims have failed the tree still is the one the loop began with, and what was tried is just
what the counters say.

### The chunk store

Assumed are finitely many addresses (`AddrAssumption`) and that each input is a tree of at most
`MaxNodes` nodes (`InputsAssumption`). Which trees share which subtrees is left open.

`OwnInv` describes the heap in the middle of `chunk_store_take_node`. `Untaken` are the nodes
of a clone that no list holds yet. `HeapHolds`: what is below an untaken node is untaken, and an
untaken node is the subnode of one node at one place, its parent; a node that has been taken may
have many parents above it and its `parent` field names only the last, but never a node of
the clone that is not taken. `CallsHold`: each call in progress belongs to another node that
is in a list, and the subnodes it has still to come to are untaken. `AllReached`:
each untaken node is below another or ahead of a call. `Deep`: untaken nodes have
depths, so that there are no cycles among them and `Below` finds all it should. With these,
the nodes freed with a duplicate form a tree that is entered only at its root (`BelowOwned`,
`OwnSubtree`), from the call that is about to overwrite that very pointer; and when the stack of
calls is empty nothing is untaken (`NothingUntaken`). The unconditional invariants
follow. `OwnInv` has been checked with TLC on the constants of `MCChunkStore`.

`HashInv` is about what is hashed: there is a function that satisfies, at each live node, the
equation by which `hash_node` recurses (`IsFlat`), and the hash map leads from the hash of each
node in a list to that node. The function has at most `MaxNodes` entries at each node, so the
recursion of `Contents` is deep enough to be exact (`HashUnique`). A patch replaces a node by
one with the same hash and so changes the hash of none above it (`DuplicateHashed`). As a
tree that is handed over need not have been hashed yet, its clone's hashes are given by the
segments of the preorder sequence (`SegmentIs`, on `ChildrenFollow`: the children's
segments follow each other).

Patching keeps hashes, but need not keep shapes: that is what the run `equal_hashes` shows.
`ChunkEqualHashes` and `ChunkStoreIsASetOfSubtrees` have the hypothesis `FixedArity(Inputs)`:
nodes with the same symbol, rule and text have the same number of subnodes. It is true of the
trees of a grammar, where the rule determines the subnodes, when the rule number is that of the
rule: it is not true of trees with nodes in error, nor need it be of parsed trees with a
left-recursive key, to whose nodes ANTLR may give wrong numbers. With such trees the two can fail.
`InputsHaveFixedArity` has TLC evaluate it on the trees of `MCChunkStore`. Under it the hashes
determine the subtrees (`ContentsFromHash`), and no node's hashed sequence is the beginning of
another's (`HashDecodes`), so a sequence can be taken apart into those of the subnodes in one
way. For the refinement, this shows that a duplicate's subtrees all have equals below the node
that stays (`SameBelow`): nothing is lost when they are freed. `LiveReached` says that the
mapping's set, what is in the lists and below the nodes still to be taken, is that of all live
nodes.

### The fuzzing protocol

Assumed are a grammar whose symbols have finitely many rules, numbered from 0
(`RulesAssumption`), settings that are natural numbers (`SettingsAssumption`), a
generator that makes trees of the rule asked for (`GenTreesAssumption`), and entries
that are trees (`EntryTreeAssumption`), with nodes in error or not.

`IInv` is the conjunction of `TypeOK` and four parts. `TreesSound`: the working tree, the
mutant and all trees in the chunk store are trees. `Announcement`: the totals still are
those of the working tree, and the number given to `afl-fuzz` is their
sum. `InStage`: the calls made so far do not exceed what stage and step say, so a call that
`afl-fuzz` still has to make falls into a stage with a step left; the one stage that can
be entered without a step left is stage 1, where `fuzz_count` starts
for a tree without replacements - the cause of `random_steps`. `Walk`: in the rules
stage the walk is at a replacement, its list is what is behind its node, and at
least as many replacements lie ahead of it as the stage has steps. The latter is
what keeps `WalkFrom` from running into the NULL of an empty list: the sum that
`rules_mutation_count` computes is related to the set of replacements
(`SumsProof`), for a tree with nodes in error too, where the sum is too small.

`NoReplacementTriedTwice` and `RulesStageTriesAll` need `TriedSoFar`: what has been
tried are replacements, one for each step made, and none of those still ahead of the walk;
when no node is in error, their number can then only be that of all replacements. `ScheduleIsKept` needs
`Keeping`: the mutations performed are the totals of the stages left behind and the
steps of the current one. Its hypothesis `0 \notin RandomChoices` is the negation of the
finding above: with it, the refinement has a counterexample. `MutantsAreDerivations`
carries `ShapesKnown`: each node, of any tree that is kept anywhere, has the shape
(symbol, rule, children's symbols) of a rule of the grammar or of a node of some test
case. Its lemmas say of `ReplaceSubtree` and `RepeatEdge` which nodes of the new tree have
the shape of which node of the old ones.

### The grammar build

`CallsAssumption` says what a grammar file is: a sequence of calls of `ctx.rule`, whose keys
are keys of the file. Nothing is assumed of the rules: cycles, keys without
text and duplicate rules are all covered.

The invariant follows the phases. `Reading`, `KeysListed`: the grammar read so far is the
calls made so far, keys in order of first use. `Costing`: the entries noted down in
a pass are of different rules, of those already visited. `Pricing`: an entry is never
below the key's current cost, since costs only fall while a pass runs; and *a pass that notes
down the same as the one before has changed no cost* (`Repeats`), so that at the end
all entries are exact and every rule with a cost has one. `Deriving`:
the order in which keys got their present cost is a ranking in which each key has a rule
that reaches its cost from keys before it; hence the `Derived` of
`CostsAreLeast`. The ranking is needed since costs alone
do not order the keys: rules without text have cost 0.

After the fixpoint, `Tabling` says that the tables are sorted, exact and, in the new order of
the rules, their numbers are the places, which with the sort gives `PoolRuleIds`; `Origin` that
all rules are of the file and the first key is that of its first call, and `Parsing` what the
parser starts from. That the second program sorts the rules like the first is left to the run:
both sorts are given in the model. The parser starts from the keys that no rule uses, so the
first key is among them only if no rule uses it: `StartUnused` is this hypothesis, and the code
does not check it. `Pooling` describes the stack of `get_trees_for_key`: in each call the texts
so far have the length of the rule's text and the costs of its keys up to the present one, all
rules behind gave the key's cost, and each call is made for the key at the caller's place.

`CompletionEnds` follows from it: along the stack the cost of the key never grows, as a rule
costs no less than each of its keys (`CostAboveKeys`), and where it stays the same the
rank of the hypothesis falls (`FallsFurther`). `CheapestRulesEnd` asks for a rank only of pairs of keys
with the same cost: keys that a cheapest rule makes with text around them, or beside keys
that are not empty, are cheaper anyway. It cannot be dispensed with: it fails for the URL grammar, where
the build fails with it (`completion_trees`). Evaluated with TLC, it holds for the other four
shipped grammars and the small ones of `MCGenerator`.

### The generated functions

`GeneratorBuilds` carries all of the above over. `GeneratorAssumption` asks that the files
texts are generated from have a first rule (`gen_init__` calls `gen_funcs[1]`).
`Generating` says of each call on the stack (`NodeFrame`, `Open`) that
length, remaining budget and the least costs of the subnodes to come add up to `max_len`; and
of a call that waits for another (`Waits`), that it has set aside the subnode's least cost
and what it gave in excess is part of `remaining_len`. As every subnode is called with at
least the least cost of its key, the branch that takes a tree from the pool
is reached only in the outermost call, where the parameter it hides is the 0 of the caller: so
`ConsumedIsLength` holds. `PoolsMade` says that the generated program has a
pool for each key.

`RulesFit` is the hypothesis that no rule with subnodes costs more than `max_tree_len`. It is
needed, as `rules_mutation` asks for a rule by number and `gen_node_*` does not compare its cost
with the budget. The code does not check it either. TLC has checked it for the five shipped
grammars with the `max_tree_len` of the code, 1000. There is one rule that is longer, a
`NAUGHTYSTRING` of 1887 characters in two of them: it is only text, so its negative
`remaining_len` is given to no subnode (`NoDebt`), and it can only be asked for in an outermost
call (`Waits`), so no caller counts on its length. `AllRulesFit` excludes such rules too; only
`GeneratorTypes`, which says that no budget is negative, needs that. `RulesDrawnFit` needs
neither.

`RecursionEnds`: a subnode gets no more than its caller's `remaining_len`, so its `max_len` is
that of the caller only if the caller has made no text so far and needs none after it. Then the
rule costs no more than this subnode's key, because a call never returns less than the least
cost of its key (`MadeEnough`: text made and least costs to come are no less than the rule's
cost, whether rules fit or not), and `RulesEnd` gives a smaller rank (`WholeBudget`). The
hypothesis is about all rules, since the generated functions draw from all that fit; it holds
where `CheapestRulesEnd` was found to, and it fails for a rule like `A -> A B` where `B` may be
empty.

### Tree files and sessions

Assumed of the machine is that a page is not empty (`PageSizeAssumption`). The reader never
stands still: each node consumes its four fields at least, and behind the end of the file, as
far as it is mapped, every cell reads as zero, so that only the nodes still owed are left to be
counted down. The measure "cells left, then nodes owed" (`ReaderShrinks`) makes the recursion of
`_node_deserialize` a function of the position and gives the induction for the facts that
matter. `CutFile`: a reading of a file's first `k` cells that does not fail and consumes no more
than `k` has met only cells that both files share, so the whole file gives the same; any other
is what the two checks of `tree_deserialize` reject. `FilesAreReadBack`: after `i` nodes of a
whole tree the reader is at the cell where node `i+1` begins and owes one plus the subnodes of
the first `i` nodes, minus `i` (`Layout`). `CutReads`: while the file is not cut in a value, a
reader at a node's first cell either has the whole node before it or finds too little left for
four fields; so it can run off the file only behind a cut value.

`TreesAssumption` says no more of the trees than that each is one whole tree (`WholeTree`: in
preorder, the nodes counted by `subnode_count` are there, which `node_init_subnodes` and
`node_set_subnode` see to) and that trims and mutants are among them. `ParseAssumption`,
`TextsAssumption`: whatever becomes a test case can be given to the parser, which returns such a
tree or NULL. `SeedsAssumption`: a tree file that is copied into the input folder with a seed is
the seed's.

`SessionInv` adds to the checked invariants what they need of the states in between. `Places`:
where `afl-fuzz` is decides which fields are set; in the custom mutator stage, until the find
has been stored, the new entry's test case is the output made of `mutated_tree`. `Working`: the
working tree is of the test case of `cur` while it is trimmed and fuzzed, and between the last
`post_trim` and the writing of the test case it is what the tree file holds, if that can be
read. `NothingYet`: an entry that does not exist yet has no tree file, so that a find is never
given an old one.

### What is only model-checked

Liveness under fairness (and `ENABLED`), induction over recursively defined data and
`RECURSIVE` operators are out of the prover's reach and stay with TLC; the modules
proved about use recursive functions only, and `SumsProof` derives what is needed of them from
the least element of a set of numbers.

* Liveness: `TrimTerminates`, `BuildEnds`, the fairness part of `SchedulePerformed`.
* That the shipped grammars meet the hypotheses about grammars (`CheapestRulesEnd`, `RulesEnd`,
  `RulesFit`): TLC has evaluated them as told above, in definitions that are not kept among the
  runs. The run `generator` checks what is concluded from them.
* The tree operations on the heap (`TypeOK`, `HeapIsSound` and `ImplementsTreeChanges` of
  `TreeOps`): each action is a chain of up to a dozen heaps with repeated clones, and what
  `node_free` frees is found by a recursion over all addresses.
* The two properties of the chunk store with trees in error in it, where they do not hold.

## 5. Plan

In order, with the specification each is to be checked against:

1. done: `Trees`, `Trimming`, `TrimHistory` and their proofs; `Fuzzing`,
   `FuzzHistory`, `FuzzSchedule`; `ChunkStore`, `ChunkSet`; `TreeOps`, `TreeChanges`;
   `TreeFiles`, `Session`; `GrammarCost`, `Generator`, `ShippedGrammars`.
2. done: the proofs of section 4. To come: the heap of `TreeOps`.
3. `List` against a sequence; `Buffers` over a bounded `size_t`.

Not modelled: the benchmark and the source formatter, which are no part of the running program; the hash
function, the hash map and the ANTLR runtime (third party, used by contract); the linked list's
pointers and the growing of buffers (planned); the layout, naming, escaping and encoding of the generated
C and ANTLR text; the grammars that are JSON files; and path names: an entry and
its tree file are one name, and the tags `orig:` and `_resume` are the phase `started`. By
far the most lines of Python are lists of names in the shipped grammars, one terminal rule each
(8,119 of them for one symbol of PHP); the model keeps their shortest and longest.
