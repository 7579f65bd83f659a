------------------------------ MODULE Trimming ------------------------------
(***************************************************************************)
(* The trimming protocol of src/src/grammar_mutator.c: the hooks           *)
(* afl_custom_init_trim, afl_custom_trim and afl_custom_post_trim, called  *)
(* by the trim loop of afl-fuzz, which is outside this repository.  The    *)
(* loop trims a queue entry once:                                          *)
(*                                                                         *)
(*   stage_cur = 0; stage_max = init_trim();                               *)
(*   while (stage_cur < stage_max) {                                       *)
(*     trim(); run the target; stage_cur = post_trim(success); }           *)
(*   write the last successful test case over the queue file;              *)
(*                                                                         *)
(* afl-fuzz may leave the loop, and stop, between trim and post_trim.  The *)
(* verdict "success" is the target's and is a free choice here.            *)
(*                                                                         *)
(* Node contents other than id and depth (rule, text) are left out: which  *)
(* subtrees are cut depends on the tree's shape alone.  A file holds the   *)
(* tree it was written from; a test case stands for the tree it unparses.  *)
(***************************************************************************)
EXTENDS Trees

CONSTANTS
  Ids,          \* the grammar's symbols (node types other than NODE_TERM__)
  MinTrees,     \* MinTrees[id]: the trees gen_funcs[id](0, ..) can return
  Entries,      \* queue entries to be trimmed
  EntryTree     \* EntryTree[e]: the tree that trees/<e> holds at first

Node == [id : Ids, depth : Nat]
TreeOf(id) == {t \in Seq(Node) : IsTree(t) /\ t[1].id = id}

(* What the generator emits for budget 0 uses only each symbol's cheapest  *)
(* rules.  completion_trees (grammars/f1_c_gen.py) expands all of those    *)
(* recursively, so it terminates only if they have no cycle: a minimal     *)
(* tree never repeats an id on a path, and has no recursion edge.          *)
ASSUME MinTreesAssumption ==
  \A id \in Ids : /\ MinTrees[id] # {}
                  /\ \A m \in MinTrees[id] : /\ m \in Seq(Node)
                                             /\ IsTree(m)
                                             /\ m[1].id = id
                                             /\ EdgeSet(m) = {}

ASSUME EntryTreeAssumption ==
  \A e \in Entries : /\ EntryTree[e] \in Seq(Node)
                     /\ IsTree(EntryTree[e])
                     /\ EntryTree[e][1].depth = 0

VARIABLES
  tree_cur,                  \* data->tree_cur; <<>> is NULL
  trimmed_tree,              \* data->trimmed_tree; <<>> is NULL
  nodes,                     \* tree_cur->non_terminal_node_list
  edges,                     \* tree_cur->recursion_edge_list
  stage,                     \* data->cur_trimming_stage
  trim_was_effective,
  cur_subtree_step,          \* data->cur_subtree_trimming_step
  finished_nodes,            \* data->finished_subtree_trimming_nodes
  total_subtree_steps,       \* data->total_subtree_trimming_steps
  cur_recursive_step,        \* data->cur_recursive_trimming_step
  finished_edges,            \* data->finished_recursive_trimming_edges
  total_recursive_steps,     \* data->total_recursive_trimming_steps
  tree_fn_cur,               \* the entry whose tree file is data->tree_fn_cur
  tree_file,                 \* [Entries -> tree], the files under trees/
  chunks,                    \* trees handed to chunk_store_add_tree
  pc, stage_cur, stage_max,  \* afl-fuzz: where its loop is, and its counters
  in_buf,                    \* afl-fuzz: the test case it keeps
  untrimmed                  \* afl-fuzz: entries with trim_done = 0

lists == <<nodes, edges>>
subtreeVars == <<cur_subtree_step, finished_nodes, total_subtree_steps>>
recursiveVars == <<cur_recursive_step, finished_edges, total_recursive_steps>>
fileVars == <<tree_fn_cur, tree_file, chunks>>
aflVars == <<pc, stage_cur, stage_max, in_buf, untrimmed>>
vars == <<tree_cur, trimmed_tree, lists, stage, trim_was_effective,
          subtreeVars, recursiveVars, fileVars, aflVars>>

-----------------------------------------------------------------------------
Init ==
  /\ tree_cur = <<>> /\ trimmed_tree = <<>>
  /\ nodes = <<>> /\ edges = <<>>
  /\ stage = 0 /\ trim_was_effective = FALSE
  /\ cur_subtree_step = 0 /\ finished_nodes = 0 /\ total_subtree_steps = 0
  /\ cur_recursive_step = 0 /\ finished_edges = 0 /\ total_recursive_steps = 0
  /\ tree_fn_cur \in Entries
  /\ tree_file = [e \in Entries |-> EntryTree[e]]
  /\ chunks = {}
  /\ pc = "idle" /\ stage_cur = 0 /\ stage_max = 0
  /\ in_buf = <<>> /\ untrimmed = Entries

(* fuzz_one takes entry e: afl_custom_queue_get loads its tree file.       *)
QueueGet(e) ==
  /\ pc = "idle"
  /\ e \in untrimmed
  /\ tree_cur' = tree_file[e]
  /\ tree_fn_cur' = e
  /\ chunks' = chunks \cup {tree_file[e]}
  /\ nodes' = <<>> /\ edges' = <<>>
  /\ in_buf' = tree_file[e]
  /\ pc' = "init"
  /\ UNCHANGED <<trimmed_tree, stage, trim_was_effective, subtreeVars,
                 recursiveVars, tree_file, stage_cur, stage_max, untrimmed>>

(* The sizes that queue_get computed with tree_get_size.  Mutant: it is     *)
(* not called, and recursion_edge_size is what calloc left.                *)
RecursionEdgeSizeUncomputed == 0
RecursionEdgeSize == Cardinality(EdgeSet(tree_cur))

(* afl_custom_init_trim.                                                   *)
InitTrim ==
  /\ pc = "init"
  /\ nodes' = NonTerminalNodes(tree_cur)
  /\ edges' = RecursionEdges(tree_cur)
  /\ stage' = 0
  /\ trim_was_effective' = FALSE
  /\ cur_subtree_step' = 0
  /\ finished_nodes' = 0
  /\ total_subtree_steps' = NonTermSize(tree_cur, 1)
  /\ cur_recursive_step' = 0
  /\ finished_edges' = 0
  /\ total_recursive_steps' = RecursionEdgeSize
  /\ stage_cur' = 0
  /\ stage_max' = total_subtree_steps' + total_recursive_steps'
  /\ pc' = IF stage_cur' < stage_max' THEN "trim" ELSE "write"
  /\ UNCHANGED <<tree_cur, trimmed_tree, fileVars, in_buf, untrimmed>>

-----------------------------------------------------------------------------
(* afl_custom_trim.  The C code pops the list and uses what it gets, so an *)
(* empty list would be a null dereference: the guards say the list is not  *)
(* empty, and NeverPopsEmpty that they always hold.                        *)

(* Mutant of SubtreeTrim: gen_funcs is indexed with the parent's type.     *)
SubtreeTrimOfParentType ==
  /\ pc = "trim" /\ stage = 0 /\ nodes # <<>>
  /\ LET i == Head(nodes)
         id == IF i = 1 THEN tree_cur[1].id ELSE tree_cur[ParentOf(tree_cur, i)].id
     IN  \E m \in MinTrees[id] : trimmed_tree' = ReplaceSubtree(tree_cur, i, m)
  /\ nodes' = Tail(nodes)
  /\ pc' = "run"
  /\ UNCHANGED <<tree_cur, edges, stage, trim_was_effective, subtreeVars,
                 recursiveVars, fileVars, stage_cur, stage_max, in_buf, untrimmed>>

(* Stage 0: the subtree of the next node gives way to a minimal one.       *)
SubtreeTrim ==
  /\ pc = "trim" /\ stage = 0 /\ nodes # <<>>
  /\ \E m \in MinTrees[tree_cur[Head(nodes)].id] :
       trimmed_tree' = ReplaceSubtree(tree_cur, Head(nodes), m)
  /\ nodes' = Tail(nodes)
  /\ pc' = "run"
  /\ UNCHANGED <<tree_cur, edges, stage, trim_was_effective, subtreeVars,
                 recursiveVars, fileVars, stage_cur, stage_max, in_buf, untrimmed>>

(* Stage 1: the child of the next recursion edge replaces its parent.      *)
RecursiveTrim ==
  /\ pc = "trim" /\ stage = 1 /\ edges # <<>>
  /\ trimmed_tree' = PromoteSubtree(tree_cur, Head(edges))
  /\ edges' = Tail(edges)
  /\ pc' = "run"
  /\ UNCHANGED <<tree_cur, nodes, stage, trim_was_effective, subtreeVars,
                 recursiveVars, fileVars, stage_cur, stage_max, in_buf, untrimmed>>

-----------------------------------------------------------------------------
(* After a success both lists are rebuilt from the trimmed tree, and what  *)
(* was tried before is popped off: finished_nodes nodes, then the node     *)
(* just replaced and as many nodes again as its non_term_size.             *)
(* Mutant: the replaced node is not skipped.                               *)
UntriedNodes == DropFirst(NonTerminalNodes(trimmed_tree), finished_nodes)

ReplacedNodesKept == 0
ReplacedNodes == IF UntriedNodes = <<>>
                 THEN 0 ELSE 1 + NonTermSize(trimmed_tree, Head(UntriedNodes))

(* The edges tried before are popped off; mutant: they are not.            *)
UntriedEdgesAll == RecursionEdges(trimmed_tree)
UntriedEdges == DropFirst(RecursionEdges(trimmed_tree), finished_edges)

(* afl_custom_post_trim, success: the trimmed tree becomes the current one. *)
KeepTrimmed ==
  /\ trim_was_effective' = TRUE
  /\ tree_cur' = trimmed_tree
  /\ in_buf' = trimmed_tree
  /\ nodes' = DropFirst(UntriedNodes, ReplacedNodes)
  /\ finished_nodes' = finished_nodes + ReplacedNodes
  /\ cur_subtree_step' = total_subtree_steps - Len(nodes')
  /\ edges' = UntriedEdges
  /\ cur_recursive_step' = total_recursive_steps - Len(edges')
  /\ UNCHANGED finished_edges

(* Mutants of DiscardTrimmed: the second stage's counters run from the     *)
(* start; the lists are rebuilt as if the trim had succeeded.              *)
DiscardTrimmedCountsBoth ==
  /\ cur_subtree_step' = cur_subtree_step + 1
  /\ finished_nodes' = finished_nodes + 1
  /\ cur_recursive_step' = cur_recursive_step + 1
  /\ finished_edges' = finished_edges + 1
  /\ UNCHANGED <<tree_cur, in_buf, lists, trim_was_effective>>

DiscardTrimmedRebuilds ==
  /\ nodes' = NonTerminalNodes(tree_cur)
  /\ edges' = RecursionEdges(tree_cur)
  /\ UNCHANGED <<tree_cur, in_buf, trim_was_effective, cur_subtree_step,
                 finished_nodes, cur_recursive_step, finished_edges>>

(* afl_custom_post_trim, failure: only the progress is counted.            *)
DiscardTrimmed ==
  /\ IF stage = 0
     THEN /\ cur_subtree_step' = cur_subtree_step + 1
          /\ finished_nodes' = finished_nodes + 1
     ELSE UNCHANGED <<cur_subtree_step, finished_nodes>>
  /\ IF stage = 1
     THEN /\ cur_recursive_step' = cur_recursive_step + 1
          /\ finished_edges' = finished_edges + 1
     ELSE UNCHANGED <<cur_recursive_step, finished_edges>>
  /\ UNCHANGED <<tree_cur, in_buf, lists, trim_was_effective>>

(* "update trimming stage", from the steps reached in the two stages.      *)
(* Mutants: > for >=; else-if for the second if.                           *)
StageAfterStrict(subtree_step, recursive_step) ==
  LET s == IF stage = 0 /\ subtree_step > total_subtree_steps THEN 1 ELSE stage
  IN  IF s = 1 /\ recursive_step > total_recursive_steps THEN 2 ELSE s

StageAfterOneIf(subtree_step, recursive_step) ==
  IF stage = 0
  THEN IF subtree_step >= total_subtree_steps THEN 1 ELSE 0
  ELSE IF recursive_step >= total_recursive_steps THEN 2 ELSE stage

StageAfter(subtree_step, recursive_step) ==
  LET s == IF stage = 0 /\ subtree_step >= total_subtree_steps THEN 1 ELSE stage
  IN  IF s = 1 /\ recursive_step >= total_recursive_steps THEN 2 ELSE s

(* The tree file is rewritten once the last stage is over.                 *)
SaveIfDone ==
  IF trim_was_effective' /\ stage' > 1
  THEN /\ tree_file' = [tree_file EXCEPT ![tree_fn_cur] = tree_cur']
       /\ chunks' = chunks \cup {tree_cur'}
  ELSE UNCHANGED <<tree_file, chunks>>

PostTrim(success) ==
  /\ pc = "run"
  /\ IF success THEN KeepTrimmed ELSE DiscardTrimmed
  /\ trimmed_tree' = <<>>
  /\ stage' = StageAfter(cur_subtree_step', cur_recursive_step')
  /\ SaveIfDone
  /\ stage_cur' = cur_subtree_step' + cur_recursive_step'
  /\ pc' = IF stage_cur' < stage_max THEN "trim" ELSE "write"
  /\ UNCHANGED <<total_subtree_steps, total_recursive_steps, tree_fn_cur,
                 stage_max, untrimmed>>

-----------------------------------------------------------------------------
(* afl-fuzz leaves the loop normally and writes the queue file ...         *)
EndTrim ==
  /\ pc = "write"
  /\ untrimmed' = untrimmed \ {tree_fn_cur}
  /\ pc' = "idle"
  /\ UNCHANGED <<tree_cur, trimmed_tree, lists, stage, trim_was_effective,
                 subtreeVars, recursiveVars, fileVars, stage_cur, stage_max, in_buf>>

(* ... or is told to stop while the target runs.                           *)
Abort ==
  /\ pc = "run"
  /\ pc' = "stopped"
  /\ UNCHANGED <<tree_cur, trimmed_tree, lists, stage, trim_was_effective,
                 subtreeVars, recursiveVars, fileVars, stage_cur, stage_max,
                 in_buf, untrimmed>>

(* Nothing left to trim.                                                   *)
Finished ==
  /\ pc = "stopped" \/ (pc = "idle" /\ untrimmed = {})
  /\ UNCHANGED vars

TrimStep == \/ InitTrim \/ SubtreeTrim \/ RecursiveTrim
            \/ (\E success \in BOOLEAN : PostTrim(success))
            \/ EndTrim

Next == (\E e \in Entries : QueueGet(e)) \/ TrimStep \/ Abort \/ Finished

Spec == Init /\ [][Next]_vars

(* The loop runs in one thread of afl-fuzz and always takes its next step. *)
FairSpec == Spec /\ WF_vars(TrimStep)

-----------------------------------------------------------------------------
TypeOK ==
  /\ tree_cur \in Seq(Node) /\ trimmed_tree \in Seq(Node) /\ in_buf \in Seq(Node)
  /\ nodes \in Seq(Nat \ {0}) /\ edges \in Seq(Nat \ {0})
  /\ stage \in 0..2 /\ trim_was_effective \in BOOLEAN
  /\ {cur_subtree_step, finished_nodes, total_subtree_steps} \subseteq Nat
  /\ {cur_recursive_step, finished_edges, total_recursive_steps} \subseteq Nat
  /\ tree_fn_cur \in Entries /\ tree_file \in [Entries -> Seq(Node)]
  /\ chunks \subseteq Seq(Node)
  /\ pc \in {"idle", "init", "trim", "run", "write", "stopped"}
  /\ stage_cur \in Nat /\ stage_max \in Nat /\ untrimmed \subseteq Entries

(* Whenever afl-fuzz asks for another trim there is a candidate for the    *)
(* stage the mutator is in: list_pop_front never returns the NULL that     *)
(* subtree_trimming(tree_cur, NULL) and *edge would dereference, and the   *)
(* "wrong trimming stage" branch is never reached.                         *)
NeverPopsEmpty ==
  pc = "trim" => \/ stage = 0 /\ nodes # <<>>
                 \/ stage = 1 /\ edges # <<>>

(* The two progress counters always say how many candidates are left in    *)
(* the two lists, across rebuilds of the lists after successful trims.     *)
StepsMatchLists ==
  pc = "trim" => /\ cur_subtree_step + Len(nodes) = total_subtree_steps
                 /\ cur_recursive_step + Len(edges) = total_recursive_steps

(* When afl-fuzz leaves the loop the mutator has passed its last stage, so *)
(* the tree file and the chunk store hold exactly the tree of the test     *)
(* case that afl-fuzz now writes to its queue, trimmed or not.             *)
KeptTreeIsSaved ==
  pc = "write" => /\ stage = 2
                  /\ tree_file[tree_fn_cur] = in_buf
                  /\ in_buf \in chunks

(* Cutting never breaks the tree: it stays a tree with the same root       *)
(* symbol, and never has more recursion edges than were counted at the     *)
(* start (total_recursive_trimming_steps - size would wrap around).        *)
TrimmedTreesAreSound ==
  /\ pc \in {"trim", "run", "write"} =>
       /\ IsTree(tree_cur) /\ tree_cur[1].depth = 0
       /\ Cardinality(EdgeSet(tree_cur)) <= total_recursive_steps
  /\ pc = "run" => /\ IsTree(trimmed_tree)
                   /\ trimmed_tree[1] = tree_cur[1]
                   /\ Cardinality(EdgeSet(trimmed_tree)) <= total_recursive_steps

(* The value post_trim returns to afl-fuzz grows with every call: no       *)
(* sequence of verdicts makes the loop repeat itself.                      *)
ProgressGrows == [][pc = "run" /\ pc' # "stopped" => stage_cur' > stage_cur]_vars

(* Every trim loop that is entered is left.                                *)
TrimTerminates == pc = "trim" ~> pc \in {"write", "stopped"}
=============================================================================
