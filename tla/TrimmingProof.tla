---------------------------- MODULE TrimmingProof ----------------------------
(***************************************************************************)
(* The trimming protocol is correct for every grammar, every tree and      *)
(* every sequence of verdicts of the target.                               *)
(***************************************************************************)
EXTENDS TrimHistory, TreesProof

-----------------------------------------------------------------------------
(* The inductive invariant, phase by phase.                                *)

(* While afl-fuzz holds an entry, its tree is a tree and is the test case. *)
Holding ==
  pc \in {"init", "trim", "run", "write"} =>
    IsTree(tree_cur) /\ tree_cur[1].depth = 0 /\ in_buf = tree_cur

Files == \A e \in Entries : IsTree(tree_file[e]) /\ tree_file[e][1].depth = 0

Saved == tree_file[tree_fn_cur] = tree_cur /\ tree_cur \in chunks

(* 1 between trim and post_trim: a candidate has left its list but is not  *)
(* counted yet.                                                            *)
InFlight == IF pc = "run" THEN 1 ELSE 0

(* In stage 0 the node list is what follows the finished_nodes first nodes *)
(* of the preorder and the edge list is untouched; in stage 1 the node     *)
(* list is empty and finished_nodes is past every later tree's last node.  *)
SubtreeStage ==
  /\ nodes = DropFirst(NonTerminalNodes(tree_cur), finished_nodes + InFlight)
  /\ cur_subtree_step + InFlight + Len(nodes) = total_subtree_steps
  /\ finished_edges = 0
  /\ edges = RecursionEdges(tree_cur)
  /\ cur_recursive_step + Len(edges) = total_recursive_steps
  /\ pc = "trim" => nodes # <<>>

RecursiveStage ==
  /\ nodes = <<>>
  /\ finished_nodes >= Len(tree_cur)
  /\ cur_subtree_step = total_subtree_steps
  /\ edges = DropFirst(RecursionEdges(tree_cur), finished_edges + InFlight)
  /\ cur_recursive_step + InFlight + Len(edges) = total_recursive_steps
  /\ pc = "trim" => edges # <<>>

Looping ==
  pc \in {"trim", "run"} =>
    /\ stage \in {0, 1}
    /\ stage = 0 => SubtreeStage
    /\ stage = 1 => RecursiveStage
    /\ stage_cur = cur_subtree_step + cur_recursive_step
    /\ stage_max = total_subtree_steps + total_recursive_steps

(* What a trim leaves for post_trim: the node just cut is still node       *)
(* finished_nodes + 1 and the nodes behind its subtree are still there;    *)
(* a promotion has taken an edge away.                                     *)
Trimmed ==
  pc = "run" =>
    /\ IsTree(trimmed_tree) /\ trimmed_tree[1] = tree_cur[1]
    /\ stage = 0 => LET i == finished_nodes + 1 IN
                    /\ i <= Len(trimmed_tree)
                    /\ Len(trimmed_tree) - SubtreeEnd(trimmed_tree, i) <= Len(nodes)
                    /\ Cardinality(EdgeSet(trimmed_tree)) <= Cardinality(EdgeSet(tree_cur))
    /\ stage = 1 => /\ Len(trimmed_tree) < Len(tree_cur)
                    /\ finished_edges + 1 <= Cardinality(EdgeSet(tree_cur))
                    /\ Cardinality(EdgeSet(trimmed_tree)) < Cardinality(EdgeSet(tree_cur))

(* The tree file is behind the current tree only after an effective trim   *)
(* whose loop is not over.                                                 *)
Filed ==
  /\ pc = "init" => Saved
  /\ pc \in {"trim", "run"} /\ ~trim_was_effective => Saved
  /\ pc = "write" => stage = 2 /\ Saved

EdgesBounded ==
  pc \in {"trim", "run", "write"} => Cardinality(EdgeSet(tree_cur)) <= total_recursive_steps

IInv == /\ TypeOK /\ Files /\ Holding /\ Filed /\ EdgesBounded
        /\ Looping /\ Trimmed

-----------------------------------------------------------------------------
(* The nodes of this module are a set of nodes; two of them are equal when *)
(* their two fields are.                                                   *)
LEMMA TrimNodes ==
  /\ NodeSet(Node)
  /\ \A x \in Node, y \in Node : x.id = y.id /\ x.depth = y.depth => x = y
<1>1. ASSUME NEW x \in Node, NEW d \in Nat
      PROVE  /\ AtDepth(x, d) \in Node
             /\ AtDepth(x, d).id = x.id /\ AtDepth(x, d).depth = d
  BY DEF Node, AtDepth
<1>2. \A x \in Node : x.depth \in Nat
  BY DEF Node
<1>3. \A x \in Node, y \in Node : x.id = y.id /\ x.depth = y.depth => x = y
  BY DEF Node
<1> QED BY <1>1, <1>2, <1>3 DEF NodeSet

-----------------------------------------------------------------------------
(* The mutator as afl_custom_init leaves it satisfies the invariant.       *)
LEMMA InitInv == Init => IInv
<1> SUFFICES ASSUME Init PROVE IInv
  OBVIOUS
<1> USE DEF Init
<1>1. \A e \in Entries : EntryTree[e] \in Seq(Node) /\ IsTree(EntryTree[e]) /\ EntryTree[e][1].depth = 0
  BY EntryTreeAssumption
<1>2. <<>> \in Seq(Node) /\ <<>> \in Seq(Nat \ {0})
  OBVIOUS
<1>3. TypeOK
  <2>1. tree_file \in [Entries -> Seq(Node)]
    BY <1>1
  <2>2. tree_cur \in Seq(Node) /\ trimmed_tree \in Seq(Node) /\ in_buf \in Seq(Node)
        /\ nodes \in Seq(Nat \ {0}) /\ edges \in Seq(Nat \ {0})
    BY <1>2
  <2>3. /\ {cur_subtree_step, finished_nodes, total_subtree_steps} \subseteq Nat
        /\ {cur_recursive_step, finished_edges, total_recursive_steps} \subseteq Nat
        /\ stage \in 0..2 /\ stage_cur \in Nat /\ stage_max \in Nat
    OBVIOUS
  <2>4. tree_fn_cur \in Entries /\ trim_was_effective \in BOOLEAN /\ chunks \subseteq Seq(Node)
        /\ pc \in {"idle", "init", "trim", "run", "write", "stopped"} /\ untrimmed \subseteq Entries
    OBVIOUS
  <2> QED BY <2>1, <2>2, <2>3, <2>4 DEF TypeOK
<1>4. Files
  BY <1>1 DEF Files
<1>5. Holding /\ Filed /\ EdgesBounded /\ Looping /\ Trimmed
  BY DEF Holding, Filed, EdgesBounded, Looping, Trimmed
<1> QED BY <1>3, <1>4, <1>5 DEF IInv

(* afl_custom_queue_get preserves the invariant.                           *)
LEMMA QueueGetInv ==
  ASSUME IInv, NEW e \in Entries, QueueGet(e)
  PROVE  IInv'
<1> USE DEF QueueGet
<1>1. TypeOK /\ Files
  BY DEF IInv
<1>2. tree_file[e] \in Seq(Node) /\ IsTree(tree_file[e]) /\ tree_file[e][1].depth = 0
  BY <1>1 DEF TypeOK, Files
<1>3. TypeOK'
  <2>1. <<>> \in Seq(Nat \ {0})
    OBVIOUS
  <2> QED BY <1>1, <1>2, <2>1 DEF TypeOK, subtreeVars, recursiveVars
<1>4. Files'
  BY <1>1 DEF Files
<1>5. Holding' /\ Filed'
  BY <1>2 DEF Holding, Filed, Saved
<1>6. EdgesBounded' /\ Looping' /\ Trimmed'
  BY DEF EdgesBounded, Looping, Trimmed
<1> QED BY <1>3, <1>4, <1>5, <1>6 DEF IInv

(* afl_custom_init_trim establishes the counters' part of the invariant.   *)
LEMMA InitTrimInv ==
  ASSUME IInv, InitTrim
  PROVE  IInv'
<1>1. TypeOK /\ Files /\ Holding /\ Filed
  BY DEF IInv
<1>2. tree_cur \in Seq(Node) /\ IsTree(tree_cur) /\ tree_cur[1].depth = 0 /\ in_buf = tree_cur /\ Saved
  BY <1>1 DEF TypeOK, Holding, Filed, InitTrim
<1>3. /\ Len(tree_cur) \in Nat /\ Len(tree_cur) > 0 /\ NonTermSize(tree_cur, 1) = Len(tree_cur)
      /\ NonTerminalNodes(tree_cur) \in Seq(Nat \ {0})
      /\ Len(NonTerminalNodes(tree_cur)) = Len(tree_cur)
      /\ RecursionEdges(tree_cur) \in Seq(Nat \ {0})
      /\ Len(RecursionEdges(tree_cur)) = Cardinality(EdgeSet(tree_cur))
      /\ Cardinality(EdgeSet(tree_cur)) \in Nat
  BY <1>2, TrimNodes, WorkLists, RootEnd
<1>4. /\ nodes' = NonTerminalNodes(tree_cur) /\ edges' = RecursionEdges(tree_cur)
      /\ stage' = 0 /\ trim_was_effective' = FALSE
      /\ cur_subtree_step' = 0 /\ finished_nodes' = 0
      /\ total_subtree_steps' = Len(tree_cur)
      /\ cur_recursive_step' = 0 /\ finished_edges' = 0
      /\ total_recursive_steps' = Cardinality(EdgeSet(tree_cur))
      /\ stage_cur' = 0
      /\ stage_max' = Len(tree_cur) + Cardinality(EdgeSet(tree_cur))
      /\ pc' = IF stage_cur' < stage_max' THEN "trim" ELSE "write"
      /\ UNCHANGED <<tree_cur, trimmed_tree, tree_fn_cur, tree_file, chunks, in_buf, untrimmed>>
  BY <1>3 DEF InitTrim, RecursionEdgeSize, fileVars
<1>5. pc' = "trim"
  BY <1>3, <1>4
<1>6. TypeOK'
  <2>1. /\ tree_cur' \in Seq(Node) /\ trimmed_tree' \in Seq(Node) /\ in_buf' \in Seq(Node)
        /\ tree_fn_cur' \in Entries /\ tree_file' \in [Entries -> Seq(Node)]
        /\ chunks' \subseteq Seq(Node) /\ untrimmed' \subseteq Entries
    BY <1>1, <1>4 DEF TypeOK
  <2>2. nodes' \in Seq(Nat \ {0}) /\ edges' \in Seq(Nat \ {0})
    BY <1>3, <1>4
  <2>3. /\ {cur_subtree_step', finished_nodes', total_subtree_steps'} \subseteq Nat
        /\ {cur_recursive_step', finished_edges', total_recursive_steps'} \subseteq Nat
        /\ stage' \in 0..2 /\ stage_cur' \in Nat /\ stage_max' \in Nat
    BY <1>3, <1>4
  <2>4. trim_was_effective' \in BOOLEAN /\ pc' \in {"idle", "init", "trim", "run", "write", "stopped"}
    BY <1>4, <1>5
  <2> QED BY <2>1, <2>2, <2>3, <2>4 DEF TypeOK
<1>7. Files' /\ Holding' /\ Filed' /\ EdgesBounded'
  BY <1>1, <1>2, <1>3, <1>4, <1>5 DEF Files, Holding, Filed, Saved, EdgesBounded
<1>8. Looping'
  <2>1. DropFirst(NonTerminalNodes(tree_cur), 0) = NonTerminalNodes(tree_cur)
    BY <1>3, DropFirstAgain
  <2>2. nodes' # <<>>
    BY <1>3, <1>4, EmptySeq
  <2>3. InFlight' = 0
    BY <1>5 DEF InFlight
  <2>4. SubtreeStage'
    BY <1>3, <1>4, <2>1, <2>2, <2>3 DEF SubtreeStage
  <2> QED BY <1>3, <1>4, <1>5, <2>4 DEF Looping
<1>9. Trimmed'
  BY <1>5 DEF Trimmed
<1> QED BY <1>6, <1>7, <1>8, <1>9 DEF IInv

(* Stage 0 of afl_custom_trim preserves the invariant.                     *)
LEMMA SubtreeTrimInv ==
  ASSUME IInv, SubtreeTrim
  PROVE  IInv'
<1>1. TypeOK /\ Files /\ Holding /\ Filed /\ EdgesBounded /\ Looping
  BY DEF IInv
<1>2. /\ pc = "trim" /\ stage = 0 /\ nodes # <<>> /\ nodes' = Tail(nodes) /\ pc' = "run"
      /\ UNCHANGED <<tree_cur, edges, stage, trim_was_effective, cur_subtree_step,
                     finished_nodes, total_subtree_steps, cur_recursive_step,
                     finished_edges, total_recursive_steps, tree_fn_cur, tree_file,
                     chunks, stage_cur, stage_max, in_buf, untrimmed>>
  BY DEF SubtreeTrim, subtreeVars, recursiveVars, fileVars
<1>3. tree_cur \in Seq(Node) /\ NodeSet(Node) /\ IsTree(tree_cur)
      /\ finished_nodes \in Nat /\ nodes \in Seq(Nat \ {0})
  BY <1>1, <1>2, TrimNodes DEF TypeOK, Holding
<1>4. SubtreeStage /\ InFlight = 0 /\ InFlight' = 1
  BY <1>1, <1>2 DEF Looping, InFlight
<1> DEFINE i == finished_nodes + 1
           all == NonTerminalNodes(tree_cur)
<1>5. nodes = DropFirst(all, finished_nodes)
  BY <1>3, <1>4 DEF SubtreeStage
<1>6. /\ i \in 1..Len(tree_cur) /\ Head(nodes) = i /\ nodes' = DropFirst(all, i)
      /\ Len(nodes') = Len(tree_cur) - i /\ Len(nodes') = Len(nodes) - 1
      /\ Len(nodes) \in Nat /\ nodes' \in Seq(Nat \ {0})
  <2>1. /\ all \in Seq(Nat \ {0}) /\ Len(all) = Len(tree_cur) /\ Len(tree_cur) \in Nat
        /\ \A k \in 1..Len(tree_cur) : all[k] = k
    BY <1>3, WorkLists
  <2> HIDE DEF all
  <2>2. /\ finished_nodes < Len(all) /\ Head(nodes) = all[finished_nodes+1]
        /\ Tail(nodes) = DropFirst(all, finished_nodes+1)
    BY <1>2, <1>3, <1>5, <2>1, DropFirstAgain
  <2>3. i \in 1..Len(tree_cur) /\ i \in Nat
    BY <1>3, <2>1, <2>2
  <2>4. Len(DropFirst(all, i)) = Len(tree_cur) - i /\ DropFirst(all, i) \in Seq(Nat \ {0})
    <3> HIDE DEF i
    <3>1. /\ DropFirst(all, i) \in Seq(Nat \ {0})
          /\ Len(DropFirst(all, i)) = IF i <= Len(all) THEN Len(all) - i ELSE 0
      BY <2>1, <2>3, DropFirstElements
    <3> QED BY <2>1, <2>3, <3>1
  <2>5. Len(DropFirst(all, finished_nodes)) = Len(tree_cur) - finished_nodes
    BY <1>3, <2>1, <2>2, DropFirstElements
  <2>6. Head(nodes) = i /\ nodes' = DropFirst(all, i)
    <3>1. all[finished_nodes+1] = finished_nodes+1 /\ nodes' = Tail(nodes)
      BY <1>2, <2>1, <2>3
    <3> QED BY <1>5, <2>2, <3>1
  <2>7. Len(nodes) = Len(tree_cur) - finished_nodes /\ Len(nodes) \in Nat
    <3>1. Len(nodes) = Len(tree_cur) - finished_nodes
      BY <1>5, <2>5
    <3> HIDE DEF all
    <3>2. Len(tree_cur) - finished_nodes \in Nat
      BY <1>3, <2>1, <2>2
    <3> QED BY <3>1, <3>2
  <2>8. Len(nodes') = Len(tree_cur) - i /\ nodes' \in Seq(Nat \ {0})
    BY <2>4, <2>6
  <2>9. Len(tree_cur) - i = (Len(tree_cur) - finished_nodes) - 1
    BY <1>3, <2>1
  <2>10. Len(nodes') = Len(nodes) - 1
    BY <2>7, <2>8, <2>9
  <2> QED BY <2>3, <2>6, <2>7, <2>8, <2>10
<1>7. PICK m \in MinTrees[tree_cur[i].id] : trimmed_tree' = ReplaceSubtree(tree_cur, i, m)
  BY <1>6 DEF SubtreeTrim
<1>8. m \in Seq(Node) /\ IsTree(m) /\ m[1].id = tree_cur[i].id /\ EdgeSet(m) = {}
  <2>1. tree_cur[i] \in Node
    BY <1>3, <1>6, TreeTyping
  <2>2. tree_cur[i].id \in Ids
    BY <2>1 DEF Node
  <2> QED BY <2>2, MinTreesAssumption
<1> DEFINE r == ReplaceSubtree(tree_cur, i, m)
<1>9. /\ r \in Seq(Node) /\ IsTree(r) /\ r[1] = tree_cur[1] /\ i \in 1..Len(r)
      /\ Len(r) = (i-1) + Len(m) + (Len(tree_cur)-SubtreeEnd(tree_cur, i))
      /\ SubtreeEnd(r, i) = (i-1) + Len(m)
      /\ Cardinality(EdgeSet(r)) <= Cardinality(EdgeSet(tree_cur))
  <2>1. i \in 1..Len(tree_cur)
    BY <1>6
  <2> HIDE DEF i
  <2>2. r \in Seq(Node) /\ Len(r) = (i-1) + Len(m) + (Len(tree_cur)-SubtreeEnd(tree_cur, i))
    BY <1>3, <1>8, <2>1, ReplaceLength
  <2>3. /\ IsTree(r) /\ i \in 1..Len(r) /\ SubtreeEnd(r, i) = (i-1) + Len(m)
        /\ r[1].id = tree_cur[1].id /\ r[1].depth = tree_cur[1].depth
    BY <1>3, <1>8, <2>1, ReplaceIsTree
  <2>4. Cardinality(EdgeSet(r)) <= Cardinality(EdgeSet(tree_cur))
    BY <1>3, <1>8, <2>1, ReplaceByMinimal
  <2>5. r[1] = tree_cur[1]
    <3>1. r[1] \in Node /\ tree_cur[1] \in Node
      BY <1>3, <2>2, <2>3, TreeTyping DEF IsTree
    <3> QED BY <2>3, <3>1, TrimNodes
  <2> QED BY <2>2, <2>3, <2>4, <2>5
<1>10. TypeOK'
  <2>1. trimmed_tree' \in Seq(Node)
    BY <1>7, <1>9
  <2> HIDE DEF r, i, all
  <2> QED BY <1>1, <1>2, <1>6, <2>1 DEF TypeOK
<1>11. Files' /\ Holding' /\ Filed' /\ EdgesBounded'
  BY <1>1, <1>2 DEF Files, Holding, Filed, Saved, EdgesBounded
<1>12. Looping'
  <2>1. SubtreeStage'
    <3>1. /\ finished_edges' = 0 /\ edges' = RecursionEdges(tree_cur')
          /\ cur_recursive_step' + Len(edges') = total_recursive_steps'
      BY <1>2, <1>4 DEF SubtreeStage
    <3>2. cur_subtree_step \in Nat /\ total_subtree_steps \in Nat
          /\ cur_subtree_step + 0 + Len(nodes) = total_subtree_steps
      BY <1>1, <1>4 DEF SubtreeStage, TypeOK
    <3>3. cur_subtree_step' + InFlight' + Len(nodes') = total_subtree_steps'
      <4>1. cur_subtree_step' = cur_subtree_step /\ total_subtree_steps' = total_subtree_steps
            /\ InFlight' = 1 /\ Len(nodes') = Len(nodes) - 1 /\ Len(nodes) \in Nat
        BY <1>2, <1>4, <1>6
      <4> QED BY <3>2, <4>1
    <3>4. nodes' = DropFirst(NonTerminalNodes(tree_cur'), finished_nodes' + InFlight')
      BY <1>2, <1>4, <1>6
    <3> QED BY <1>2, <3>1, <3>3, <3>4 DEF SubtreeStage
  <2> QED BY <1>1, <1>2, <2>1 DEF Looping
<1>13. Trimmed'
  <2>1. Len(r) - SubtreeEnd(r, i) <= Len(nodes') /\ i <= Len(r)
    <3>1. SubtreeEnd(tree_cur, i) \in i..Len(tree_cur) /\ Len(tree_cur) \in Nat /\ Len(m) \in Nat
          /\ Len(r) \in Nat
      BY <1>3, <1>6, <1>8, <1>9, SubtreeEndExists, LenProperties
    <3>2. i \in Nat
      BY <1>3
    <3> HIDE DEF i, r
    <3> QED BY <1>6, <1>9, <3>1, <3>2
  <2>2. /\ IsTree(trimmed_tree') /\ trimmed_tree'[1] = tree_cur'[1]
        /\ finished_nodes' + 1 <= Len(trimmed_tree')
        /\ Len(trimmed_tree') - SubtreeEnd(trimmed_tree', finished_nodes' + 1) <= Len(nodes')
        /\ Cardinality(EdgeSet(trimmed_tree')) <= Cardinality(EdgeSet(tree_cur'))
        /\ stage' = 0
    BY <1>2, <1>7, <1>9, <2>1
  <2> QED BY <2>2 DEF Trimmed
<1> QED BY <1>10, <1>11, <1>12, <1>13 DEF IInv

(* Stage 1 of afl_custom_trim preserves the invariant.                     *)
LEMMA RecursiveTrimInv ==
  ASSUME IInv, RecursiveTrim
  PROVE  IInv'
<1>1. TypeOK /\ Files /\ Holding /\ Filed /\ EdgesBounded /\ Looping
  BY DEF IInv
<1>2. /\ pc = "trim" /\ stage = 1 /\ edges # <<>> /\ edges' = Tail(edges) /\ pc' = "run"
      /\ trimmed_tree' = PromoteSubtree(tree_cur, Head(edges))
      /\ UNCHANGED <<tree_cur, nodes, stage, trim_was_effective, cur_subtree_step,
                     finished_nodes, total_subtree_steps, cur_recursive_step,
                     finished_edges, total_recursive_steps, tree_fn_cur, tree_file,
                     chunks, stage_cur, stage_max, in_buf, untrimmed>>
  BY DEF RecursiveTrim, subtreeVars, recursiveVars, fileVars
<1>3. tree_cur \in Seq(Node) /\ NodeSet(Node) /\ IsTree(tree_cur)
      /\ finished_edges \in Nat /\ edges \in Seq(Nat \ {0})
  BY <1>1, <1>2, TrimNodes DEF TypeOK, Holding
<1>4. RecursiveStage /\ InFlight = 0 /\ InFlight' = 1
  BY <1>1, <1>2 DEF Looping, InFlight
<1> DEFINE all == RecursionEdges(tree_cur)
<1>5. edges = DropFirst(all, finished_edges)
  BY <1>3, <1>4 DEF RecursiveStage
<1>6. /\ Head(edges) \in EdgeSet(tree_cur) /\ edges' = DropFirst(all, finished_edges + 1)
      /\ Len(edges') = Len(edges) - 1 /\ Len(edges) \in Nat /\ edges' \in Seq(Nat \ {0})
      /\ finished_edges + 1 <= Cardinality(EdgeSet(tree_cur))
  <2>1. /\ all \in Seq(Nat \ {0}) /\ all \in Seq(EdgeSet(tree_cur))
        /\ Len(all) = Cardinality(EdgeSet(tree_cur)) /\ Cardinality(EdgeSet(tree_cur)) \in Nat
    BY <1>3, WorkLists
  <2> HIDE DEF all
  <2>2. /\ finished_edges < Len(all) /\ Head(edges) = all[finished_edges+1]
        /\ Tail(edges) = DropFirst(all, finished_edges+1)
    BY <1>2, <1>3, <1>5, <2>1, DropFirstAgain
  <2>3. finished_edges+1 \in 1..Len(all)
    BY <1>3, <2>1, <2>2
  <2>4. Head(edges) \in EdgeSet(tree_cur)
    BY <2>1, <2>2, <2>3, ElementOfSeq
  <2>5. Len(Tail(edges)) = Len(edges) - 1 /\ Len(edges) \in Nat /\ Tail(edges) \in Seq(Nat \ {0})
    BY <1>2, <1>3, HeadTailProperties, LenProperties
  <2> QED BY <1>2, <1>3, <2>1, <2>2, <2>4, <2>5
<1> DEFINE r == PromoteSubtree(tree_cur, Head(edges))
<1>7. /\ r \in Seq(Node) /\ IsTree(r) /\ r[1] = tree_cur[1] /\ Len(r) < Len(tree_cur)
      /\ Cardinality(EdgeSet(r)) < Cardinality(EdgeSet(tree_cur))
  <2>1. /\ r \in Seq(Node) /\ IsTree(r) /\ Len(r) < Len(tree_cur)
        /\ r[1].id = tree_cur[1].id /\ r[1].depth = tree_cur[1].depth
        /\ Cardinality(EdgeSet(r)) < Cardinality(EdgeSet(tree_cur))
    BY <1>3, <1>6, PromoteShrinks
  <2>2. r[1] \in Node /\ tree_cur[1] \in Node
    <3> HIDE DEF r
    <3> QED BY <1>3, <2>1, TreeTyping DEF IsTree
  <2> QED BY <2>1, <2>2, TrimNodes
<1>8. TypeOK'
  <2>1. trimmed_tree' \in Seq(Node)
    BY <1>2, <1>7
  <2> HIDE DEF r, all
  <2> QED BY <1>1, <1>2, <1>6, <2>1 DEF TypeOK
<1>9. Files' /\ Holding' /\ Filed' /\ EdgesBounded'
  BY <1>1, <1>2 DEF Files, Holding, Filed, Saved, EdgesBounded
<1>10. Looping'
  <2>1. RecursiveStage'
    <3>1. nodes' = <<>> /\ finished_nodes' >= Len(tree_cur') /\ cur_subtree_step' = total_subtree_steps'
      BY <1>2, <1>4 DEF RecursiveStage
    <3>2. cur_recursive_step \in Nat /\ total_recursive_steps \in Nat
          /\ cur_recursive_step + 0 + Len(edges) = total_recursive_steps
      BY <1>1, <1>4 DEF RecursiveStage, TypeOK
    <3>3. cur_recursive_step' + InFlight' + Len(edges') = total_recursive_steps'
      <4>1. cur_recursive_step' = cur_recursive_step /\ total_recursive_steps' = total_recursive_steps
            /\ InFlight' = 1 /\ Len(edges') = Len(edges) - 1 /\ Len(edges) \in Nat
        BY <1>2, <1>4, <1>6
      <4> QED BY <3>2, <4>1
    <3>4. edges' = DropFirst(RecursionEdges(tree_cur'), finished_edges' + InFlight')
      BY <1>2, <1>4, <1>6
    <3> QED BY <1>2, <3>1, <3>3, <3>4 DEF RecursiveStage
  <2> QED BY <1>1, <1>2, <2>1 DEF Looping
<1>11. Trimmed'
  BY <1>2, <1>6, <1>7 DEF Trimmed
<1> QED BY <1>8, <1>9, <1>10, <1>11 DEF IInv

-----------------------------------------------------------------------------
(* What either verdict leaves: lists and counters agree again, and the     *)
(* two counters together have grown.                                       *)
Counted ==
  /\ tree_cur' \in Seq(Node) /\ IsTree(tree_cur') /\ tree_cur'[1].depth = 0
  /\ in_buf' = tree_cur'
  /\ nodes' \in Seq(Nat \ {0}) /\ edges' \in Seq(Nat \ {0})
  /\ cur_subtree_step' \in Nat /\ finished_nodes' \in Nat
  /\ cur_recursive_step' \in Nat /\ finished_edges' \in Nat
  /\ stage = 0 => /\ nodes' = DropFirst(NonTerminalNodes(tree_cur'), finished_nodes')
                  /\ finished_edges' = 0
  /\ stage = 1 => nodes' = <<>> /\ finished_nodes' >= Len(tree_cur')
  /\ edges' = DropFirst(RecursionEdges(tree_cur'), finished_edges')
  /\ cur_subtree_step' + Len(nodes') = total_subtree_steps
  /\ cur_recursive_step' + Len(edges') = total_recursive_steps
  /\ Cardinality(EdgeSet(tree_cur')) <= total_recursive_steps
  /\ trim_was_effective' \in BOOLEAN
  /\ trim_was_effective' \/ (~trim_was_effective /\ tree_cur' = tree_cur)
  /\ cur_subtree_step' + cur_recursive_step' > cur_subtree_step + cur_recursive_step

(* After a failed trim the counters are as Counted says.                   *)
LEMMA DiscardTrimmedCounted ==
  ASSUME IInv, pc = "run", DiscardTrimmed
  PROVE  Counted
<1>1. TypeOK /\ Holding /\ EdgesBounded /\ Looping
  BY DEF IInv
<1>2. /\ tree_cur \in Seq(Node) /\ IsTree(tree_cur) /\ tree_cur[1].depth = 0 /\ in_buf = tree_cur
      /\ nodes \in Seq(Nat \ {0}) /\ edges \in Seq(Nat \ {0})
      /\ cur_subtree_step \in Nat /\ finished_nodes \in Nat /\ total_subtree_steps \in Nat
      /\ cur_recursive_step \in Nat /\ finished_edges \in Nat /\ total_recursive_steps \in Nat
      /\ trim_was_effective \in BOOLEAN
      /\ Cardinality(EdgeSet(tree_cur)) <= total_recursive_steps
      /\ stage \in {0, 1} /\ InFlight = 1
  BY <1>1 DEF TypeOK, Holding, EdgesBounded, Looping, InFlight
<1>3. Len(nodes) \in Nat /\ Len(edges) \in Nat
  BY <1>2, LenProperties
<1>4. UNCHANGED <<tree_cur, in_buf, nodes, edges, trim_was_effective>>
  BY DEF DiscardTrimmed, lists
<1>5. CASE stage = 0
  <2>1. SubtreeStage
    BY <1>1, <1>5 DEF Looping
  <2>2. /\ cur_subtree_step' = cur_subtree_step + 1 /\ finished_nodes' = finished_nodes + 1
        /\ cur_recursive_step' = cur_recursive_step /\ finished_edges' = finished_edges
    BY <1>5 DEF DiscardTrimmed
  <2>3. /\ nodes = DropFirst(NonTerminalNodes(tree_cur), finished_nodes + 1)
        /\ cur_subtree_step + 1 + Len(nodes) = total_subtree_steps
        /\ finished_edges = 0 /\ edges = RecursionEdges(tree_cur)
        /\ cur_recursive_step + Len(edges) = total_recursive_steps
    BY <1>2, <2>1 DEF SubtreeStage
  <2>4. edges = DropFirst(RecursionEdges(tree_cur), 0)
    BY <1>2, <2>3, DropFirstAgain
  <2>5. /\ cur_subtree_step' + Len(nodes') = total_subtree_steps
        /\ cur_recursive_step' + Len(edges') = total_recursive_steps
        /\ cur_subtree_step' + cur_recursive_step' > cur_subtree_step + cur_recursive_step
        /\ cur_subtree_step' \in Nat /\ finished_nodes' \in Nat
    BY <1>2, <1>3, <1>4, <2>2, <2>3
  <2> QED BY <1>2, <1>4, <1>5, <2>2, <2>3, <2>4, <2>5 DEF Counted
<1>6. CASE stage = 1
  <2>1. RecursiveStage
    BY <1>1, <1>6 DEF Looping
  <2>2. /\ cur_subtree_step' = cur_subtree_step /\ finished_nodes' = finished_nodes
        /\ cur_recursive_step' = cur_recursive_step + 1 /\ finished_edges' = finished_edges + 1
    BY <1>6 DEF DiscardTrimmed
  <2>3. /\ nodes = <<>> /\ finished_nodes >= Len(tree_cur)
        /\ cur_subtree_step = total_subtree_steps
        /\ edges = DropFirst(RecursionEdges(tree_cur), finished_edges + 1)
        /\ cur_recursive_step + 1 + Len(edges) = total_recursive_steps
    BY <1>2, <2>1 DEF RecursiveStage
  <2>4. Len(nodes) = 0
    BY <2>3
  <2>5. /\ cur_subtree_step' + Len(nodes') = total_subtree_steps
        /\ cur_recursive_step' + Len(edges') = total_recursive_steps
        /\ cur_subtree_step' + cur_recursive_step' > cur_subtree_step + cur_recursive_step
        /\ cur_recursive_step' \in Nat /\ finished_edges' \in Nat
    BY <1>2, <1>3, <1>4, <2>2, <2>3, <2>4
  <2> QED BY <1>2, <1>4, <1>6, <2>2, <2>3, <2>5 DEF Counted
<1> QED BY <1>2, <1>5, <1>6

(* After a successful trim the counters are as Counted says.               *)
LEMMA KeepTrimmedCounted ==
  ASSUME IInv, pc = "run", KeepTrimmed
  PROVE  /\ Counted
         /\ stage = 0 => finished_nodes' = SubtreeEnd(trimmed_tree, finished_nodes + 1) + 1
<1>1. TypeOK /\ Holding /\ EdgesBounded /\ Looping /\ Trimmed
  BY DEF IInv
<1>2. /\ tree_cur \in Seq(Node) /\ trimmed_tree \in Seq(Node)
      /\ nodes \in Seq(Nat \ {0}) /\ edges \in Seq(Nat \ {0})
      /\ cur_subtree_step \in Nat /\ finished_nodes \in Nat /\ total_subtree_steps \in Nat
      /\ cur_recursive_step \in Nat /\ finished_edges \in Nat /\ total_recursive_steps \in Nat
      /\ Cardinality(EdgeSet(tree_cur)) <= total_recursive_steps
      /\ stage \in {0, 1} /\ InFlight = 1
      /\ tree_cur[1].depth = 0 /\ IsTree(trimmed_tree) /\ trimmed_tree[1] = tree_cur[1]
  BY <1>1 DEF TypeOK, Holding, EdgesBounded, Looping, InFlight, Trimmed
<1>3. Len(nodes) \in Nat /\ Len(edges) \in Nat
  BY <1>2, LenProperties
<1> DEFINE allNodes == NonTerminalNodes(trimmed_tree)
           allEdges == RecursionEdges(trimmed_tree)
           edgeCount == Cardinality(EdgeSet(trimmed_tree))
           size == Len(trimmed_tree)
<1>4. /\ size \in Nat
      /\ allNodes \in Seq(Nat \ {0}) /\ Len(allNodes) = size
      /\ \A k \in 1..size : allNodes[k] = k
      /\ allEdges \in Seq(Nat \ {0}) /\ Len(allEdges) = edgeCount /\ edgeCount \in Nat
      /\ Cardinality(EdgeSet(tree_cur)) \in Nat
      /\ Len(RecursionEdges(tree_cur)) = Cardinality(EdgeSet(tree_cur))
      /\ RecursionEdges(tree_cur) \in Seq(Nat \ {0})
      /\ Len(tree_cur) \in Nat
  BY <1>2, TrimNodes, WorkLists
<1>5. /\ UntriedNodes = DropFirst(allNodes, finished_nodes)
      /\ trim_was_effective' = TRUE /\ tree_cur' = trimmed_tree /\ in_buf' = trimmed_tree
      /\ nodes' = DropFirst(UntriedNodes, ReplacedNodes)
      /\ finished_nodes' = finished_nodes + ReplacedNodes
      /\ cur_subtree_step' = total_subtree_steps - Len(nodes')
      /\ edges' = DropFirst(allEdges, finished_edges)
      /\ cur_recursive_step' = total_recursive_steps - Len(edges')
      /\ finished_edges' = finished_edges
  BY DEF KeepTrimmed, UntriedNodes, UntriedEdges
<1>6. /\ edges' \in Seq(Nat \ {0})
      /\ Len(edges') = IF finished_edges <= edgeCount THEN edgeCount - finished_edges ELSE 0
  <2> HIDE DEF allEdges, edgeCount
  <2>1. /\ DropFirst(allEdges, finished_edges) \in Seq(Nat \ {0})
        /\ Len(DropFirst(allEdges, finished_edges)) =
             IF finished_edges <= Len(allEdges) THEN Len(allEdges) - finished_edges ELSE 0
    BY <1>2, <1>4, DropFirstElements
  <2> QED BY <1>4, <1>5, <2>1
<1>60. /\ tree_cur' \in Seq(Node) /\ IsTree(tree_cur') /\ tree_cur'[1].depth = 0
      /\ in_buf' = tree_cur' /\ trim_was_effective' = TRUE
      /\ edges' = DropFirst(RecursionEdges(tree_cur'), finished_edges')
      /\ finished_edges' = finished_edges /\ finished_edges' \in Nat
  BY <1>2, <1>5
<1>7. CASE stage = 0
  <2>1. /\ nodes = DropFirst(NonTerminalNodes(tree_cur), finished_nodes + 1)
        /\ cur_subtree_step + 1 + Len(nodes) = total_subtree_steps
        /\ finished_edges = 0 /\ edges = RecursionEdges(tree_cur)
        /\ cur_recursive_step + Len(edges) = total_recursive_steps
    BY <1>1, <1>2, <1>7 DEF Looping, SubtreeStage
  <2> DEFINE i == finished_nodes + 1
             last == SubtreeEnd(trimmed_tree, i)
  <2>2. i <= size /\ size - last <= Len(nodes) /\ edgeCount <= Cardinality(EdgeSet(tree_cur))
    BY <1>1, <1>7 DEF Trimmed
  <2>3. i \in Nat /\ i \in 1..size /\ finished_nodes < size
    BY <1>2, <1>4, <2>2
  <2>4. last \in i..size
    <3>1. trimmed_tree \in Seq(Node) /\ NodeSet(Node)
      BY <1>2, TrimNodes
    <3> HIDE DEF i
    <3> QED BY <2>3, <3>1, SubtreeEndExists
  <2>5. UntriedNodes # <<>> /\ Head(UntriedNodes) = i
    <3> HIDE DEF allNodes, size
    <3>1. Len(UntriedNodes) = size - finished_nodes /\ UntriedNodes \in Seq(Nat \ {0})
      <4>1. /\ DropFirst(allNodes, finished_nodes) \in Seq(Nat \ {0})
            /\ Len(DropFirst(allNodes, finished_nodes)) =
                 IF finished_nodes <= Len(allNodes) THEN Len(allNodes) - finished_nodes ELSE 0
        BY <1>2, <1>4, DropFirstElements
      <4> QED BY <1>2, <1>4, <1>5, <2>3, <4>1
    <3>2. UntriedNodes # <<>>
      BY <1>2, <1>4, <2>3, <3>1
    <3>3. Head(UntriedNodes) = allNodes[finished_nodes + 1]
      BY <1>2, <1>4, <1>5, <3>2, DropFirstAgain
    <3> QED BY <1>4, <2>3, <3>2, <3>3
  <2> HIDE DEF i, last
  <2>6. ReplacedNodes = 1 + (last - i + 1)
    BY <2>5 DEF ReplacedNodes, NonTermSize, last
  <2>7. ReplacedNodes \in Nat /\ finished_nodes + ReplacedNodes = last + 1 /\ last + 1 \in Nat
    <3>1. finished_nodes \in Nat /\ i = finished_nodes + 1 /\ last \in Int /\ last >= i
      BY <1>2, <2>3, <2>4 DEF i
    <3> HIDE DEF size, edgeCount
    <3> QED BY <2>6, <3>1
  <2>8. nodes' = DropFirst(allNodes, last + 1) /\ finished_nodes' = last + 1
    <3> HIDE DEF allNodes, size
    <3>1. DropFirst(DropFirst(allNodes, finished_nodes), ReplacedNodes)
            = DropFirst(allNodes, finished_nodes + ReplacedNodes)
      BY <1>2, <1>4, <2>7, DropFirstAgain
    <3> QED BY <1>5, <2>7, <3>1
  <2>9. /\ nodes' \in Seq(Nat \ {0})
        /\ Len(nodes') = IF last + 1 <= size THEN size - (last + 1) ELSE 0
    <3> HIDE DEF allNodes, size
    <3>1. /\ DropFirst(allNodes, last+1) \in Seq(Nat \ {0})
          /\ Len(DropFirst(allNodes, last+1)) =
               IF last+1 <= Len(allNodes) THEN Len(allNodes) - (last+1) ELSE 0
      BY <1>4, <2>7, DropFirstElements
    <3> QED BY <1>4, <2>8, <3>1
  <2>10. Len(nodes') <= Len(nodes) /\ Len(nodes') \in Nat
    <3> HIDE DEF size
    <3> QED BY <1>3, <1>4, <2>2, <2>3, <2>4, <2>9
  <2>11. Len(edges') = edgeCount /\ Len(edges) = Cardinality(EdgeSet(tree_cur))
    <3> HIDE DEF edgeCount
    <3> QED BY <1>4, <1>6, <2>1
  <2>12. /\ cur_subtree_step' \in Nat /\ cur_recursive_step' \in Nat
         /\ cur_subtree_step' + Len(nodes') = total_subtree_steps
         /\ cur_recursive_step' + Len(edges') = total_recursive_steps
         /\ edgeCount <= total_recursive_steps
         /\ cur_subtree_step' + cur_recursive_step' > cur_subtree_step + cur_recursive_step
    <3> HIDE DEF edgeCount
    <3>1. cur_subtree_step' = total_subtree_steps - Len(nodes')
          /\ cur_recursive_step' = total_recursive_steps - Len(edges')
      BY <1>5
    <3> QED BY <1>2, <1>3, <1>4, <2>1, <2>2, <2>10, <2>11, <3>1, SMTT(30)
  <2>13. /\ nodes' = DropFirst(NonTerminalNodes(tree_cur'), finished_nodes')
         /\ Cardinality(EdgeSet(tree_cur')) <= total_recursive_steps
         /\ finished_nodes' \in Nat /\ finished_edges' = 0
    BY <1>5, <2>1, <2>7, <2>8, <2>12
  <2> QED BY <1>6, <1>60, <1>7, <2>8, <2>9, <2>12, <2>13 DEF Counted, last, i
<1>8. CASE stage = 1
  <2>1. /\ nodes = <<>> /\ finished_nodes >= Len(tree_cur)
        /\ cur_subtree_step = total_subtree_steps
        /\ edges = DropFirst(RecursionEdges(tree_cur), finished_edges + 1)
        /\ cur_recursive_step + 1 + Len(edges) = total_recursive_steps
    BY <1>1, <1>2, <1>8 DEF Looping, RecursiveStage
  <2>2. /\ size < Len(tree_cur) /\ edgeCount < Cardinality(EdgeSet(tree_cur))
        /\ finished_edges + 1 <= Cardinality(EdgeSet(tree_cur))
    BY <1>1, <1>8 DEF Trimmed
  <2>3. UntriedNodes = <<>>
    <3> HIDE DEF allNodes, size
    <3>1. /\ DropFirst(allNodes, finished_nodes) \in Seq(Nat \ {0})
          /\ Len(DropFirst(allNodes, finished_nodes)) =
               IF finished_nodes <= Len(allNodes) THEN Len(allNodes) - finished_nodes ELSE 0
      BY <1>2, <1>4, DropFirstElements
    <3>2. Len(UntriedNodes) = 0 /\ UntriedNodes \in Seq(Nat \ {0})
      BY <1>2, <1>4, <1>5, <2>1, <2>2, <3>1
    <3> QED BY <3>2, EmptySeq
  <2>4. ReplacedNodes = 0
    BY <2>3 DEF ReplacedNodes
  <2>5. nodes' = <<>> /\ finished_nodes' = finished_nodes
    <3>1. <<>> \in Seq(Nat \ {0})
      OBVIOUS
    <3>2. DropFirst(<<>>, 0) = <<>>
      BY <3>1, DropFirstAgain
    <3> QED BY <1>2, <1>5, <2>3, <2>4, <3>2
  <2>6. Len(nodes') = 0 /\ nodes' \in Seq(Nat \ {0})
    BY <2>5
  <2>7. Len(edges) = Cardinality(EdgeSet(tree_cur)) - (finished_edges + 1)
    <3>1. Len(DropFirst(RecursionEdges(tree_cur), finished_edges + 1)) =
            IF finished_edges + 1 <= Len(RecursionEdges(tree_cur))
            THEN Len(RecursionEdges(tree_cur)) - (finished_edges + 1) ELSE 0
      <4>1. finished_edges + 1 \in Nat
        BY <1>2
      <4> QED BY <1>4, <4>1, DropFirstElements
    <3> QED BY <1>4, <2>1, <2>2, <3>1
  <2>8. Len(edges') <= Len(edges) /\ Len(edges') \in Nat
    <3> HIDE DEF edgeCount
    <3> QED BY <1>2, <1>4, <1>6, <2>2, <2>7
  <2>9. /\ cur_subtree_step' \in Nat /\ cur_recursive_step' \in Nat
        /\ cur_subtree_step' + Len(nodes') = total_subtree_steps
        /\ cur_recursive_step' + Len(edges') = total_recursive_steps
        /\ edgeCount <= total_recursive_steps
        /\ finished_nodes' >= size
        /\ cur_subtree_step' + cur_recursive_step' > cur_subtree_step + cur_recursive_step
    <3> HIDE DEF edgeCount, size
    <3>1. cur_subtree_step' = total_subtree_steps - Len(nodes')
          /\ cur_recursive_step' = total_recursive_steps - Len(edges')
      BY <1>5
    <3>2. /\ finished_nodes' >= size /\ edgeCount <= total_recursive_steps
      BY <1>2, <1>4, <2>1, <2>2, <2>5
    <3>3. cur_subtree_step' = total_subtree_steps /\ cur_subtree_step' + Len(nodes') = total_subtree_steps
      BY <1>2, <2>6, <3>1
    <3>4. cur_recursive_step' \in Nat /\ cur_recursive_step' + Len(edges') = total_recursive_steps
          /\ cur_recursive_step' > cur_recursive_step
      BY <1>2, <1>3, <2>1, <2>8, <3>1
    <3>5. cur_subtree_step' = cur_subtree_step
      BY <2>1, <3>3
    <3>6. cur_subtree_step' + cur_recursive_step' > cur_subtree_step + cur_recursive_step
      <4>1. cur_subtree_step \in Nat /\ cur_recursive_step \in Nat
        BY <1>2
      <4>2. cur_recursive_step' \in Nat /\ cur_recursive_step' > cur_recursive_step
        BY <3>4
      <4>3. \A a, b, c, d \in Nat : c = a /\ d > b => c + d > a + b
        OBVIOUS
      <4>4. cur_subtree_step' \in Nat
        BY <3>5, <4>1
      <4> QED BY <3>5, <4>1, <4>2, <4>3, <4>4
    <3>7. cur_subtree_step' \in Nat
      BY <1>2, <3>5
    <3> QED BY <3>2, <3>3, <3>4, <3>6, <3>7
  <2>10. /\ Cardinality(EdgeSet(tree_cur')) <= total_recursive_steps
         /\ finished_nodes' \in Nat /\ finished_nodes' >= Len(tree_cur')
    BY <1>2, <1>5, <2>5, <2>9
  <2> QED BY <1>6, <1>60, <1>8, <2>5, <2>6, <2>9, <2>10 DEF Counted
<1> QED BY <1>2, <1>7, <1>8

(* The stage and the loop's condition agree with the two lists.            *)
LEMMA PostTrimInv ==
  ASSUME IInv, NEW success \in BOOLEAN, PostTrim(success)
  PROVE  IInv' /\ Counted
<1>1. TypeOK /\ Files /\ Filed /\ Looping
  BY DEF IInv
<1>2. pc = "run" /\ (KeepTrimmed \/ DiscardTrimmed)
  BY DEF PostTrim
<1>3. Counted
  BY <1>2, KeepTrimmedCounted, DiscardTrimmedCounted
<1>4. /\ trimmed_tree' = <<>>
      /\ stage' = StageAfter(cur_subtree_step', cur_recursive_step')
      /\ stage_cur' = cur_subtree_step' + cur_recursive_step'
      /\ pc' = IF stage_cur' < stage_max THEN "trim" ELSE "write"
      /\ total_subtree_steps' = total_subtree_steps
      /\ total_recursive_steps' = total_recursive_steps
      /\ tree_fn_cur' = tree_fn_cur /\ stage_max' = stage_max /\ untrimmed' = untrimmed
  BY DEF PostTrim
<1>5. /\ total_subtree_steps \in Nat /\ total_recursive_steps \in Nat
      /\ stage \in {0, 1} /\ stage_max = total_subtree_steps + total_recursive_steps
      /\ tree_file \in [Entries -> Seq(Node)] /\ tree_fn_cur \in Entries
      /\ chunks \subseteq Seq(Node) /\ untrimmed \subseteq Entries /\ stage_max \in Nat
      /\ ~trim_was_effective => Saved
  BY <1>1, <1>2 DEF TypeOK, Looping, Filed
<1>6. /\ tree_cur' \in Seq(Node) /\ IsTree(tree_cur') /\ tree_cur'[1].depth = 0
      /\ in_buf' = tree_cur'
      /\ nodes' \in Seq(Nat \ {0}) /\ edges' \in Seq(Nat \ {0})
      /\ cur_subtree_step' \in Nat /\ finished_nodes' \in Nat
      /\ cur_recursive_step' \in Nat /\ finished_edges' \in Nat
      /\ cur_subtree_step' + Len(nodes') = total_subtree_steps
      /\ cur_recursive_step' + Len(edges') = total_recursive_steps
      /\ trim_was_effective' \in BOOLEAN
      /\ Cardinality(EdgeSet(tree_cur')) <= total_recursive_steps
  BY <1>3 DEF Counted
<1>7. Len(nodes') \in Nat /\ Len(edges') \in Nat
  BY <1>6, LenProperties
<1>8. (Len(nodes') = 0 <=> nodes' = <<>>) /\ (Len(edges') = 0 <=> edges' = <<>>)
  BY <1>6, EmptySeq
<1>9. /\ cur_subtree_step' >= total_subtree_steps <=> nodes' = <<>>
      /\ cur_recursive_step' >= total_recursive_steps <=> edges' = <<>>
      /\ stage_cur' \in Nat /\ (stage_cur' < stage_max <=> ~(nodes' = <<>> /\ edges' = <<>>))
  <2>1. /\ \A a, b, c \in Nat : a + b = c => (a >= c <=> b = 0)
        /\ \A a, b, c, d, e, f \in Nat : a + b = c /\ d + e = f => (a + d < c + f <=> ~(b = 0 /\ e = 0))
    OBVIOUS
  <2>2. cur_subtree_step' >= total_subtree_steps <=> Len(nodes') = 0
    BY <1>5, <1>6, <1>7, <2>1
  <2>3. cur_recursive_step' >= total_recursive_steps <=> Len(edges') = 0
    BY <1>5, <1>6, <1>7, <2>1
  <2>4. cur_subtree_step' + cur_recursive_step' < total_subtree_steps + total_recursive_steps
          <=> ~(Len(nodes') = 0 /\ Len(edges') = 0)
    <3>1. /\ cur_subtree_step' \in Nat /\ Len(nodes') \in Nat /\ total_subtree_steps \in Nat
          /\ cur_recursive_step' \in Nat /\ Len(edges') \in Nat /\ total_recursive_steps \in Nat
          /\ cur_subtree_step' + Len(nodes') = total_subtree_steps
          /\ cur_recursive_step' + Len(edges') = total_recursive_steps
      BY <1>5, <1>6, <1>7
    <3>2. \A a, b, c \in Nat : a + b = c => a <= c /\ (a = c <=> b = 0)
      OBVIOUS
    <3>3. /\ cur_subtree_step' <= total_subtree_steps
          /\ cur_subtree_step' = total_subtree_steps <=> Len(nodes') = 0
          /\ cur_recursive_step' <= total_recursive_steps
          /\ cur_recursive_step' = total_recursive_steps <=> Len(edges') = 0
      BY <3>1, <3>2
    <3>4. \A a, b, c, d \in Nat : a <= c /\ b <= d => (a + b < c + d <=> ~(a = c /\ b = d))
      OBVIOUS
    <3>5. cur_subtree_step' + cur_recursive_step' < total_subtree_steps + total_recursive_steps
            <=> ~(cur_subtree_step' = total_subtree_steps /\ cur_recursive_step' = total_recursive_steps)
      <4>1. /\ cur_subtree_step' \in Nat /\ total_subtree_steps \in Nat
            /\ cur_recursive_step' \in Nat /\ total_recursive_steps \in Nat
            /\ cur_subtree_step' <= total_subtree_steps
            /\ cur_recursive_step' <= total_recursive_steps
        BY <3>1, <3>3
      <4> QED BY <3>4, <4>1
    <3> QED BY <3>3, <3>5
  <2>5. stage_cur' \in Nat
    <3>1. cur_subtree_step' \in Nat /\ cur_recursive_step' \in Nat
      BY <1>6
    <3>2. \A a, b \in Nat : a + b \in Nat
      OBVIOUS
    <3> QED BY <1>4, <3>1, <3>2
  <2> QED BY <1>4, <1>5, <1>8, <2>2, <2>3, <2>4, <2>5
<1>10. stage = 1 => nodes' = <<>>
  BY <1>3 DEF Counted
<1>11. stage' = IF nodes' # <<>> THEN 0 ELSE IF edges' # <<>> THEN 1 ELSE 2
  BY <1>4, <1>5, <1>9, <1>10 DEF StageAfter
<1>12. pc' = IF nodes' # <<>> \/ edges' # <<>> THEN "trim" ELSE "write"
  BY <1>4, <1>9
<1>13. /\ tree_file' \in [Entries -> Seq(Node)] /\ chunks' \subseteq Seq(Node)
       /\ \A e \in Entries : tree_file'[e] = tree_file[e] \/ tree_file'[e] = tree_cur'
       /\ trim_was_effective' /\ stage' > 1 =>
            tree_file'[tree_fn_cur'] = tree_cur' /\ tree_cur' \in chunks'
       /\ ~(trim_was_effective' /\ stage' > 1) => tree_file' = tree_file /\ chunks' = chunks
  <2>1. SaveIfDone
    BY DEF PostTrim
  <2>2. CASE trim_was_effective' /\ stage' > 1
    <3>1. /\ tree_file' = [tree_file EXCEPT ![tree_fn_cur] = tree_cur']
          /\ chunks' = chunks \cup {tree_cur'}
      BY <2>1, <2>2 DEF SaveIfDone
    <3>2. tree_file' \in [Entries -> Seq(Node)]
      BY <1>5, <1>6, <3>1
    <3>3. \A e \in Entries : tree_file'[e] = IF e = tree_fn_cur THEN tree_cur' ELSE tree_file[e]
      BY <1>5, <3>1
    <3> QED BY <1>4, <1>5, <1>6, <2>2, <3>1, <3>2, <3>3
  <2>3. CASE ~(trim_was_effective' /\ stage' > 1)
    BY <1>5, <2>1, <2>3 DEF SaveIfDone
  <2> QED BY <2>2, <2>3
<1>14. TypeOK'
  <2>1. stage' \in 0..2 /\ pc' \in {"idle", "init", "trim", "run", "write", "stopped"}
    BY <1>11, <1>12
  <2>2. trimmed_tree' \in Seq(Node)
    BY <1>4
  <2>3. total_subtree_steps' \in Nat /\ total_recursive_steps' \in Nat /\ stage_max' \in Nat
        /\ tree_fn_cur' \in Entries /\ untrimmed' \subseteq Entries /\ stage_cur' \in Nat
    BY <1>4, <1>5, <1>9
  <2> QED BY <1>6, <1>13, <2>1, <2>2, <2>3 DEF TypeOK
<1>15. Files'
  <2>1. \A e \in Entries : IsTree(tree_file'[e]) /\ tree_file'[e][1].depth = 0
    BY <1>1, <1>6, <1>13 DEF Files
  <2> QED BY <2>1 DEF Files
<1>16. Holding' /\ EdgesBounded'
  BY <1>4, <1>6 DEF Holding, EdgesBounded
<1>17. Filed'
  <2>1. ~trim_was_effective' => Saved /\ tree_cur' = tree_cur
    BY <1>3, <1>5 DEF Counted
  <2>2. pc' = "trim" => stage' \in {0, 1}
    BY <1>11, <1>12
  <2>3. ~trim_was_effective' => Saved'
    BY <1>4, <1>13, <2>1 DEF Saved
  <2>4. pc' = "write" => stage' = 2
    BY <1>11, <1>12
  <2>5. trim_was_effective' /\ stage' = 2 => Saved'
    BY <1>13 DEF Saved
  <2> QED BY <1>6, <1>12, <2>3, <2>4, <2>5 DEF Filed
<1>18. Looping'
  <2> SUFFICES ASSUME pc' \in {"trim", "run"}
      PROVE /\ stage' \in {0, 1}
            /\ stage' = 0 => SubtreeStage'
            /\ stage' = 1 => RecursiveStage'
            /\ stage_cur' = cur_subtree_step' + cur_recursive_step'
            /\ stage_max' = total_subtree_steps' + total_recursive_steps'
    BY DEF Looping
  <2>1. pc' = "trim" /\ InFlight' = 0 /\ stage' \in {0, 1}
    BY <1>11, <1>12 DEF InFlight
  <2>2. finished_nodes' + 0 = finished_nodes' /\ finished_edges' + 0 = finished_edges'
        /\ cur_subtree_step' + 0 = cur_subtree_step' /\ cur_recursive_step' + 0 = cur_recursive_step'
    <3>1. \A n \in Nat : n + 0 = n
      OBVIOUS
    <3>2. finished_nodes' \in Nat /\ finished_edges' \in Nat /\ cur_subtree_step' \in Nat
          /\ cur_recursive_step' \in Nat
      BY <1>6
    <3> QED BY <3>1, <3>2
  <2>3. edges' = DropFirst(RecursionEdges(tree_cur'), finished_edges')
    BY <1>3 DEF Counted
  <2>4. ASSUME stage' = 0 PROVE SubtreeStage'
    <3>1. stage = 0 /\ nodes' # <<>>
      BY <1>5, <1>10, <1>11, <2>4
    <3>2. nodes' = DropFirst(NonTerminalNodes(tree_cur'), finished_nodes') /\ finished_edges' = 0
      BY <1>3, <3>1 DEF Counted
    <3>3. DropFirst(RecursionEdges(tree_cur'), 0) = RecursionEdges(tree_cur')
      <4>1. RecursionEdges(tree_cur') \in Seq(Nat \ {0})
        BY <1>6, TrimNodes, WorkLists
      <4> QED BY <4>1, DropFirstAgain
    <3>4. edges' = RecursionEdges(tree_cur')
      BY <2>3, <3>2, <3>3
    <3> QED BY <1>4, <1>6, <2>1, <2>2, <3>1, <3>2, <3>4 DEF SubtreeStage
  <2>5. ASSUME stage' = 1 PROVE RecursiveStage'
    <3>1. nodes' = <<>> /\ edges' # <<>> /\ Len(nodes') = 0
      BY <1>8, <1>11, <2>5
    <3>2. finished_nodes' >= Len(tree_cur')
      <4>1. CASE stage = 1
        BY <1>3, <4>1 DEF Counted
      <4>2. CASE stage = 0
        <5>1. nodes' = DropFirst(NonTerminalNodes(tree_cur'), finished_nodes')
          BY <1>3, <4>2 DEF Counted
        <5>2. /\ NonTerminalNodes(tree_cur') \in Seq(Nat \ {0})
              /\ Len(NonTerminalNodes(tree_cur')) = Len(tree_cur') /\ Len(tree_cur') \in Nat
          BY <1>6, TrimNodes, WorkLists
        <5>3. Len(nodes') = IF finished_nodes' <= Len(tree_cur')
                            THEN Len(tree_cur') - finished_nodes' ELSE 0
          BY <1>6, <5>1, <5>2, DropFirstElements
        <5> QED BY <1>6, <3>1, <5>2, <5>3
      <4> QED BY <1>5, <4>1, <4>2
    <3>3. cur_subtree_step' = total_subtree_steps'
      <4>1. \A a, b \in Nat : a + 0 = b => a = b
        OBVIOUS
      <4>2. cur_subtree_step' + 0 = total_subtree_steps
        BY <1>6, <3>1
      <4> QED BY <1>4, <1>5, <1>6, <4>1, <4>2
    <3> QED BY <1>4, <1>6, <2>1, <2>2, <2>3, <3>1, <3>2, <3>3 DEF RecursiveStage
  <2> QED BY <1>4, <1>5, <2>1, <2>4, <2>5
<1>19. Trimmed'
  BY <1>12 DEF Trimmed
<1> QED BY <1>3, <1>14, <1>15, <1>16, <1>17, <1>18, <1>19 DEF IInv

-----------------------------------------------------------------------------
(* Every step preserves the invariant: one case per action.                *)
LEMMA NextInv ==
  ASSUME IInv, [Next]_vars
  PROVE  IInv'
<1>1. ASSUME NEW e \in Entries, QueueGet(e) PROVE IInv'
  BY <1>1, QueueGetInv
<1>2. CASE InitTrim
  BY <1>2, InitTrimInv
<1>3. CASE SubtreeTrim
  BY <1>3, SubtreeTrimInv
<1>4. CASE RecursiveTrim
  BY <1>4, RecursiveTrimInv
<1>5. ASSUME NEW success \in BOOLEAN, PostTrim(success) PROVE IInv'
  BY <1>5, PostTrimInv
<1>6. ASSUME pc' \in {"idle", "stopped"}, untrimmed' \subseteq untrimmed,
             UNCHANGED <<tree_cur, trimmed_tree, lists, stage, trim_was_effective, subtreeVars,
                         recursiveVars, fileVars, stage_cur, stage_max, in_buf>>
      PROVE  IInv'
  <2>1. TypeOK /\ Files
    BY DEF IInv
  <2>2. UNCHANGED <<tree_cur, trimmed_tree, nodes, edges, stage, trim_was_effective,
                    cur_subtree_step, finished_nodes, total_subtree_steps,
                    cur_recursive_step, finished_edges, total_recursive_steps,
                    tree_fn_cur, tree_file, chunks, stage_cur, stage_max, in_buf>>
    BY <1>6 DEF lists, subtreeVars, recursiveVars, fileVars
  <2>3. TypeOK'
    BY <1>6, <2>1, <2>2 DEF TypeOK
  <2>4. Files'
    BY <2>1, <2>2 DEF Files
  <2>5. Holding' /\ Filed' /\ EdgesBounded' /\ Looping' /\ Trimmed'
    BY <1>6 DEF Holding, Filed, EdgesBounded, Looping, Trimmed
  <2> QED BY <2>3, <2>4, <2>5 DEF IInv
<1>7. CASE EndTrim
  BY <1>6, <1>7 DEF EndTrim
<1>8. CASE Abort
  BY <1>6, <1>8 DEF Abort
<1>9. CASE UNCHANGED vars
  <2>1. UNCHANGED <<tree_cur, trimmed_tree, nodes, edges, stage, trim_was_effective,
                    cur_subtree_step, finished_nodes, total_subtree_steps,
                    cur_recursive_step, finished_edges, total_recursive_steps,
                    tree_fn_cur, tree_file, chunks, pc, stage_cur, stage_max, in_buf, untrimmed>>
    BY <1>9 DEF vars, lists, subtreeVars, recursiveVars, fileVars, aflVars
  <2>2. TypeOK' /\ Files' /\ Holding' /\ Filed' /\ EdgesBounded'
    BY <2>1 DEF IInv, TypeOK, Files, Holding, Filed, Saved, EdgesBounded
  <2>3. Looping' /\ Trimmed'
    BY <2>1 DEF IInv, Looping, SubtreeStage, RecursiveStage, InFlight, Trimmed
  <2> QED BY <2>2, <2>3 DEF IInv
<1> QED
  BY <1>1, <1>2, <1>3, <1>4, <1>5, <1>7, <1>8, <1>9 DEF Next, TrimStep, Finished

(* The invariant holds of every reachable state.                           *)
LEMMA Invariance == Spec => []IInv
BY InitInv, NextInv, PTL DEF Spec

-----------------------------------------------------------------------------
(* Every hook keeps the mutator's fields within their types; counters never *)
(* go below zero (they are size_t, a subtraction that did would wrap).     *)
THEOREM TrimTypeOK == Spec => []TypeOK
<1>1. IInv => TypeOK
  BY DEF IInv
<1> QED BY <1>1, Invariance, PTL

(* afl_custom_trim never dereferences the NULL of an empty work list and   *)
(* never reaches its "wrong trimming stage" branch.                        *)
THEOREM TrimNeverPopsEmpty == Spec => []NeverPopsEmpty
<1>1. IInv => NeverPopsEmpty
  BY DEF IInv, Looping, SubtreeStage, RecursiveStage, NeverPopsEmpty
<1> QED BY <1>1, Invariance, PTL

(* The progress counters that afl_custom_post_trim recomputes after each   *)
(* success always account for the whole of the rebuilt work lists.         *)
THEOREM TrimStepsMatchLists == Spec => []StepsMatchLists
<1>1. IInv => StepsMatchLists
  <2> SUFFICES ASSUME IInv, pc = "trim"
               PROVE  /\ cur_subtree_step + Len(nodes) = total_subtree_steps
                      /\ cur_recursive_step + Len(edges) = total_recursive_steps
    BY DEF StepsMatchLists
  <2>1. /\ cur_subtree_step \in Nat /\ total_subtree_steps \in Nat
        /\ cur_recursive_step \in Nat /\ total_recursive_steps \in Nat
        /\ stage \in {0, 1} /\ InFlight = 0
    BY DEF IInv, TypeOK, Looping, InFlight
  <2>2. \A n \in Nat : n + 0 = n
    OBVIOUS
  <2>3. CASE stage = 0
    <3>1. SubtreeStage
      BY <2>3 DEF IInv, Looping
    <3> QED BY <2>1, <2>2, <3>1 DEF SubtreeStage
  <2>4. CASE stage = 1
    <3>1. RecursiveStage
      BY <2>4 DEF IInv, Looping
    <3>2. Len(nodes) = 0
      BY <3>1 DEF RecursiveStage
    <3> QED BY <2>1, <2>2, <3>1, <3>2 DEF RecursiveStage
  <2> QED BY <2>1, <2>3, <2>4
<1> QED BY <1>1, Invariance, PTL

(* When afl-fuzz leaves the loop and writes its queue file, the tree file  *)
(* and the chunk store hold the tree of exactly that test case.            *)
THEOREM TrimKeptTreeIsSaved == Spec => []KeptTreeIsSaved
<1>1. IInv => KeptTreeIsSaved
  BY DEF IInv, Holding, Filed, Saved, KeptTreeIsSaved
<1> QED BY <1>1, Invariance, PTL

(* No cut of afl_custom_trim breaks the tree, changes its root or adds a   *)
(* recursion edge.                                                         *)
THEOREM TrimTreesAreSound == Spec => []TrimmedTreesAreSound
<1>1. IInv => TrimmedTreesAreSound
  <2> SUFFICES ASSUME IInv PROVE TrimmedTreesAreSound
    OBVIOUS
  <2>1. pc \in {"trim", "run", "write"} =>
          /\ IsTree(tree_cur) /\ tree_cur[1].depth = 0
          /\ Cardinality(EdgeSet(tree_cur)) <= total_recursive_steps
    BY DEF IInv, Holding, EdgesBounded
  <2>2. ASSUME pc = "run"
        PROVE  Cardinality(EdgeSet(trimmed_tree)) <= total_recursive_steps
    <3>1. /\ tree_cur \in Seq(Node) /\ trimmed_tree \in Seq(Node)
          /\ total_recursive_steps \in Nat /\ stage \in {0, 1}
      BY <2>2 DEF IInv, TypeOK, Looping
    <3>2. Cardinality(EdgeSet(trimmed_tree)) \in Nat /\ Cardinality(EdgeSet(tree_cur)) \in Nat
      BY <3>1, TrimNodes, WorkLists
    <3>3. \/ Cardinality(EdgeSet(trimmed_tree)) <= Cardinality(EdgeSet(tree_cur))
          \/ Cardinality(EdgeSet(trimmed_tree)) < Cardinality(EdgeSet(tree_cur))
      BY <2>2, <3>1 DEF IInv, Trimmed
    <3>4. Cardinality(EdgeSet(tree_cur)) <= total_recursive_steps
      BY <2>1, <2>2
    <3>5. \A a, b, c \in Nat : (a <= b \/ a < b) /\ b <= c => a <= c
      OBVIOUS
    <3> QED BY <3>1, <3>2, <3>3, <3>4, <3>5
  <2>3. pc = "run" => IsTree(trimmed_tree) /\ trimmed_tree[1] = tree_cur[1]
    BY DEF IInv, Trimmed
  <2> QED BY <2>1, <2>2, <2>3 DEF TrimmedTreesAreSound
<1> QED BY <1>1, Invariance, PTL

(* Each call of afl_custom_post_trim returns more than the one before, so  *)
(* the loop cannot repeat itself whatever the target answers.              *)
THEOREM TrimProgressGrows == Spec => ProgressGrows
<1>1. ASSUME IInv, [Next]_vars
      PROVE  [pc = "run" /\ pc' # "stopped" => stage_cur' > stage_cur]_vars
  <2> SUFFICES ASSUME Next, pc = "run", pc' # "stopped" PROVE stage_cur' > stage_cur
    BY <1>1
  <2>1. PICK success \in BOOLEAN : PostTrim(success)
    BY DEF Next, TrimStep, QueueGet, InitTrim, SubtreeTrim, RecursiveTrim, EndTrim, Abort, Finished
  <2>2. Counted
    BY <1>1, <2>1, PostTrimInv
  <2>3. stage_cur' = cur_subtree_step' + cur_recursive_step'
    BY <2>1 DEF PostTrim
  <2>4. stage_cur = cur_subtree_step + cur_recursive_step
    BY <1>1 DEF IInv, Looping
  <2> QED BY <2>2, <2>3, <2>4 DEF Counted
<1> QED BY <1>1, Invariance, PTL DEF Spec, ProgressGrows

-----------------------------------------------------------------------------
(* The history of what was tried: the inductive invariant.                 *)

(* The origins o of the nodes of a tree t, of which those in T have been   *)
(* tried.  What a trim cut out had not been tried, so no two nodes have    *)
(* one origin except 0; and no recursion edge leads into the inside of a   *)
(* minimal subtree.                                                        *)
Origins(t, o, T) ==
  /\ o \in Seq(Int) /\ Len(o) = Len(t)
  /\ \A j, k \in 1..Len(t) : j < k /\ o[j] = o[k] => o[j] = 0
  /\ \A c \in EdgeSet(t) : o[c] # 0
  /\ \A k \in 1..Len(t) : o[k] < 0 => -o[k] \in T

(* Beyond place n the nodes, or the recursion edges, are from the tree the *)
(* loop started with and have not been tried.  C holds the origins of the  *)
(* children of the edges that were.                                        *)
NodesUntried(t, o, T, n) == \A k \in (n+1)..Len(t) : o[k] > 0 /\ o[k] \notin T

EdgesUntried(t, o, C, n) ==
  \A k \in (n+1)..Len(RecursionEdges(t)) : o[RecursionEdges(t)[k]] \notin C

ChildrenOf(E) == {e[2] : e \in E}

(* Between the hooks, for the tree that is being trimmed ...               *)
CurrentUntried ==
  pc \in {"trim", "run"} =>
    /\ Origins(tree_cur, origin, tried_nodes)
    /\ stage = 0 => /\ NodesUntried(tree_cur, origin, tried_nodes, finished_nodes + InFlight)
                    /\ tried_edges = {}
    /\ stage = 1 => EdgesUntried(tree_cur, origin, ChildrenOf(tried_edges),
                                 finished_edges + InFlight)

(* ... and for the trimmed one: a cut leaves the nodes after the minimal   *)
(* subtree, a promotion the edges after those that were tried before it.   *)
TrimmedUntried ==
  pc = "run" =>
    /\ Origins(trimmed_tree, trimmed_origin, tried_nodes)
    /\ stage = 0 => NodesUntried(trimmed_tree, trimmed_origin, tried_nodes,
                                 SubtreeEnd(trimmed_tree, finished_nodes + 1))
    /\ stage = 1 => EdgesUntried(trimmed_tree, trimmed_origin, ChildrenOf(tried_edges),
                                 finished_edges)

(* As long as all trims fail the tree is the one the loop started with and *)
(* what was tried is what the counters say.                                *)
TriedEdgesUpto(n) == {EdgeOrigin(RecursionEdges(tree_cur)[k]) : k \in 1..n}
CurrentTried == TriedEdgesUpto(finished_edges + InFlight)

AllFailed ==
  pc \in {"trim", "run"} /\ ~trim_was_effective =>
    /\ origin = NonTerminalNodes(tree_cur)
    /\ stage = 0 => /\ tried_nodes = 1..(finished_nodes + InFlight)
                    /\ finished_nodes + InFlight <= Len(tree_cur)
    /\ stage = 1 => /\ tried_nodes = DOMAIN tree_cur
                    /\ tried_edges = CurrentTried

HistoryInv == CurrentUntried /\ TrimmedUntried /\ AllFailed /\ FailuresTryEverything

(* The origins after a cut, as in HSubtreeTrim, and after a promotion, as  *)
(* in HRecursiveTrim.                                                      *)
OriginsCut(t, o, i, size) ==
  Splice(o, i, SubtreeEnd(t, i), [k \in 1..size |-> IF k = 1 THEN -o[i] ELSE 0])

OriginsPromoted(t, o, c) ==
  Splice(o, ParentOf(t, c), SubtreeEnd(t, ParentOf(t, c)), SubSeq(o, c, SubtreeEnd(t, c)))

(* Node i, or edge c, is the first that the history holds for untried.     *)
NextToCut(t, o, T, i) == Origins(t, o, T) /\ NodesUntried(t, o, T, i-1)

NextToPromote(t, o, T, C, n, c) ==
  /\ n \in Nat /\ n+1 <= Cardinality(EdgeSet(t))
  /\ c = RecursionEdges(t)[n+1] /\ c \in EdgeSet(t)
  /\ Origins(t, o, T) /\ EdgesUntried(t, o, C, n)

(* What a cut does to the origins: the root of the minimal subtree gets    *)
(* the negated origin, which no node has, since it had not been tried.     *)
LEMMA CutOrigins ==
  ASSUME NEW N, NodeSet(N), NEW t \in Seq(N), NEW m \in Seq(N), IsTree(t), IsTree(m),
         NEW i \in 1..Len(t), m[1].id = t[i].id, EdgeSet(m) = {},
         NEW o, NEW T, NextToCut(t, o, T, i)
  PROVE  /\ Origins(t, o, T \cup {o[i]}) /\ NodesUntried(t, o, T \cup {o[i]}, i)
         /\ Origins(ReplaceSubtree(t, i, m), OriginsCut(t, o, i, Len(m)), T \cup {o[i]})
         /\ NodesUntried(ReplaceSubtree(t, i, m), OriginsCut(t, o, i, Len(m)), T \cup {o[i]},
                         SubtreeEnd(ReplaceSubtree(t, i, m), i))
<1> DEFINE e == SubtreeEnd(t, i)
           new == [k \in 1..Len(m) |-> IF k = 1 THEN -o[i] ELSE 0]
           ro == Splice(o, i, e, new)
           r == ReplaceSubtree(t, i, m)
           l == (i-1) + Len(m)
           tried == T \cup {o[i]}
<1>1. /\ Len(t) \in Nat /\ Len(m) \in Nat /\ Len(m) > 0 /\ e \in i..Len(t)
  BY SubtreeEndExists, LenProperties DEF IsTree
<1>2. /\ o \in Seq(Int) /\ Len(o) = Len(t) /\ \A k \in 1..Len(t) : o[k] \in Int
      /\ \A j, k \in 1..Len(t) : j < k /\ o[j] = o[k] => o[j] = 0
      /\ \A c \in EdgeSet(t) : o[c] # 0
      /\ \A k \in 1..Len(t) : o[k] < 0 => -o[k] \in T
  BY ElementOfSeq DEF Origins, NextToCut
<1>3. \A k \in i..Len(t) : o[k] > 0 /\ o[k] \notin T
  <2>1. (i-1)+1 = i
    BY <1>1
  <2> QED BY <2>1 DEF NodesUntried, NextToCut
<1>4. new \in Seq(Int) /\ Len(new) = Len(m) /\ new[1] = -o[i]
      /\ \A k \in 2..Len(m) : new[k] = 0
  <2>1. o[i] \in Int /\ -o[i] \in Int /\ 1 \in 1..Len(m)
    BY <1>1, <1>2
  <2>2. new \in [1..Len(m) -> Int]
    BY <1>1, <2>1
  <2>3. \A n \in Nat : \A f \in [1..n -> Int] : f \in Seq(Int) /\ Len(f) = n
    OBVIOUS
  <2> QED BY <1>1, <2>1, <2>2, <2>3
<1>5. /\ ro \in Seq(Int) /\ Len(ro) = (i-1) + Len(m) + (Len(t)-e)
      /\ Spliced(ro, o, i, e, new)
  <2> HIDE DEF new, e
  <2>1. i \in 1..Len(o) /\ e \in i..Len(o) /\ o \in Seq(Int) /\ new \in Seq(Int)
    BY <1>1, <1>2, <1>4
  <2>2. /\ ro \in Seq(Int) /\ Len(ro) = (i-1) + Len(new) + (Len(o)-e)
        /\ Spliced(ro, o, i, e, new)
    BY <2>1, SpliceElements
  <2> QED BY <1>2, <1>4, <2>2
<1>6. Len(r) = (i-1) + Len(m) + (Len(t)-e) /\ SubtreeEnd(r, i) = l
  BY ReplaceLength, ReplaceIsTree
<1>7. /\ \A k \in 1..(i-1) : ro[k] = o[k]
      /\ ro[i] = -o[i]
      /\ \A k \in (i+1)..l : ro[k] = 0
      /\ \A k \in (l+1)..Len(r) : ro[k] = o[k-l+e] /\ k-l+e \in (e+1)..Len(t)
  <2> HIDE DEF new, e, ro, r
  <2>1. \A k \in 1..(i-1) : ro[k] = o[k]
    BY <1>5 DEF Spliced
  <2>2. \A k \in 1..Len(m) : ro[(i-1)+k] = new[k]
    BY <1>4, <1>5 DEF Spliced
  <2>3. \A k \in 1..(Len(t)-e) : ro[l+k] = o[e+k]
    BY <1>2, <1>4, <1>5 DEF Spliced
  <2>4. ro[i] = -o[i]
    <3>1. 1 \in 1..Len(m) /\ (i-1)+1 = i
      BY <1>1
    <3> QED BY <1>4, <2>2, <3>1
  <2>5. ASSUME NEW k \in (i+1)..l PROVE ro[k] = 0
    <3>1. k-(i-1) \in 2..Len(m) /\ k-(i-1) \in 1..Len(m) /\ (i-1)+(k-(i-1)) = k
      BY <1>1
    <3> QED BY <1>4, <2>2, <3>1
  <2>6. ASSUME NEW k \in (l+1)..Len(r) PROVE ro[k] = o[k-l+e] /\ k-l+e \in (e+1)..Len(t)
    <3>1. k-l \in 1..(Len(t)-e) /\ l+(k-l) = k /\ e+(k-l) = k-l+e /\ k-l+e \in (e+1)..Len(t)
      BY <1>1, <1>6
    <3> QED BY <2>3, <3>1
  <2> QED BY <2>1, <2>4, <2>5, <2>6
<1>8. l \in Nat /\ l >= i /\ Len(r) \in Nat /\ i \in Nat /\ i >= 1 /\ Len(r) = l + (Len(t)-e)
  BY <1>1, <1>6
<1>9. o[i] \in Int /\ o[i] > 0 /\ o[i] \notin T
  BY <1>1, <1>2, <1>3
<1> HIDE DEF new, e, ro, r, l, tried
<1>10. Origins(t, o, tried)
  BY <1>2 DEF Origins, tried
<1>11. NodesUntried(t, o, tried, i)
  <2> SUFFICES ASSUME NEW k \in (i+1)..Len(t) PROVE o[k] > 0 /\ o[k] \notin tried
    BY DEF NodesUntried
  <2>1. k \in i..Len(t) /\ i < k /\ k \in 1..Len(t) /\ i \in 1..Len(t)
    BY <1>1
  <2> QED BY <1>2, <1>3, <1>9, <2>1 DEF tried
<1>12. \A k \in 1..(i-1) : k \in 1..Len(t)
  BY <1>1
<1>13. \A k \in (l+1)..Len(r) : k-l+e \in i..Len(t) /\ k-l+e \in 1..Len(t) /\ i < k-l+e
  BY <1>1, <1>7, <1>8
<1>14. Origins(r, ro, tried)
  <2>1. ASSUME NEW j \in 1..Len(r), NEW k \in 1..Len(r), j < k, ro[j] = ro[k]
        PROVE  ro[j] = 0
    <3>1. CASE k \in 1..(i-1)
      <4>1. j \in 1..(i-1)
        BY <1>8, <2>1, <3>1
      <4> QED BY <1>2, <1>7, <1>12, <2>1, <3>1, <4>1
    <3>2. CASE k = i
      <4>1. j \in 1..(i-1) /\ j \in 1..Len(t)
        BY <1>8, <1>12, <2>1, <3>2
      <4>2. o[j] = -o[i] /\ o[j] \in Int
        BY <1>2, <1>7, <2>1, <3>2, <4>1
      <4>3. o[j] < 0 /\ -o[j] = o[i]
        BY <1>9, <4>2
      <4> QED BY <1>2, <1>9, <4>1, <4>3
    <3>3. CASE k \in (i+1)..l
      BY <1>7, <2>1, <3>3
    <3>4. CASE k \in (l+1)..Len(r)
      <4>1. ro[k] = o[k-l+e] /\ o[k-l+e] > 0 /\ k-l+e \in 1..Len(t) /\ i < k-l+e
            /\ o[k-l+e] \in Int
        BY <1>2, <1>3, <1>7, <1>13, <3>4
      <4>2. CASE j \in 1..(i-1)
        <5>1. ro[j] = o[j] /\ j < k-l+e /\ j \in 1..Len(t)
          BY <1>7, <1>8, <1>12, <4>1, <4>2
        <5> QED BY <1>2, <2>1, <4>1, <5>1
      <4>3. CASE j = i
        BY <1>7, <1>9, <2>1, <4>1, <4>3
      <4>4. CASE j \in (i+1)..l
        BY <1>7, <4>4
      <4>5. CASE j \in (l+1)..Len(r)
        <5>1. ro[j] = o[j-l+e] /\ j-l+e \in 1..Len(t) /\ j-l+e < k-l+e
          BY <1>1, <1>7, <1>8, <1>13, <2>1, <4>5
        <5> QED BY <1>2, <2>1, <4>1, <5>1
      <4> QED BY <1>8, <4>2, <4>3, <4>4, <4>5
    <3> QED BY <1>8, <3>1, <3>2, <3>3, <3>4
  <2>2. ASSUME NEW c \in EdgeSet(r) PROVE ro[c] # 0
    <3>1. \/ c <= i /\ c \in EdgeSet(t)
          \/ l < c /\ c-l+e \in EdgeSet(t)
      BY ReplaceEdges DEF r, l, e
    <3>2. c \in 2..Len(r)
      BY EdgeSetFinite, ReplaceLength DEF r
    <3>3. CASE c <= i /\ c \in EdgeSet(t)
      <4>1. c = i \/ c \in 1..(i-1)
        BY <1>8, <3>2, <3>3
      <4> QED BY <1>2, <1>7, <1>9, <3>3, <4>1
    <3>4. CASE l < c /\ c-l+e \in EdgeSet(t)
      <4>1. c \in (l+1)..Len(r)
        BY <1>8, <3>2, <3>4
      <4> QED BY <1>2, <1>7, <3>4, <4>1
    <3> QED BY <3>1, <3>3, <3>4
  <2>3. ASSUME NEW k \in 1..Len(r), ro[k] < 0 PROVE -ro[k] \in tried
    <3>1. CASE k \in 1..(i-1)
      BY <1>2, <1>7, <1>12, <2>3, <3>1 DEF tried
    <3>2. CASE k = i
      <4>1. -ro[k] = o[i]
        BY <1>7, <1>9, <3>2
      <4> QED BY <4>1 DEF tried
    <3>3. CASE k \in (i+1)..l
      BY <1>7, <2>3, <3>3
    <3>4. CASE k \in (l+1)..Len(r)
      BY <1>2, <1>7, <1>13, <2>3, <3>4 DEF tried
    <3> QED BY <1>8, <3>1, <3>2, <3>3, <3>4
  <2>4. ro \in Seq(Int) /\ Len(ro) = Len(r)
    BY <1>5, <1>6
  <2> QED BY <2>1, <2>2, <2>3, <2>4 DEF Origins
<1>15. NodesUntried(r, ro, tried, SubtreeEnd(r, i))
  <2> SUFFICES ASSUME NEW k \in (l+1)..Len(r) PROVE ro[k] > 0 /\ ro[k] \notin tried
    BY <1>6 DEF NodesUntried
  <2>1. ro[k] = o[k-l+e] /\ o[k-l+e] > 0 /\ o[k-l+e] \notin T
    BY <1>3, <1>7, <1>13
  <2>2. o[k-l+e] # o[i]
    <3>1. k-l+e \in 1..Len(t) /\ i < k-l+e /\ i \in 1..Len(t)
      BY <1>13
    <3> DEFINE j == k-l+e
    <3>2. j \in 1..Len(t) /\ i < j /\ i \in 1..Len(t)
      BY <3>1
    <3> HIDE DEF j
    <3>3. o[j] # o[i]
      BY <1>2, <1>9, <3>2
    <3> QED BY <3>3 DEF j
  <2> QED BY <2>1, <2>2 DEF tried
<1> QED BY <1>10, <1>11, <1>14, <1>15 DEF OriginsCut, new, e, ro, r, l, tried

(* Node k of a tree in which the segment c..f took the place of p..e, up   *)
(* to node l, was this node before.                                        *)
SourceOf(p, e, c, l, k) == IF k < p THEN k ELSE IF k <= l THEN k-p+c ELSE k-l+e

(* n nodes before, size after; the segment moved lies inside the other.    *)
Moved(p, e, c, f, n, l, size) ==
  /\ {p, e, c, f, n, l, size} \subseteq Nat
  /\ 1 <= p /\ p < c /\ c <= f /\ f <= e /\ e <= n
  /\ l = p + (f-c) /\ size = l + (n-e)

LEMMA Sources ==
  ASSUME NEW p, NEW e, NEW c, NEW f, NEW n, NEW l, NEW size, Moved(p, e, c, f, n, l, size)
  PROVE  /\ p <= l /\ l <= size /\ SourceOf(p, e, c, l, p) = c
         /\ \A k \in 1..size : SourceOf(p, e, c, l, k) \in 1..n
         /\ \A j, k \in 1..size : j < k => SourceOf(p, e, c, l, j) < SourceOf(p, e, c, l, k)
<1>1. /\ p \in Nat /\ e \in Nat /\ c \in Nat /\ f \in Nat /\ n \in Nat /\ l \in Nat /\ size \in Nat
      /\ 1 <= p /\ p < c /\ c <= f /\ f <= e /\ e <= n /\ l = p + (f-c) /\ size = l + (n-e)
  BY DEF Moved
<1>2. p <= l /\ l <= size /\ l-p = f-c
  BY <1>1
<1>3. ASSUME NEW k \in 1..size PROVE SourceOf(p, e, c, l, k) \in 1..n
  BY <1>1, <1>2 DEF SourceOf
<1>4. ASSUME NEW j \in 1..size, NEW k \in 1..size, j < k
      PROVE  SourceOf(p, e, c, l, j) < SourceOf(p, e, c, l, k)
  BY <1>1, <1>2, <1>4 DEF SourceOf
<1>5. SourceOf(p, e, c, l, p) = c
  BY <1>1, <1>2 DEF SourceOf
<1> QED BY <1>2, <1>3, <1>4, <1>5

LEMMA SplicedSource ==
  ASSUME NEW p, NEW e, NEW c, NEW f, NEW n, NEW l, NEW size, Moved(p, e, c, f, n, l, size),
         NEW o, NEW part, NEW ro, Len(o) = n, Len(part) = f-c+1,
         \A k \in 1..(f-c+1) : part[k] = o[c+k-1], Spliced(ro, o, p, e, part),
         NEW k \in 1..size
  PROVE  ro[k] = o[SourceOf(p, e, c, l, k)]
<1>1. /\ p \in Nat /\ e \in Nat /\ c \in Nat /\ f \in Nat /\ n \in Nat /\ l \in Nat /\ size \in Nat
      /\ 1 <= p /\ p < c /\ c <= f /\ f <= e /\ e <= n /\ l = p + (f-c) /\ size = l + (n-e)
      /\ k \in Nat /\ 1 <= k /\ k <= size
  BY DEF Moved
<1>2. CASE k < p
  BY <1>1, <1>2 DEF Spliced, SourceOf
<1>3. CASE p <= k /\ k <= l
  <2> DEFINE j == k-p+1
  <2>1. j \in 1..(f-c+1) /\ (p-1)+j = k /\ c+j-1 = k-p+c /\ ~(k < p)
    BY <1>1, <1>3
  <2> HIDE DEF j
  <2>2. ro[(p-1)+j] = part[j] /\ part[j] = o[c+j-1]
    BY <2>1 DEF Spliced
  <2> QED BY <1>3, <2>1, <2>2 DEF SourceOf
<1>4. CASE l < k
  <2> DEFINE j == k-l
  <2>1. (p-1)+(f-c+1) = l /\ n-e \in Nat /\ size - l = n-e
    BY <1>1
  <2>2. j \in 1..(n-e) /\ l+j = k /\ e+j = k-l+e /\ ~(k < p) /\ ~(k <= l)
    BY <1>1, <1>4, <2>1
  <2> HIDE DEF j
  <2>3. ro[(p-1)+(f-c+1)+j] = o[e+j]
    BY <2>2 DEF Spliced
  <2> QED BY <2>1, <2>2, <2>3 DEF SourceOf
<1> QED BY <1>1, <1>2, <1>3, <1>4

(* What a promotion does to them: every node of the new tree is one of the *)
(* old tree, in the same order, and the edges whose rank is beyond the one *)
(* just tried have the children they had.                                  *)
LEMMA PromoteOrigins ==
  ASSUME NEW N, NodeSet(N), NEW t \in Seq(N), IsTree(t),
         NEW n, NEW c, NEW o, NEW T, NEW C, NextToPromote(t, o, T, C, n, c)
  PROVE  /\ EdgesUntried(t, o, C \cup {o[c]}, n+1)
         /\ Origins(PromoteSubtree(t, c), OriginsPromoted(t, o, c), T)
         /\ EdgesUntried(PromoteSubtree(t, c), OriginsPromoted(t, o, c), C \cup {o[c]}, n)
<1> DEFINE p == ParentOf(t, c)
           e == SubtreeEnd(t, p)
           f == SubtreeEnd(t, c)
           part == SubSeq(o, c, f)
           ro == Splice(o, p, e, part)
           r == PromoteSubtree(t, c)
           l == p + (f - c)
           all == RecursionEdges(t)
           tried == C \cup {o[c]}
<1>24. /\ n \in Nat /\ n+1 <= Cardinality(EdgeSet(t)) /\ c = RecursionEdges(t)[n+1]
       /\ c \in EdgeSet(t)
  BY DEF NextToPromote
<1>25. Origins(t, o, T) /\ EdgesUntried(t, o, C, n)
  BY DEF NextToPromote
<1>1. /\ Len(t) \in Nat /\ c \in 2..Len(t) /\ p \in 1..(c-1) /\ p \in 1..Len(t)
      /\ f \in c..Len(t) /\ e \in p..Len(t) /\ f <= e
  <2>1. Len(t) \in Nat /\ c \in 2..Len(t) /\ p \in 1..(c-1) /\ f <= e
    BY <1>24, EdgeParent, LenProperties
  <2>2. c \in 1..Len(t) /\ p \in 1..Len(t)
    BY <2>1
  <2>3. f \in c..Len(t) /\ e \in p..Len(t)
    BY <2>2, SubtreeEndExists
  <2> QED BY <2>1, <2>2, <2>3
<1>21. /\ p \in Nat /\ c \in Nat /\ f \in Nat /\ e \in Nat /\ Len(t) \in Nat
        /\ 1 <= p /\ p < c /\ c <= f /\ f <= e /\ e <= Len(t)
  <2> HIDE DEF p, f, e
  <2> QED BY <1>1
<1>2. /\ o \in Seq(Int) /\ Len(o) = Len(t) /\ \A k \in 1..Len(t) : o[k] \in Int
      /\ \A j, k \in 1..Len(t) : j < k /\ o[j] = o[k] => o[j] = 0
      /\ \A k \in EdgeSet(t) : o[k] # 0
      /\ \A k \in 1..Len(t) : o[k] < 0 => -o[k] \in T
  BY <1>25, ElementOfSeq DEF Origins
<1>3. /\ part \in Seq(Int) /\ Len(part) = f-c+1
      /\ \A k \in 1..(f-c+1) : part[k] = o[c+k-1]
  <2>1. \A k \in c..f : o[k] \in Int
    BY <1>1, <1>2
  <2> QED BY <1>1, <2>1, SubSeqProperties
<1>4. /\ ro \in Seq(Int) /\ Len(ro) = (p-1) + (f-c+1) + (Len(t)-e)
      /\ Spliced(ro, o, p, e, part)
  <2> HIDE DEF part, p, e, f
  <2>1. p \in 1..Len(o) /\ e \in p..Len(o) /\ o \in Seq(Int) /\ part \in Seq(Int)
    BY <1>1, <1>2, <1>3
  <2>2. /\ ro \in Seq(Int) /\ Len(ro) = (p-1) + Len(part) + (Len(o)-e)
        /\ Spliced(ro, o, p, e, part)
    BY <2>1, SpliceElements
  <2> QED BY <1>2, <1>3, <2>2
<1>5. /\ Len(r) = Len(t) - (e - p) + (f - c)
      /\ PromotedFrom(t, c) \in [EdgeSet(r) -> EdgeSet(t) \ {c}]
      /\ \A x, y \in EdgeSet(r) : x < y => PromotedFrom(t, c)[x] < PromotedFrom(t, c)[y]
      /\ r \in Seq(N)
  BY <1>24, PromoteEdges
<1>6. \A x \in EdgeSet(r) : PromotedFrom(t, c)[x] =
         IF x <= p THEN x ELSE IF x <= l THEN x - p + c ELSE x - l + e
  BY DEF PromotedFrom
<1>7. EdgeSet(t) \subseteq 2..Len(t) /\ IsFiniteSet(EdgeSet(t)) /\ EdgeSet(t) \in SUBSET Nat
  BY EdgeSetFinite
<1>8. EdgeSet(r) \subseteq 2..Len(r) /\ IsFiniteSet(EdgeSet(r)) /\ EdgeSet(r) \in SUBSET Nat
  <2> HIDE DEF r
  <2> QED BY <1>5, EdgeSetFinite
<1> DEFINE src(k) == SourceOf(p, e, c, l, k)
<1>9. l \in Nat /\ l = p + (f-c)
  <2> HIDE DEF p, f
  <2> QED BY <1>21
<1>10. Len(r) \in Nat /\ Len(r) = l + (Len(t)-e) /\ Len(ro) = Len(r)
  <2> HIDE DEF p, f, e, r, l, ro, part
  <2>1. \A a, b, d, g, k \in Nat : d <= g /\ g <= b => /\ a - (b-k) + (g-d) = (k + (g-d)) + (a-b)
                                                  /\ (k-1) + (g-d+1) + (a-b) = (k + (g-d)) + (a-b)
    OBVIOUS
  <2>2. Len(t) - (e - p) + (f - c) = (p + (f-c)) + (Len(t)-e)
        /\ (p-1) + (f-c+1) + (Len(t)-e) = (p + (f-c)) + (Len(t)-e)
    BY <1>21, <2>1
  <2>3. Len(r) = l + (Len(t)-e) /\ Len(ro) = l + (Len(t)-e)
    BY <1>4, <1>5, <1>9, <2>2
  <2> QED BY <1>9, <1>21, <2>3
<1> HIDE DEF part, e, f, p, ro, r, l, all, tried
<1>22. /\ p <= l /\ l <= Len(r) /\ src(p) = c
       /\ \A k \in 1..Len(r) : src(k) \in 1..Len(t)
       /\ \A j, k \in 1..Len(r) : j < k => src(j) < src(k)
  <2>1. Moved(p, e, c, f, Len(t), l, Len(r))
    BY <1>9, <1>10, <1>21 DEF Moved
  <2> QED BY <2>1, Sources
<1>23. \A k \in 1..Len(r) : ro[k] = o[src(k)]
  <2> TAKE k \in 1..Len(r)
  <2>1. Len(o) = Len(t) /\ Len(part) = f-c+1 /\ Spliced(ro, o, p, e, part)
        /\ \A j \in 1..(f-c+1) : part[j] = o[c+j-1]
    BY <1>2, <1>3, <1>4
  <2>2. Moved(p, e, c, f, Len(t), l, Len(r))
    BY <1>9, <1>10, <1>21 DEF Moved
  <2> QED BY <2>1, <2>2, SplicedSource
<1>13. \A x \in EdgeSet(r) : x # p => PromotedFrom(t, c)[x] = src(x)
  <2> SUFFICES ASSUME NEW x \in EdgeSet(r), x # p PROVE PromotedFrom(t, c)[x] = src(x)
    OBVIOUS
  <2>1. x \in 1..Len(r) /\ x \in Nat
    BY <1>8
  <2> QED BY <1>6, <1>9, <1>21, <2>1 DEF SourceOf
<1> HIDE DEF src
<1>15. Origins(r, ro, T)
  <2>1. ASSUME NEW j \in 1..Len(r), NEW k \in 1..Len(r), j < k, ro[j] = ro[k]
        PROVE  ro[j] = 0
    BY <1>2, <1>22, <1>23, <2>1
  <2>2. ASSUME NEW x \in EdgeSet(r) PROVE ro[x] # 0
    <3>1. x \in 1..Len(r) /\ PromotedFrom(t, c)[x] \in EdgeSet(t)
      BY <1>5, <1>8
    <3>2. src(x) \in EdgeSet(t)
      BY <1>13, <1>22, <1>24, <3>1
    <3> QED BY <1>2, <1>22, <1>23, <3>1, <3>2
  <2>3. ASSUME NEW k \in 1..Len(r), ro[k] < 0 PROVE -ro[k] \in T
    BY <1>2, <1>22, <1>23, <2>3
  <2> QED BY <1>4, <1>10, <2>1, <2>2, <2>3 DEF Origins
<1>16. /\ Len(all) = Cardinality(EdgeSet(t)) /\ Cardinality(EdgeSet(t)) \in Nat
       /\ \A k \in 1..Cardinality(EdgeSet(t)) : all[k] \in EdgeSet(t)
       /\ \A j, k \in 1..Cardinality(EdgeSet(t)) : j < k <=> all[j] < all[k]
  BY <1>7, AscendingMembers, AscendingOrder, WorkLists DEF all, RecursionEdges
<1>17. n+1 \in 1..Cardinality(EdgeSet(t)) /\ all[n+1] = c
  BY <1>16, <1>24 DEF all
<1>18. \A k \in (n+2)..Cardinality(EdgeSet(t)) : all[k] > c /\ o[all[k]] \notin tried
  <2> TAKE k \in (n+2)..Cardinality(EdgeSet(t))
  <2>1. k \in 1..Cardinality(EdgeSet(t)) /\ n+1 < k /\ k \in (n+1)..Len(all)
    BY <1>16, <1>24
  <2>2. all[k] \in EdgeSet(t) /\ all[n+1] < all[k]
    BY <1>16, <1>17, <2>1
  <2>3. o[all[k]] \notin C
    BY <1>25, <2>1 DEF EdgesUntried, all
  <2>4. o[all[k]] # o[c]
    <3>1. all[k] \in 1..Len(t) /\ c \in 1..Len(t) /\ c < all[k]
      BY <1>1, <1>7, <1>17, <2>2
    <3> QED BY <1>2, <1>24, <3>1
  <2> QED BY <1>1, <1>17, <2>2, <2>3, <2>4 DEF tried
<1>19. EdgesUntried(t, o, tried, n+1)
  <2>1. (n+1)+1 = n+2
    BY <1>24
  <2> QED BY <1>16, <1>18, <2>1 DEF EdgesUntried, all
<1>20. EdgesUntried(r, ro, tried, n)
  <2> SUFFICES ASSUME NEW k \in (n+1)..Len(RecursionEdges(r))
               PROVE  ro[RecursionEdges(r)[k]] \notin tried
    BY DEF EdgesUntried
  <2> DEFINE x == RecursionEdges(r)[k]
  <2>1. Len(RecursionEdges(r)) = Cardinality(EdgeSet(r)) /\ Cardinality(EdgeSet(r)) \in Nat
    BY <1>5, WorkLists
  <2>2. k \in (n+1)..Cardinality(EdgeSet(r)) /\ k \in 1..Cardinality(EdgeSet(r))
    BY <1>24, <2>1
  <2>3. x \in EdgeSet(r)
    BY <1>8, <2>2, AscendingMembers DEF RecursionEdges
  <2>4. \E j \in (n+2)..Cardinality(EdgeSet(t)) :
           PromotedFrom(t, c)[Ascending(EdgeSet(r))[k]] = Ascending(EdgeSet(t))[j]
    <3>1. c = Ascending(EdgeSet(t))[n+1]
      BY <1>24 DEF RecursionEdges
    <3>2. PromotedFrom(t, c) \in [EdgeSet(r) -> EdgeSet(t) \ {Ascending(EdgeSet(t))[n+1]}]
      BY <1>5, <3>1
    <3> DEFINE S == EdgeSet(r)
               V == EdgeSet(t)
               g == PromotedFrom(t, c)
    <3>3. /\ S \in SUBSET Nat /\ IsFiniteSet(S) /\ V \in SUBSET Nat /\ IsFiniteSet(V)
          /\ n+1 \in 1..Cardinality(V) /\ g \in [S -> V \ {Ascending(V)[n+1]}]
          /\ \A a, b \in S : a < b => g[a] < g[b]
          /\ k \in (n+1)..Cardinality(S)
      BY <1>5, <1>7, <1>8, <1>17, <2>2, <3>2
    <3> HIDE DEF S, V, g
    <3>4. \E j \in (n+2)..Cardinality(V) : g[Ascending(S)[k]] = Ascending(V)[j]
      BY <1>24, <3>3, RanksKept
    <3> QED BY <3>4 DEF S, V, g
  <2>5. PICK j \in (n+2)..Cardinality(EdgeSet(t)) : PromotedFrom(t, c)[x] = all[j]
    BY <2>4 DEF RecursionEdges, all
  <2> HIDE DEF x
  <2>6. PromotedFrom(t, c)[x] > c /\ o[PromotedFrom(t, c)[x]] \notin tried
    BY <1>18, <2>5
  <2>7. x # p
    <3>1. PromotedFrom(t, c)[x] = IF x <= p THEN x ELSE IF x <= l THEN x - p + c ELSE x - l + e
      BY <1>6, <2>3
    <3> QED BY <1>1, <2>6, <3>1
  <2>8. x \in 1..Len(r) /\ ro[x] = o[src(x)] /\ PromotedFrom(t, c)[x] = src(x)
    BY <1>8, <1>22, <1>23, <1>13, <2>3, <2>7
  <2> QED BY <2>6, <2>8 DEF x
<1> QED BY <1>15, <1>19, <1>20 DEF OriginsPromoted, part, e, f, p, ro, r, tried

-----------------------------------------------------------------------------
(* The node, or the edge, that the next trim takes off its list.           *)
LEMMA NextNode ==
  ASSUME IInv, pc = "trim", stage = 0, nodes # <<>>
  PROVE  /\ Head(nodes) = finished_nodes + 1 /\ finished_nodes + 1 \in 1..Len(tree_cur)
         /\ finished_nodes \in Nat
<1>1. tree_cur \in Seq(Node) /\ NodeSet(Node) /\ finished_nodes \in Nat
  BY TrimNodes DEF IInv, TypeOK
<1>2. nodes = DropFirst(NonTerminalNodes(tree_cur), finished_nodes)
  <2>1. SubtreeStage /\ InFlight = 0
    BY DEF IInv, Looping, InFlight
  <2> QED BY <1>1, <2>1 DEF SubtreeStage
<1> DEFINE all == NonTerminalNodes(tree_cur)
<1>3. /\ all \in Seq(Nat \ {0}) /\ Len(all) = Len(tree_cur) /\ Len(tree_cur) \in Nat
      /\ \A k \in 1..Len(tree_cur) : all[k] = k
  BY <1>1, WorkLists
<1> HIDE DEF all
<1>4. finished_nodes < Len(all) /\ Head(nodes) = all[finished_nodes+1]
  BY <1>1, <1>2, <1>3, DropFirstAgain DEF all
<1> QED BY <1>1, <1>3, <1>4

LEMMA NextEdge ==
  ASSUME IInv, pc = "trim", stage = 1, edges # <<>>
  PROVE  /\ Head(edges) = RecursionEdges(tree_cur)[finished_edges + 1]
         /\ finished_edges + 1 <= Cardinality(EdgeSet(tree_cur))
         /\ Head(edges) \in EdgeSet(tree_cur) /\ finished_edges \in Nat
<1>1. tree_cur \in Seq(Node) /\ NodeSet(Node) /\ finished_edges \in Nat
  BY TrimNodes DEF IInv, TypeOK
<1>2. edges = DropFirst(RecursionEdges(tree_cur), finished_edges)
  <2>1. RecursiveStage /\ InFlight = 0
    BY DEF IInv, Looping, InFlight
  <2> QED BY <1>1, <2>1 DEF RecursiveStage
<1> DEFINE all == RecursionEdges(tree_cur)
<1>3. /\ all \in Seq(Nat \ {0}) /\ all \in Seq(EdgeSet(tree_cur))
      /\ Len(all) = Cardinality(EdgeSet(tree_cur)) /\ Cardinality(EdgeSet(tree_cur)) \in Nat
  BY <1>1, WorkLists
<1> HIDE DEF all
<1>4. finished_edges < Len(all) /\ Head(edges) = all[finished_edges+1]
  BY <1>1, <1>2, <1>3, DropFirstAgain DEF all
<1>5. finished_edges + 1 \in 1..Len(all)
  BY <1>1, <1>3, <1>4
<1> QED BY <1>1, <1>3, <1>4, <1>5, ElementOfSeq DEF all

(* When a loop begins every node is its own origin and nothing is tried.   *)
LEMMA HInitTrimInv ==
  ASSUME IInv, IInv', HInitTrim
  PROVE  HistoryInv'
<1>1. /\ tree_cur' = tree_cur /\ stage' = 0 /\ finished_nodes' = 0
      /\ origin' = NonTerminalNodes(tree_cur) /\ tried_nodes' = {} /\ tried_edges' = {}
  BY DEF HInitTrim, InitTrim
<1>2. tree_cur \in Seq(Node) /\ NodeSet(Node)
  BY TrimNodes DEF IInv, TypeOK
<1>3. pc' = "trim" /\ InFlight' = 0
  <2>1. pc' \in {"trim", "write"}
    BY DEF HInitTrim, InitTrim
  <2>2. pc' # "write"
    BY <1>1 DEF IInv, Filed
  <2> QED BY <2>1, <2>2 DEF InFlight
<1>4. /\ origin' \in Seq(Nat \ {0}) /\ Len(origin') = Len(tree_cur) /\ Len(tree_cur) \in Nat
      /\ \A k \in 1..Len(tree_cur) : origin'[k] = k
  BY <1>1, <1>2, WorkLists
<1>5. Origins(tree_cur', origin', tried_nodes')
  <2>1. origin' \in Seq(Int)
    <3>1. \A k \in 1..Len(origin') : origin'[k] \in Int
      BY <1>4
    <3>2. origin' = [k \in 1..Len(tree_cur) |-> k]
      BY <1>1 DEF NonTerminalNodes
    <3>3. origin' \in [1..Len(tree_cur) -> Int]
      BY <1>4, <3>2
    <3> QED BY <1>4, <3>3, SeqDef
  <2>2. EdgeSet(tree_cur) \subseteq 2..Len(tree_cur)
    BY <1>2, EdgeSetFinite
  <2>3. \A c \in EdgeSet(tree_cur) : origin'[c] # 0
    BY <1>4, <2>2
  <2> QED BY <1>1, <1>4, <2>1, <2>3 DEF Origins
<1>6. NodesUntried(tree_cur', origin', tried_nodes', 0)
  BY <1>1, <1>4 DEF NodesUntried
<1>7. CurrentUntried'
  BY <1>1, <1>3, <1>5, <1>6 DEF CurrentUntried
<1>8. AllFailed'
  BY <1>1, <1>3, <1>4 DEF AllFailed
<1>9. TrimmedUntried' /\ FailuresTryEverything'
  BY <1>3 DEF TrimmedUntried, FailuresTryEverything
<1> QED BY <1>7, <1>8, <1>9 DEF HistoryInv

(* A cut takes a node that has not been tried.                             *)
LEMMA HSubtreeTrimInv ==
  ASSUME IInv, HistoryInv, HSubtreeTrim
  PROVE  HistoryInv'
<1> DEFINE i == finished_nodes + 1
<1>1. /\ pc = "trim" /\ stage = 0 /\ nodes # <<>> /\ pc' = "run" /\ stage' = 0
      /\ tree_cur' = tree_cur /\ finished_nodes' = finished_nodes
      /\ trim_was_effective' = trim_was_effective
      /\ origin' = origin /\ tried_edges' = tried_edges /\ InFlight = 0 /\ InFlight' = 1
      /\ \E m \in MinTrees[tree_cur[Head(nodes)].id] :
           trimmed_tree' = ReplaceSubtree(tree_cur, Head(nodes), m)
  BY DEF HSubtreeTrim, SubtreeTrim, subtreeVars, InFlight
<1>2. Head(nodes) = i /\ i \in 1..Len(tree_cur) /\ finished_nodes \in Nat
  BY <1>1, NextNode
<1>3. tree_cur \in Seq(Node) /\ NodeSet(Node) /\ IsTree(tree_cur) /\ Len(tree_cur) \in Nat
  BY <1>1, TrimNodes, LenProperties DEF IInv, TypeOK, Holding
<1>4. PICK m \in MinTrees[tree_cur[i].id] : trimmed_tree' = ReplaceSubtree(tree_cur, i, m)
  BY <1>1, <1>2
<1>5. m \in Seq(Node) /\ IsTree(m) /\ m[1].id = tree_cur[i].id /\ EdgeSet(m) = {} /\ Len(m) \in Nat
  <2>1. tree_cur[i] \in Node
    BY <1>2, <1>3, TreeTyping
  <2>2. tree_cur[i].id \in Ids
    BY <2>1 DEF Node
  <2> QED BY <2>2, MinTreesAssumption, LenProperties
<1> DEFINE size == Len(trimmed_tree') - (Len(tree_cur) - NonTermSize(tree_cur, i))
<1>6. trimmed_origin' = OriginsCut(tree_cur, origin, i, size) /\ tried_nodes' = tried_nodes \cup {origin[i]}
  BY <1>2 DEF HSubtreeTrim, OriginsCut
<1>7. size = Len(m)
  <2>1. Len(trimmed_tree') = (i-1) + Len(m) + (Len(tree_cur)-SubtreeEnd(tree_cur, i))
    <3> HIDE DEF i
    <3> QED BY <1>2, <1>3, <1>4, <1>5, ReplaceLength
  <2>2. SubtreeEnd(tree_cur, i) \in i..Len(tree_cur)
    <3> HIDE DEF i
    <3> QED BY <1>2, <1>3, SubtreeEndExists
  <2>3. NonTermSize(tree_cur, i) = SubtreeEnd(tree_cur, i) - i + 1
    BY DEF NonTermSize
  <2> HIDE DEF i
  <2>4. \A a, b, c, e \in Int : ((a-1) + b + (c-e)) - (c - (e-a+1)) = b
    OBVIOUS
  <2>5. i \in Int /\ Len(m) \in Int /\ Len(tree_cur) \in Int /\ SubtreeEnd(tree_cur, i) \in Int
    BY <1>2, <1>3, <1>5, <2>2
  <2>6. size = ((i-1) + Len(m) + (Len(tree_cur)-SubtreeEnd(tree_cur, i)))
                 - (Len(tree_cur) - (SubtreeEnd(tree_cur, i) - i + 1))
    BY <2>1, <2>3
  <2> HIDE DEF size
  <2> QED BY <2>4, <2>5, <2>6
<1>8. trimmed_origin' = OriginsCut(tree_cur, origin, i, Len(m))
  <2> HIDE DEF size
  <2> QED BY <1>6, <1>7
<1>9. /\ Origins(tree_cur, origin, tried_nodes) /\ tried_edges = {}
      /\ NextToCut(tree_cur, origin, tried_nodes, i)
      /\ finished_nodes + 0 = finished_nodes /\ finished_nodes + 1 = i
  <2>1. finished_nodes + 0 = finished_nodes
    BY <1>2
  <2>3. i-1 = finished_nodes
    BY <1>2
  <2> HIDE DEF i
  <2>2. /\ Origins(tree_cur, origin, tried_nodes) /\ tried_edges = {}
        /\ NodesUntried(tree_cur, origin, tried_nodes, finished_nodes + 0)
    BY <1>1 DEF HistoryInv, CurrentUntried
  <2> QED BY <2>1, <2>2, <2>3 DEF i, NextToCut
<1> HIDE DEF i, size
<1>10. /\ Origins(tree_cur, origin, tried_nodes') /\ NodesUntried(tree_cur, origin, tried_nodes', i)
       /\ Origins(trimmed_tree', trimmed_origin', tried_nodes')
       /\ NodesUntried(trimmed_tree', trimmed_origin', tried_nodes', SubtreeEnd(trimmed_tree', i))
  BY <1>2, <1>3, <1>4, <1>5, <1>6, <1>8, <1>9, CutOrigins
<1>11. CurrentUntried'
  BY <1>1, <1>9, <1>10 DEF CurrentUntried
<1>12. TrimmedUntried'
  BY <1>1, <1>9, <1>10 DEF TrimmedUntried
<1>13. AllFailed'
  <2> SUFFICES ASSUME ~trim_was_effective
               PROVE  /\ origin = NonTerminalNodes(tree_cur)
                      /\ tried_nodes' = 1..i /\ i <= Len(tree_cur)
    BY <1>1, <1>9 DEF AllFailed
  <2>1. origin = NonTerminalNodes(tree_cur) /\ tried_nodes = 1..(finished_nodes + 0)
    BY <1>1 DEF HistoryInv, AllFailed
  <2>2. origin[i] = i
    BY <1>2, <2>1 DEF NonTerminalNodes
  <2>3. tried_nodes = 1..finished_nodes
    BY <1>9, <2>1
  <2> QED BY <1>2, <1>3, <1>6, <1>9, <2>1, <2>2, <2>3
<1>14. FailuresTryEverything'
  BY <1>1 DEF FailuresTryEverything
<1> QED BY <1>11, <1>12, <1>13, <1>14 DEF HistoryInv

(* A promotion takes an edge that has not been tried.                      *)
LEMMA HRecursiveTrimInv ==
  ASSUME IInv, HistoryInv, HRecursiveTrim
  PROVE  HistoryInv'
<1> DEFINE c == Head(edges)
<1>1. /\ pc = "trim" /\ stage = 1 /\ edges # <<>> /\ pc' = "run" /\ stage' = 1
      /\ tree_cur' = tree_cur /\ finished_edges' = finished_edges
      /\ trim_was_effective' = trim_was_effective
      /\ origin' = origin /\ tried_nodes' = tried_nodes /\ InFlight = 0 /\ InFlight' = 1
      /\ trimmed_tree' = PromoteSubtree(tree_cur, c)
      /\ trimmed_origin' = OriginsPromoted(tree_cur, origin, c)
      /\ tried_edges' = tried_edges \cup {EdgeOrigin(c)}
  BY DEF HRecursiveTrim, RecursiveTrim, recursiveVars, InFlight, OriginsPromoted
<1>2. /\ c = RecursionEdges(tree_cur)[finished_edges + 1] /\ finished_edges \in Nat
      /\ finished_edges + 1 <= Cardinality(EdgeSet(tree_cur)) /\ c \in EdgeSet(tree_cur)
  BY <1>1, NextEdge
<1>3. tree_cur \in Seq(Node) /\ NodeSet(Node) /\ IsTree(tree_cur)
  BY <1>1, TrimNodes DEF IInv, TypeOK, Holding
<1> HIDE DEF c
<1>4. finished_edges + 0 = finished_edges
  BY <1>2
<1>5. /\ Origins(tree_cur, origin, tried_nodes)
      /\ EdgesUntried(tree_cur, origin, ChildrenOf(tried_edges), finished_edges)
  <2>1. /\ Origins(tree_cur, origin, tried_nodes)
        /\ EdgesUntried(tree_cur, origin, ChildrenOf(tried_edges), finished_edges + 0)
    BY <1>1 DEF HistoryInv, CurrentUntried
  <2> QED BY <1>4, <2>1
<1>6. ChildrenOf(tried_edges') = ChildrenOf(tried_edges) \cup {origin[c]}
  <2>1. EdgeOrigin(c)[2] = origin[c]
    BY DEF EdgeOrigin
  <2> QED BY <1>1, <2>1 DEF ChildrenOf
<1>7. /\ EdgesUntried(tree_cur, origin, ChildrenOf(tried_edges'), finished_edges + 1)
      /\ Origins(trimmed_tree', trimmed_origin', tried_nodes)
      /\ EdgesUntried(trimmed_tree', trimmed_origin', ChildrenOf(tried_edges'), finished_edges)
  <2>1. NextToPromote(tree_cur, origin, tried_nodes, ChildrenOf(tried_edges), finished_edges, c)
    BY <1>2, <1>5 DEF NextToPromote
  <2>2. /\ EdgesUntried(tree_cur, origin, ChildrenOf(tried_edges) \cup {origin[c]},
                        finished_edges + 1)
        /\ Origins(PromoteSubtree(tree_cur, c), OriginsPromoted(tree_cur, origin, c), tried_nodes)
        /\ EdgesUntried(PromoteSubtree(tree_cur, c), OriginsPromoted(tree_cur, origin, c),
                        ChildrenOf(tried_edges) \cup {origin[c]}, finished_edges)
    BY <1>3, <2>1, PromoteOrigins
  <2> QED BY <1>1, <1>6, <2>2
<1>8. CurrentUntried'
  BY <1>1, <1>5, <1>7 DEF CurrentUntried
<1>9. TrimmedUntried'
  BY <1>1, <1>7 DEF TrimmedUntried
<1>10. AllFailed'
  <2> SUFFICES ASSUME ~trim_was_effective
               PROVE  /\ origin = NonTerminalNodes(tree_cur) /\ tried_nodes = DOMAIN tree_cur
                      /\ tried_edges' = {EdgeOrigin(RecursionEdges(tree_cur)[k])' :
                                           k \in 1..(finished_edges + 1)}
    BY <1>1 DEF AllFailed, CurrentTried, TriedEdgesUpto, EdgeOrigin
  <2>1. /\ origin = NonTerminalNodes(tree_cur) /\ tried_nodes = DOMAIN tree_cur
        /\ tried_edges = TriedEdgesUpto(finished_edges + 0)
    BY <1>1 DEF HistoryInv, AllFailed, CurrentTried
  <2>2. \A k \in 1..(finished_edges + 1) :
           EdgeOrigin(RecursionEdges(tree_cur)[k])' = EdgeOrigin(RecursionEdges(tree_cur)[k])
    BY <1>1 DEF EdgeOrigin
  <2>3. tried_edges = {EdgeOrigin(RecursionEdges(tree_cur)[k]) : k \in 1..finished_edges}
    BY <1>4, <2>1 DEF TriedEdgesUpto
  <2>4. 1..(finished_edges + 1) = 1..finished_edges \cup {finished_edges + 1}
    BY <1>2
  <2>5. tried_edges' = {EdgeOrigin(RecursionEdges(tree_cur)[k]) : k \in 1..(finished_edges + 1)}
    BY <1>1, <1>2, <2>3, <2>4, Zenon
  <2> QED BY <2>1, <2>2, <2>5
<1>11. FailuresTryEverything'
  BY <1>1 DEF FailuresTryEverything
<1> QED BY <1>8, <1>9, <1>10, <1>11 DEF HistoryInv

(* Either verdict: the tree that stays has the history it needs, and when  *)
(* the lists run out after nothing but failures everything was tried.      *)
LEMMA HPostTrimInv ==
  ASSUME IInv, HistoryInv, NEW success \in BOOLEAN, HPostTrim(success)
  PROVE  HistoryInv'
<1>1. PostTrim(success) /\ pc = "run" /\ InFlight = 1 /\ stage \in {0, 1}
  BY DEF HPostTrim, PostTrim, InFlight, IInv, Looping
<1>2. /\ origin' = IF success THEN trimmed_origin ELSE origin
      /\ tried_nodes' = tried_nodes /\ tried_edges' = tried_edges
  BY DEF HPostTrim
<1>3. IInv' /\ Counted
  BY <1>1, PostTrimInv
<1>4. /\ tree_cur \in Seq(Node) /\ trimmed_tree \in Seq(Node) /\ NodeSet(Node)
      /\ Len(tree_cur) \in Nat /\ Len(trimmed_tree) \in Nat
      /\ finished_nodes \in Nat /\ finished_edges \in Nat
  BY TrimNodes, LenProperties DEF IInv, TypeOK
<1>5. /\ pc' \in {"trim", "write"} /\ InFlight' = 0
      /\ pc' = "trim" => stage' \in {0, 1}
      /\ stage = 1 => stage' # 0
      /\ finished_nodes' + 0 = finished_nodes' /\ finished_edges' + 0 = finished_edges'
      /\ finished_nodes' \in Nat /\ finished_edges' \in Nat
  <2>1. pc' \in {"trim", "write"} /\ InFlight' = 0
    BY <1>1 DEF PostTrim, InFlight
  <2>2. pc' = "trim" => stage' \in {0, 1}
    BY <1>3 DEF IInv, Looping
  <2>3. stage = 1 => stage' # 0
    BY <1>1 DEF PostTrim, StageAfter
  <2>4. finished_nodes' \in Nat /\ finished_edges' \in Nat
    BY <1>3 DEF Counted
  <2>5. \A n \in Nat : n + 0 = n
    OBVIOUS
  <2>6. finished_nodes' + 0 = finished_nodes' /\ finished_edges' + 0 = finished_edges'
    BY <2>4, <2>5
  <2> QED BY <2>1, <2>2, <2>3, <2>4, <2>6
<1>6. ASSUME success
      PROVE  /\ tree_cur' = trimmed_tree /\ trim_was_effective' = TRUE
             /\ finished_edges' = finished_edges
             /\ stage = 0 => finished_nodes' = SubtreeEnd(trimmed_tree, finished_nodes + 1) + 1
  <2>1. KeepTrimmed
    BY <1>1, <1>6 DEF PostTrim
  <2> QED BY <1>1, <2>1, KeepTrimmedCounted DEF KeepTrimmed
<1>7. ASSUME ~success
      PROVE  /\ tree_cur' = tree_cur /\ trim_was_effective' = trim_was_effective
             /\ stage = 0 => finished_nodes' = finished_nodes + 1 /\ finished_edges' = finished_edges
             /\ stage = 1 => finished_nodes' = finished_nodes /\ finished_edges' = finished_edges + 1
  <2>1. DiscardTrimmed
    BY <1>1, <1>7 DEF PostTrim
  <2> QED BY <2>1 DEF DiscardTrimmed
<1>8. /\ Origins(tree_cur, origin, tried_nodes) /\ Origins(trimmed_tree, trimmed_origin, tried_nodes)
      /\ stage = 0 => /\ tried_edges = {}
                      /\ NodesUntried(tree_cur, origin, tried_nodes, finished_nodes + 1)
                      /\ NodesUntried(trimmed_tree, trimmed_origin, tried_nodes,
                                      SubtreeEnd(trimmed_tree, finished_nodes + 1))
      /\ stage = 1 => /\ EdgesUntried(tree_cur, origin, ChildrenOf(tried_edges), finished_edges + 1)
                      /\ EdgesUntried(trimmed_tree, trimmed_origin, ChildrenOf(tried_edges),
                                      finished_edges)
  BY <1>1 DEF HistoryInv, CurrentUntried, TrimmedUntried
<1>9. CurrentUntried'
  <2>1. Origins(tree_cur', origin', tried_nodes)
    BY <1>2, <1>6, <1>7, <1>8
  <2>2. stage' = 0 /\ pc' = "trim" =>
          NodesUntried(tree_cur', origin', tried_nodes, finished_nodes') /\ tried_edges = {}
    <3> SUFFICES ASSUME stage' = 0, pc' = "trim"
                 PROVE  NodesUntried(tree_cur', origin', tried_nodes, finished_nodes')
      BY <1>1, <1>5, <1>8
    <3>1. stage = 0
      BY <1>1, <1>5
    <3>2. CASE success
      <4>1. NodesUntried(trimmed_tree, trimmed_origin, tried_nodes,
                         SubtreeEnd(trimmed_tree, finished_nodes + 1))
        BY <1>8, <3>1
      <4>2. finished_nodes' = SubtreeEnd(trimmed_tree, finished_nodes + 1) + 1
        BY <1>6, <3>1, <3>2
      <4>3. SubtreeEnd(trimmed_tree, finished_nodes + 1) \in Nat
        <5> DEFINE i == finished_nodes + 1
        <5>1. i \in 1..Len(trimmed_tree)
          BY <1>1, <1>4, <3>1 DEF IInv, Trimmed
        <5> HIDE DEF i
        <5>2. SubtreeEnd(trimmed_tree, i) \in i..Len(trimmed_tree)
          BY <1>4, <5>1, SubtreeEndExists
        <5>3. SubtreeEnd(trimmed_tree, i) \in Nat
          BY <1>4, <5>1, <5>2
        <5> QED BY <5>3 DEF i
      <4> HIDE DEF NodesUntried
      <4>4. NodesUntried(trimmed_tree, trimmed_origin, tried_nodes, finished_nodes')
        <5> DEFINE last == SubtreeEnd(trimmed_tree, finished_nodes + 1)
        <5> HIDE DEF last
        <5>1. \A k \in ((last+1)+1)..Len(trimmed_tree) : k \in (last+1)..Len(trimmed_tree)
          BY <1>4, <4>3 DEF last
        <5>2. NodesUntried(trimmed_tree, trimmed_origin, tried_nodes, last) /\ finished_nodes' = last+1
          BY <4>1, <4>2 DEF last
        <5> QED BY <5>1, <5>2 DEF NodesUntried
      <4> QED BY <1>2, <1>6, <3>2, <4>4
    <3>3. CASE ~success
      BY <1>2, <1>7, <1>8, <3>1, <3>3
    <3> QED BY <3>2, <3>3
  <2>3. stage' = 1 => EdgesUntried(tree_cur', origin', ChildrenOf(tried_edges), finished_edges')
    <3>1. CASE stage = 0
      <4>1. ChildrenOf(tried_edges) = {}
        BY <1>8, <3>1 DEF ChildrenOf
      <4> QED BY <4>1 DEF EdgesUntried
    <3>2. CASE stage = 1
      <4>1. success \/ ~success
        BY Zenon
      <4> QED BY <1>2, <1>6, <1>7, <1>8, <3>2, <4>1
    <3> QED BY <1>1, <3>1, <3>2
  <2> QED BY <1>2, <1>5, <2>1, <2>2, <2>3 DEF CurrentUntried
<1>10. TrimmedUntried'
  BY <1>5 DEF TrimmedUntried
<1>11. ASSUME ~trim_was_effective'
       PROVE  /\ tree_cur' = tree_cur /\ origin' = origin /\ origin = NonTerminalNodes(tree_cur)
              /\ stage = 0 => /\ tried_nodes = 1..finished_nodes' /\ finished_nodes' <= Len(tree_cur)
                              /\ finished_edges' = 0 /\ tried_edges = {}
              /\ stage = 1 => /\ tried_nodes = DOMAIN tree_cur
                              /\ tried_edges = TriedEdgesUpto(finished_edges')
                              /\ finished_edges' <= Cardinality(EdgeSet(tree_cur))
  <2>1. ~success /\ ~trim_was_effective
    <3>1. CASE success
      BY <1>6, <1>11, <3>1
    <3>2. CASE ~success
      BY <1>7, <1>11, <3>2
    <3> QED BY <3>1, <3>2
  <2>2. /\ origin = NonTerminalNodes(tree_cur)
        /\ stage = 0 => /\ tried_nodes = 1..(finished_nodes + 1)
                        /\ finished_nodes + 1 <= Len(tree_cur)
        /\ stage = 1 => /\ tried_nodes = DOMAIN tree_cur
                        /\ tried_edges = TriedEdgesUpto(finished_edges + 1)
    BY <1>1, <2>1 DEF HistoryInv, AllFailed, CurrentTried
  <2>3. stage = 0 => finished_edges' = 0
    BY <1>3 DEF Counted
  <2>4. stage = 1 => finished_edges + 1 <= Cardinality(EdgeSet(tree_cur))
    BY <1>1 DEF IInv, Trimmed
  <2> QED BY <1>2, <1>7, <1>8, <2>1, <2>2, <2>3, <2>4
<1>12. ASSUME ~trim_was_effective', nodes' = <<>>
       PROVE  tried_nodes = DOMAIN tree_cur
  <2>1. CASE stage = 0
    <3>1. nodes' = DropFirst(NonTerminalNodes(tree_cur), finished_nodes')
      BY <1>3, <1>11, <1>12, <2>1 DEF Counted
    <3>2. /\ NonTerminalNodes(tree_cur) \in Seq(Nat \ {0})
          /\ Len(NonTerminalNodes(tree_cur)) = Len(tree_cur)
      BY <1>4, WorkLists
    <3>3. Len(nodes') = IF finished_nodes' <= Len(tree_cur) THEN Len(tree_cur) - finished_nodes' ELSE 0
      BY <1>5, <3>1, <3>2, DropFirstElements
    <3>4. Len(nodes') = 0
      BY <1>12
    <3>5. finished_nodes' = Len(tree_cur)
      BY <1>4, <1>5, <1>11, <1>12, <2>1, <3>3, <3>4
    <3> QED BY <1>4, <1>11, <1>12, <2>1, <3>5, LenProperties
  <2> QED BY <1>1, <1>11, <1>12, <2>1
<1>13. TriedEdgesUpto(0) = {} /\ 0 \in Nat
  <2>1. 1..0 = {}
    OBVIOUS
  <2> QED BY <2>1 DEF TriedEdgesUpto
<1>14. ASSUME ~trim_was_effective'
       PROVE  tried_edges = TriedEdgesUpto(finished_edges')
  BY <1>1, <1>11, <1>13, <1>14
<1>15. ASSUME ~trim_was_effective' PROVE CurrentTried' = TriedEdgesUpto(finished_edges')
  <2>1. CurrentTried' =
          {<<origin'[ParentOf(tree_cur', RecursionEdges(tree_cur')[k])],
             origin'[RecursionEdges(tree_cur')[k]]>> : k \in 1..(finished_edges' + InFlight')}
    BY DEF CurrentTried, TriedEdgesUpto, EdgeOrigin
  <2>2. TriedEdgesUpto(finished_edges') =
          {<<origin[ParentOf(tree_cur, RecursionEdges(tree_cur)[k])],
             origin[RecursionEdges(tree_cur)[k]]>> : k \in 1..finished_edges'}
    BY DEF TriedEdgesUpto, EdgeOrigin
  <2>3. tree_cur' = tree_cur /\ origin' = origin /\ finished_edges' + InFlight' = finished_edges'
    BY <1>5, <1>11, <1>15
  <2> QED BY <2>1, <2>2, <2>3
<1>16. AllFailed'
  <2> SUFFICES ASSUME pc' = "trim", ~trim_was_effective'
               PROVE  /\ origin' = NonTerminalNodes(tree_cur')
                      /\ stage' = 0 => /\ tried_nodes' = 1..(finished_nodes' + InFlight')
                                       /\ finished_nodes' + InFlight' <= Len(tree_cur')
                      /\ stage' = 1 => /\ tried_nodes' = DOMAIN tree_cur'
                                       /\ tried_edges' = CurrentTried'
    BY <1>5 DEF AllFailed, CurrentTried
  <2>1. stage' = 0 => stage = 0
    BY <1>1, <1>5
  <2>2. stage' = 1 => nodes' = <<>>
    BY <1>3 DEF IInv, Looping, RecursiveStage
  <2> QED BY <1>2, <1>5, <1>11, <1>12, <1>14, <1>15, <2>1, <2>2
<1>17. FailuresTryEverything'
  <2> SUFFICES ASSUME pc' = "write", ~trim_was_effective'
               PROVE  /\ tried_nodes' = DOMAIN tree_cur'
                      /\ tried_edges' = {EdgeOrigin(c)' : c \in EdgeSet(tree_cur')}
    BY DEF FailuresTryEverything
  <2>1. nodes' = <<>> /\ edges' = <<>>
    <3>1. stage' = 2 /\ stage' = StageAfter(cur_subtree_step', cur_recursive_step')
      BY <1>1, <1>3 DEF IInv, Filed, PostTrim
    <3>2. /\ stage = 0 => cur_subtree_step' >= total_subtree_steps
          /\ cur_recursive_step' >= total_recursive_steps
      BY <1>1, <3>1 DEF StageAfter
    <3>3. /\ nodes' \in Seq(Nat \ {0}) /\ edges' \in Seq(Nat \ {0})
          /\ cur_subtree_step' \in Nat /\ cur_recursive_step' \in Nat
          /\ cur_subtree_step' + Len(nodes') = total_subtree_steps
          /\ cur_recursive_step' + Len(edges') = total_recursive_steps
          /\ stage = 1 => nodes' = <<>>
      BY <1>3 DEF Counted
    <3>4. Len(nodes') \in Nat /\ Len(edges') \in Nat
      BY <3>3, LenProperties
    <3>5. \A a, b, c \in Nat : a + b = c /\ a >= c => b = 0
      OBVIOUS
    <3>6. total_subtree_steps \in Nat /\ total_recursive_steps \in Nat
      BY DEF IInv, TypeOK
    <3>7. Len(edges') = 0 /\ (stage = 0 => Len(nodes') = 0)
      BY <3>2, <3>3, <3>4, <3>5, <3>6
    <3> QED BY <1>1, <3>3, <3>7, EmptySeq
  <2> DEFINE all == RecursionEdges(tree_cur)
             count == Cardinality(EdgeSet(tree_cur))
  <2>2. /\ all \in Seq(Nat \ {0}) /\ Len(all) = count /\ count \in Nat
    BY <1>4, WorkLists
  <2>3. EdgeSet(tree_cur) \in SUBSET Nat /\ IsFiniteSet(EdgeSet(tree_cur))
    BY <1>4, EdgeSetFinite
  <2>4. /\ \A k \in 1..count : all[k] \in EdgeSet(tree_cur)
        /\ \A c \in EdgeSet(tree_cur) : \E k \in 1..count : all[k] = c
    BY <2>3, AscendingMembers, AscendingOrder DEF RecursionEdges
  <2>5. edges' = DropFirst(all, finished_edges')
    BY <1>3, <1>11 DEF Counted
  <2> HIDE DEF all
  <2>6. Len(edges') = IF finished_edges' <= count THEN count - finished_edges' ELSE 0
    BY <1>5, <2>2, <2>5, DropFirstElements
  <2>7. Len(edges') = 0
    BY <2>1
  <2>8. finished_edges' = count
    <3>1. finished_edges' <= count
      BY <1>1, <1>11, <2>2
    <3>2. \A a, b \in Nat : a <= b /\ b - a = 0 => a = b
      OBVIOUS
    <3> HIDE DEF count
    <3>3. count - finished_edges' = 0
      BY <2>6, <2>7, <3>1
    <3> QED BY <1>5, <2>2, <3>1, <3>2, <3>3
  <2>9. tried_edges = {EdgeOrigin(all[k]) : k \in 1..count}
    BY <1>14, <2>8 DEF TriedEdgesUpto, all
  <2>10. {EdgeOrigin(all[k]) : k \in 1..count} = {EdgeOrigin(c) : c \in EdgeSet(tree_cur)}
    BY <2>4
  <2>11. \A c \in EdgeSet(tree_cur) : EdgeOrigin(c)' = EdgeOrigin(c)
    BY <1>11 DEF EdgeOrigin
  <2>12. {EdgeOrigin(c)' : c \in EdgeSet(tree_cur')} = {EdgeOrigin(c) : c \in EdgeSet(tree_cur)}
    BY <1>11, <2>11
  <2> QED BY <1>2, <1>11, <1>12, <2>1, <2>9, <2>10, <2>12
<1> QED BY <1>9, <1>10, <1>16, <1>17 DEF HistoryInv

(* Every step of the protocol and its history preserves the two            *)
(* invariants: a step of the history is a step of the protocol.            *)
LEMMA HNextInv ==
  ASSUME IInv, HistoryInv, [HNext]_hvars
  PROVE  IInv' /\ HistoryInv'
<1>1. [Next]_vars
  BY DEF HNext, HTrimStep, HInitTrim, HSubtreeTrim, HRecursiveTrim, HPostTrim, Next, TrimStep, hvars
<1>2. IInv'
  BY <1>1, NextInv
<1>3. ASSUME pc' \notin {"trim", "run", "write"} PROVE HistoryInv'
  BY <1>3 DEF HistoryInv, CurrentUntried, TrimmedUntried, AllFailed, FailuresTryEverything
<1>4. ASSUME NEW e \in Entries, QueueGet(e) PROVE HistoryInv'
  <2>1. pc' = "init"
    BY <1>4 DEF QueueGet
  <2> QED BY <1>3, <2>1
<1>5. CASE HInitTrim
  BY <1>2, <1>5, HInitTrimInv
<1>6. CASE HSubtreeTrim
  BY <1>2, <1>6, HSubtreeTrimInv
<1>7. CASE HRecursiveTrim
  BY <1>2, <1>7, HRecursiveTrimInv
<1>8. ASSUME NEW success \in BOOLEAN, HPostTrim(success) PROVE HistoryInv'
  BY <1>8, HPostTrimInv
<1>9. CASE EndTrim \/ Abort
  <2>1. pc' \in {"idle", "stopped"}
    BY <1>9 DEF EndTrim, Abort
  <2> QED BY <1>2, <1>3, <2>1
<1>10. CASE Finished
  <2>1. pc' \in {"idle", "stopped"}
    BY <1>10 DEF Finished, vars, aflVars
  <2> QED BY <1>2, <1>3, <2>1
<1>11. CASE UNCHANGED hvars
  <2>1. /\ UNCHANGED <<tree_cur, trimmed_tree, stage, trim_was_effective, finished_nodes,
                        finished_edges, pc>>
        /\ UNCHANGED <<origin, trimmed_origin, tried_nodes, tried_edges>>
    BY <1>11 DEF hvars, vars, history, subtreeVars, recursiveVars, aflVars
  <2>2. CurrentUntried' /\ TrimmedUntried'
    BY <2>1 DEF HistoryInv, CurrentUntried, TrimmedUntried, InFlight
  <2>3. AllFailed' /\ FailuresTryEverything'
    BY <2>1 DEF HistoryInv, AllFailed, FailuresTryEverything, CurrentTried, TriedEdgesUpto, EdgeOrigin, InFlight
  <2> QED BY <1>2, <2>2, <2>3 DEF HistoryInv
<1> QED BY <1>2, <1>4, <1>5, <1>6, <1>7, <1>8, <1>9, <1>10, <1>11 DEF HNext, HTrimStep

LEMMA HistoryInvariance == HSpec => [](IInv /\ HistoryInv)
<1>1. HInit => IInv /\ HistoryInv
  <2> SUFFICES ASSUME HInit PROVE IInv /\ HistoryInv
    OBVIOUS
  <2>1. IInv
    BY InitInv DEF HInit
  <2>2. pc = "idle"
    BY DEF HInit, Init
  <2> QED BY <2>1, <2>2 DEF HistoryInv, CurrentUntried, TrimmedUntried, AllFailed, FailuresTryEverything
<1>2. IInv /\ HistoryInv /\ [HNext]_hvars => (IInv /\ HistoryInv)'
  BY HNextInv
<1> QED BY <1>1, <1>2, PTL DEF HSpec

(* No trim is repeated, whatever was cut and promoted before: the list's   *)
(* next node is one the loop started with and has not been cut, its next   *)
(* edge has not been promoted.                                             *)
THEOREM TrimNothingTriedTwice == HSpec => []NothingTriedTwice
<1>1. IInv /\ HistoryInv => NothingTriedTwice
  <2> SUFFICES ASSUME IInv, HistoryInv, pc = "trim"
               PROVE  /\ stage = 0 /\ nodes # <<>> => /\ origin[Head(nodes)] \notin tried_nodes \cup {0}
                                                     /\ origin[Head(nodes)] > 0
                      /\ stage = 1 /\ edges # <<>> => EdgeOrigin(Head(edges)) \notin tried_edges
    BY DEF NothingTriedTwice
  <2>1. InFlight = 0
    BY DEF InFlight
  <2>2. ASSUME stage = 0, nodes # <<>>
        PROVE  origin[Head(nodes)] > 0 /\ origin[Head(nodes)] \notin tried_nodes \cup {0}
    <3> DEFINE i == Head(nodes)
    <3>1. i = finished_nodes + 1 /\ i \in 1..Len(tree_cur) /\ finished_nodes \in Nat
      BY <2>2, NextNode
    <3>2. NodesUntried(tree_cur, origin, tried_nodes, finished_nodes + 0)
      BY <2>1, <2>2 DEF HistoryInv, CurrentUntried
    <3> HIDE DEF i
    <3>3. i \in ((finished_nodes + 0)+1)..Len(tree_cur)
      BY <3>1
    <3>4. origin[i] > 0 /\ origin[i] \notin tried_nodes
      BY <3>2, <3>3 DEF NodesUntried
    <3>5. origin[i] # 0
      BY <3>4
    <3> QED BY <3>4, <3>5 DEF i
  <2>3. ASSUME stage = 1, edges # <<>>
        PROVE  EdgeOrigin(Head(edges)) \notin tried_edges
    <3> DEFINE c == Head(edges)
    <3>1. /\ c = RecursionEdges(tree_cur)[finished_edges + 1] /\ finished_edges \in Nat
          /\ finished_edges + 1 <= Cardinality(EdgeSet(tree_cur))
      BY <2>3, NextEdge
    <3>2. EdgesUntried(tree_cur, origin, ChildrenOf(tried_edges), finished_edges + 0)
      BY <2>1, <2>3 DEF HistoryInv, CurrentUntried
    <3>3. Len(RecursionEdges(tree_cur)) = Cardinality(EdgeSet(tree_cur))
          /\ Cardinality(EdgeSet(tree_cur)) \in Nat
      <4>1. tree_cur \in Seq(Node) /\ NodeSet(Node)
        BY TrimNodes DEF IInv, TypeOK
      <4> QED BY <4>1, WorkLists
    <3> HIDE DEF c
    <3>4. finished_edges + 1 \in ((finished_edges + 0)+1)..Len(RecursionEdges(tree_cur))
      BY <3>1, <3>3
    <3>5. origin[c] \notin ChildrenOf(tried_edges)
      BY <3>1, <3>2, <3>4 DEF EdgesUntried
    <3>6. EdgeOrigin(c)[2] = origin[c]
      BY DEF EdgeOrigin
    <3>7. EdgeOrigin(c) \notin tried_edges
      BY <3>5, <3>6 DEF ChildrenOf
    <3> QED BY <3>7 DEF c
  <2> QED BY <2>2, <2>3
<1> QED BY <1>1, HistoryInvariance, PTL

(* A loop in which every trim fails has cut every node's subtree and every *)
(* recursion edge of the tree: nothing is skipped unless a trim succeeds.  *)
THEOREM TrimFailuresTryEverything == HSpec => []FailuresTryEverything
<1>1. IInv /\ HistoryInv => FailuresTryEverything
  BY DEF HistoryInv
<1> QED BY <1>1, HistoryInvariance, PTL
=============================================================================
