---------------------------- MODULE TrimHistory ----------------------------
(***************************************************************************)
(* Trimming with history variables that say what has been tried.           *)
(*                                                                         *)
(* The mutator keeps no such record: after a successful trim it rebuilds   *)
(* its lists from the new tree and pops as many entries as it tried        *)
(* before, on the argument of the comments in afl_custom_post_trim that    *)
(* the tried candidates are a prefix of the new list.  The history gives   *)
(* every node of the tree an origin that survives cloning:                 *)
(*   n > 0   node n of the tree that the loop started with,                *)
(*   -n      the root of the minimal subtree that replaced node n,         *)
(*   0       any other node of a minimal subtree.                          *)
(***************************************************************************)
EXTENDS Trimming

VARIABLES
  origin,            \* the origins of tree_cur's nodes
  trimmed_origin,    \* the origins of trimmed_tree's nodes
  tried_nodes,       \* origins of the nodes whose subtree a trim has cut
  tried_edges        \* <<parent, child>> origins of the edges a trim has cut

history == <<origin, trimmed_origin, tried_nodes, tried_edges>>
hvars == <<vars, history>>

HInit == /\ Init
         /\ origin = <<>> /\ trimmed_origin = <<>>
         /\ tried_nodes = {} /\ tried_edges = {}

HInitTrim ==
  /\ InitTrim
  /\ origin' = NonTerminalNodes(tree_cur)
  /\ tried_nodes' = {} /\ tried_edges' = {}
  /\ UNCHANGED trimmed_origin

HSubtreeTrim ==
  /\ SubtreeTrim
  /\ LET i == Head(nodes)
         last == SubtreeEnd(tree_cur, i)
         size == Len(trimmed_tree') - (Len(tree_cur) - NonTermSize(tree_cur, i))
     IN  /\ trimmed_origin' =
              Splice(origin, i, last, [k \in 1..size |-> IF k = 1 THEN -origin[i] ELSE 0])
         /\ tried_nodes' = tried_nodes \cup {origin[i]}
  /\ UNCHANGED <<origin, tried_edges>>

EdgeOrigin(c) == <<origin[ParentOf(tree_cur, c)], origin[c]>>

HRecursiveTrim ==
  /\ RecursiveTrim
  /\ LET c == Head(edges)
         p == ParentOf(tree_cur, c)
     IN  /\ trimmed_origin' = Splice(origin, p, SubtreeEnd(tree_cur, p),
                                     SubSeq(origin, c, SubtreeEnd(tree_cur, c)))
         /\ tried_edges' = tried_edges \cup {EdgeOrigin(c)}
  /\ UNCHANGED <<origin, tried_nodes>>

HPostTrim(success) ==
  /\ PostTrim(success)
  /\ origin' = IF success THEN trimmed_origin ELSE origin
  /\ trimmed_origin' = <<>>
  /\ UNCHANGED <<tried_nodes, tried_edges>>

HTrimStep == \/ HInitTrim \/ HSubtreeTrim \/ HRecursiveTrim
             \/ (\E success \in BOOLEAN : HPostTrim(success))
             \/ EndTrim /\ UNCHANGED history

HNext == \/ HTrimStep
         \/ ((\E e \in Entries : QueueGet(e)) \/ Abort \/ Finished) /\ UNCHANGED history

HSpec == HInit /\ [][HNext]_hvars
HFairSpec == HSpec /\ WF_hvars(HTrimStep)

-----------------------------------------------------------------------------
(* No work is repeated: the node that the next subtree trim will cut, or   *)
(* the edge that the next recursive trim will cut, has not been tried, and *)
(* a node is no part of a minimal subtree put there by an earlier trim     *)
(* (the comment in afl_custom_post_trim: "to avoid repeating the previous  *)
(* attempts").                                                             *)
NothingTriedTwice ==
  pc = "trim" =>
    /\ stage = 0 /\ nodes # <<>> => origin[Head(nodes)] \notin tried_nodes \cup {0}
                                    /\ origin[Head(nodes)] > 0
    /\ stage = 1 /\ edges # <<>> => EdgeOrigin(Head(edges)) \notin tried_edges

(* A loop in which every trim fails has cut every node's subtree and every *)
(* recursion edge of the tree exactly once.                                *)
FailuresTryEverything ==
  pc = "write" /\ ~trim_was_effective =>
    /\ tried_nodes = DOMAIN tree_cur
    /\ tried_edges = {EdgeOrigin(c) : c \in EdgeSet(tree_cur)}

(* Every node that is left when subtree trimming is over was either tried  *)
(* or put there by a trim.  The comment in afl_custom_post_trim says that  *)
(* the node just replaced and its children are skipped, nothing else.      *)
EveryNodeTried ==
  stage > 0 /\ tried_edges = {} /\ pc \in {"trim", "write"} =>
    \A i \in DOMAIN tree_cur : origin[i] > 0 => origin[i] \in tried_nodes
=============================================================================
