----------------------------- MODULE TreeChanges -----------------------------
(***************************************************************************)
(* What the trim operators and the mutations promise: from the working     *)
(* tree they make a changed one, and leave the working tree as it is.      *)
(***************************************************************************)
EXTENDS Trees

CONSTANTS
  NewTrees,     \* NewTrees[id]: trees that may come in place of a node
  GROWTH        \* bound: an edge is repeated at most 2^GROWTH times

VARIABLES tree, changed      \* changed = <<>>: there is none

vars == <<tree, changed>>

Init == tree \in UNION {NewTrees[id] : id \in DOMAIN NewTrees} /\ changed = <<>>

Replace == \E i \in DOMAIN tree : \E m \in NewTrees[tree[i].id] :
             changed' = ReplaceSubtree(tree, i, m)
Promote == \E c \in EdgeSet(tree) : changed' = PromoteSubtree(tree, c)
Repeat == \E c \in EdgeSet(tree), n \in 0..GROWTH : changed' = RepeatEdge(tree, c, 2^n)

Change == changed = <<>> /\ (Replace \/ Promote \/ Repeat) /\ UNCHANGED tree
Adopt == changed # <<>> /\ tree' = changed /\ changed' = <<>>
Discard == changed # <<>> /\ changed' = <<>> /\ UNCHANGED tree

Next == Change \/ Adopt \/ Discard

Spec == Init /\ [][Next]_vars
=============================================================================
