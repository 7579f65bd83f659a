------------------------------- MODULE Trees -------------------------------
(***************************************************************************)
(* Derivation trees (node_t, src/include/tree.h) as preorder sequences.    *)
(*                                                                         *)
(* A tree is the sequence of its NON-TERMINAL nodes in preorder; a node is *)
(* a record with at least the fields id (the grammar symbol, node->id) and *)
(* depth (the root has depth 0).  A subtree is then a contiguous segment,  *)
(* and an index into the sequence plays the part of a node_t pointer.      *)
(* Terminal nodes (id 0) carry only text and have no subnodes: no function *)
(* modelled here looks at one, so they are left out.                       *)
(*                                                                         *)
(* The two work lists that the C code hangs on a tree are the sequences    *)
(* NonTerminalNodes(t) and RecursionEdges(t); an edge is named by the      *)
(* index of its child (edge_t.subnode), its parent is ParentOf(t, child).  *)
(***************************************************************************)
EXTENDS Integers, Sequences, FiniteSets

(* t is a preorder sequence: the first node is the only one at its depth   *)
(* and a node is at most one level below the node before it.               *)
IsTree(t) ==
  /\ Len(t) > 0
  /\ \A k \in 2..Len(t) : /\ t[1].depth < t[k].depth
                          /\ t[k].depth <= t[k-1].depth + 1

(* j is the last node of the subtree of node i.                            *)
IsSubtreeEnd(t, i, j) ==
  /\ j \in i..Len(t)
  /\ \A k \in (i+1)..j : t[k].depth > t[i].depth
  /\ j < Len(t) => t[j+1].depth <= t[i].depth

SubtreeEnd(t, i) == CHOOSE j \in i..Len(t) : IsSubtreeEnd(t, i, j)

(* node->non_term_size: the subtree's non-terminals, node i INCLUDED.      *)
NonTermSize(t, i) == SubtreeEnd(t, i) - i + 1

(* p is node c's parent (c->parent).                                       *)
IsParent(t, p, c) ==
  /\ p \in 1..(c-1)
  /\ t[p].depth + 1 = t[c].depth
  /\ \A k \in (p+1)..(c-1) : t[k].depth >= t[c].depth

ParentOf(t, c) == CHOOSE p \in 1..(c-1) : IsParent(t, p, c)

(* Node p's children (p->subnodes).                                        *)
Children(t, p) == {c \in (p+1)..Len(t) : IsParent(t, p, c)}

(* The children of recursion edges: nodes with their parent's id.          *)
EdgeSet(t) == {c \in 2..Len(t) :
                 \E p \in 1..(c-1) : IsParent(t, p, c) /\ t[p].id = t[c].id}

(* A finite set of numbers as the increasing list of its members.          *)
Ascending(S) ==
  [k \in 1..Cardinality(S) |->
     CHOOSE c \in S : Cardinality({d \in S : d < c}) = k - 1]

(* tree_get_non_terminal_nodes and tree_get_recursion_edges.               *)
NonTerminalNodes(t) == [k \in 1..Len(t) |-> k]
RecursionEdges(t) == Ascending(EdgeSet(t))

(* k calls of list_pop_front: popping an empty list does nothing.          *)
DropFirst(list, k) == SubSeq(list, k+1, Len(list))

(* Elements i..j of s replaced by the sequence new.                        *)
Splice(s, i, j, new) == SubSeq(s, 1, i-1) \o new \o SubSeq(s, j+1, Len(s))

(* A subtree, and a subtree moved so that its root has depth d.            *)
Subtree(t, i) == SubSeq(t, i, SubtreeEnd(t, i))
AtDepth(node, d) == [node EXCEPT !.depth = d]
Rebase(m, d) == [k \in 1..Len(m) |-> AtDepth(m[k], m[k].depth - m[1].depth + d)]

(* The tree with m hung in place of the subtree of node i.                 *)
ReplaceSubtree(t, i, m) == Splice(t, i, SubtreeEnd(t, i), Rebase(m, t[i].depth))

(* The tree with the subtree of node c hung in place of c's parent.        *)
PromoteSubtree(t, c) == ReplaceSubtree(t, ParentOf(t, c), Subtree(t, c))

(* The edge from c's parent to c repeated: c's subtree, the tail, is taken *)
(* off; num times a clone of what is left of the parent's subtree gets the *)
(* tail and becomes the tail itself; and the last one takes c's place.     *)
(* (The set makes TLC evaluate the tail before it, once.)                  *)
(* Mutant: a clone has nothing of what comes after c.                      *)
Tails(part, at, tail, num) ==
  LET grown[n \in 0..num] ==
        IF n = 0 THEN tail
        ELSE CHOOSE r \in {ReplaceSubtree(part, at, m) : m \in {grown[n-1]}} : TRUE
  IN grown

RepeatEdgeHeadOnly(t, c, num) ==
  LET p == ParentOf(t, c)
  IN  ReplaceSubtree(t, c, Tails(SubSeq(t, p, c), c-p+1, Subtree(t, c), num)[num])

RepeatEdge(t, c, num) ==
  LET p == ParentOf(t, c)
  IN  ReplaceSubtree(t, c, Tails(Subtree(t, p), c-p+1, Subtree(t, c), num)[num])
=============================================================================
