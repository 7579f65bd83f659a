------------------------------- MODULE TreeOps -------------------------------
(***************************************************************************)
(* The trim operators and mutations (src/src/tree_trimming.c and           *)
(* tree_mutation.c) on a heap of nodes.  Most of them link a new subtree   *)
(* into the WORKING tree, clone the whole tree and link the old subtree    *)
(* back; the others clone first and work on the clone.                     *)
(*                                                                         *)
(* A heap maps addresses to nodes with a parent pointer and subnodes.  As  *)
(* in Trees, terminals are left out.  Each C function is one action, whose *)
(* LET names the heap after each of its steps.  Between them the caller    *)
(* adopts the result (afl_custom_post_trim, or queue_get of a find) or     *)
(* frees it.                                                               *)
(***************************************************************************)
EXTENDS Trees, SequencesExt

CONSTANTS
  Addresses,    \* 1..n
  GenTrees,     \* GenTrees[id]: the trees gen_funcs[id] returns ...
  MinTrees,     \* ... and the ones it returns for length 0
  Chunks,       \* Chunks[id]: the subtrees in the chunk store
  GROWTH,       \* bound on the exponent of the recursive mutation
  MaxNodes      \* bound: larger results are not adopted

NULL == 0
Node == [id : DOMAIN GenTrees, parent : Addresses \cup {NULL}, subnodes : Seq(Addresses \cup {NULL})]

VARIABLES
  heap,         \* the allocated nodes
  cur,          \* data->tree_cur->root
  out           \* the root of the tree just made, or NULL

vars == <<heap, cur, out>>

-----------------------------------------------------------------------------
(* The nodes below root in preorder, as addresses and as a tree.           *)
Below(h, root) ==
  LET f[a \in Addresses] ==
        <<a>> \o FlattenSeq([k \in DOMAIN h[a].subnodes |->
                   IF h[a].subnodes[k] = NULL THEN <<>> ELSE f[h[a].subnodes[k]]])
  IN  f[root]

Value(h, root) ==
  LET f[a \in Addresses, d \in Nat] ==
        <<[id |-> h[a].id, depth |-> d]>> \o
        FlattenSeq([k \in DOMAIN h[a].subnodes |-> f[h[a].subnodes[k], d+1]])
  IN  IF root = NULL THEN <<>> ELSE f[root, 0]

(* Where the next n nodes are allocated.                                   *)
Fresh(h, n) == SubSeq(Ascending(Addresses \ DOMAIN h), 1, n)

(* Heap h with the tree t built in it at the addresses at.                 *)
Build(h, t, at) ==
  LET Subnodes(k) == Ascending(Children(t, k))
      new == [a \in ToSet(at) |->
                LET k == CHOOSE j \in DOMAIN at : at[j] = a
                IN  [id |-> t[k].id,
                     parent |-> IF k = 1 THEN NULL ELSE at[ParentOf(t, k)],
                     subnodes |-> [c \in DOMAIN Subnodes(k) |-> at[Subnodes(k)[c]]]]]
  IN  [a \in DOMAIN h \cup ToSet(at) |-> IF a \in ToSet(at) THEN new[a] ELSE h[a]]

(* node_clone: the copies get their parents from the recursion, not from   *)
(* the parent pointers of the originals.                                   *)
Clone(h, root) ==
  LET from == Below(h, root)
      at == Fresh(h, Len(from))
      Copy(a) == IF a = NULL THEN NULL ELSE at[CHOOSE k \in DOMAIN from : from[k] = a]
      Parents(a) == {p \in ToSet(from) : a \in ToSet(h[p].subnodes)}
      new == [b \in ToSet(at) |->
                LET a == from[CHOOSE k \in DOMAIN at : at[k] = b]
                IN  [id |-> h[a].id,
                     parent |-> IF a = root THEN NULL
                                ELSE Copy(CHOOSE p \in Parents(a) : TRUE),
                     subnodes |-> [k \in DOMAIN h[a].subnodes |-> Copy(h[a].subnodes[k])]]]
  IN  [heap |-> [a \in DOMAIN h \cup ToSet(at) |-> IF a \in ToSet(at) THEN new[a] ELSE h[a]],
       root |-> at[1]]

(* node_free.                                                              *)
Free(h, root) == [a \in DOMAIN h \ ToSet(Below(h, root)) |-> h[a]]

(* x->parent = p;  p->subnodes[k] = x.                                     *)
SetParent(h, x, p) == [h EXCEPT ![x].parent = p]
SetSubnode(h, p, k, x) == [h EXCEPT ![p].subnodes[k] = x]
Attach(h, p, k, x) == SetParent(SetSubnode(h, p, k, x), x, p)

(* node_get_parent_edge: the offset of x in its parent.                    *)
Offset(h, x) == CHOOSE k \in DOMAIN h[h[x].parent].subnodes : h[h[x].parent].subnodes[k] = x

-----------------------------------------------------------------------------
(* subtree_trimming and rules_mutation: node x of the working tree gives   *)
(* way to a generated tree m while the tree is cloned.  Mutant: the parent *)
(* pointer of x is not restored.                                           *)
RelinkedReplacementUnrestored(h, x, m) ==
  LET at == Fresh(h, Len(m))
      built == Build(h, m, at)
      p == h[x].parent
  IN  IF p = NULL THEN [heap |-> built, root |-> at[1]]
      ELSE LET k == Offset(h, x)
               linked == Attach(SetParent(built, x, NULL), p, k, at[1])
               cloned == Clone(linked, cur)
               restored == SetSubnode(cloned.heap, p, k, x)
           IN  [heap |-> Free(restored, at[1]), root |-> cloned.root]

RelinkedReplacement(h, x, m) ==
  LET at == Fresh(h, Len(m))
      built == Build(h, m, at)
      p == h[x].parent
  IN  IF p = NULL THEN [heap |-> built, root |-> at[1]]
      ELSE LET k == Offset(h, x)
               linked == Attach(SetParent(built, x, NULL), p, k, at[1])
               cloned == Clone(linked, cur)
               restored == Attach(cloned.heap, p, k, x)
           IN  [heap |-> Free(restored, at[1]), root |-> cloned.root]

(* recursive_trimming: tail, the child of edge.parent, takes its parent's  *)
(* place while the tree is cloned.                                         *)
Promotion(h, tail) ==
  LET parent == h[tail].parent
      pre == h[parent].parent
  IN  IF pre = NULL THEN Clone(h, tail)
      ELSE LET k == Offset(h, parent)
               linked == Attach(SetParent(SetParent(h, tail, NULL), parent, NULL), pre, k, tail)
               cloned == Clone(linked, cur)
               restored == SetParent(Attach(cloned.heap, pre, k, parent), tail, parent)
           IN  [heap |-> restored, root |-> cloned.root]

(* node_replace_subnode.                                                   *)
MayReplace(h, p, x, y) == h[x].id = h[y].id /\ h[x].parent = p
ReplaceSubnode(h, p, x, y) == SetParent(Attach(h, p, Offset(h, x), y), x, NULL)

(* random_mutation and splicing_mutation: a node of the clone, the k-th in *)
(* preorder, gives way to m.                                               *)
ReplacementInClone(h, k, m) ==
  LET cloned == Clone(h, cur)
      x == Below(cloned.heap, cloned.root)[k]
      p == cloned.heap[x].parent
      at == Fresh(cloned.heap, Len(m))
      built == Build(cloned.heap, m, at)
  IN  IF p = NULL THEN [heap |-> Free(built, x), root |-> at[1]]
      ELSE IF MayReplace(built, p, x, at[1])
      THEN [heap |-> Free(ReplaceSubnode(built, p, x, at[1]), x), root |-> cloned.root]
      ELSE [heap |-> Free(built, at[1]), root |-> cloned.root]

(* random_recursive_mutation, on an edge of the clone: the tail leaves a   *)
(* hole in its parent, which is cloned num times with the hole; each clone *)
(* takes the tail so far.  Mutant: no hole is made, and the parent is      *)
(* cloned with its tail.                                                   *)
HoleNotMade(h, p, k, tail) == SetParent(h, tail, NULL)
Hole(h, p, k, tail) == SetSubnode(SetParent(h, tail, NULL), p, k, NULL)

Repetition(h, k, num) ==
  LET cloned == Clone(h, cur)
      tail == Below(cloned.heap, cloned.root)[k]
      p == cloned.heap[tail].parent
      offset == Offset(cloned.heap, tail)
      grown[i \in 0..num] ==
        IF i = 0 THEN [heap |-> Hole(cloned.heap, p, offset, tail), root |-> tail]
        ELSE LET part == Clone(grown[i-1].heap, p)
             IN  [heap |-> Attach(part.heap, part.root, offset, grown[i-1].root),
                  root |-> part.root]
  IN  [heap |-> Attach(grown[num].heap, p, offset, grown[num].root), root |-> cloned.root]

-----------------------------------------------------------------------------
Init ==
  /\ \E t \in UNION {GenTrees[id] : id \in DOMAIN GenTrees} :
       heap = Build(<<>>, t, [k \in 1..Len(t) |-> k])
  /\ cur = 1 /\ out = NULL

Nodes == ToSet(Below(heap, cur))
Positions == DOMAIN Below(heap, cur)
IsRecursive(x) == heap[x].parent # NULL /\ heap[heap[x].parent].id = heap[x].id
Edges == {x \in Nodes : IsRecursive(x)}

Made(tree) == heap' = tree.heap /\ out' = tree.root /\ UNCHANGED cur

SubtreeTrimming == out = NULL /\ \E x \in Nodes : \E m \in MinTrees[heap[x].id] :
                     Made(RelinkedReplacement(heap, x, m))
RulesMutation == out = NULL /\ \E x \in Nodes : \E m \in GenTrees[heap[x].id] :
                   Made(RelinkedReplacement(heap, x, m))
RecursiveTrimming == out = NULL /\ \E x \in Edges : Made(Promotion(heap, x))

IdAt(k) == heap[Below(heap, cur)[k]].id
RandomMutation == out = NULL /\ \E k \in Positions : \E m \in GenTrees[IdAt(k)] :
                    Made(ReplacementInClone(heap, k, m))
SplicingMutation == out = NULL /\ \E k \in Positions : \E m \in Chunks[IdAt(k)] :
                      Made(ReplacementInClone(heap, k, m))
RandomRecursiveMutation ==
  out = NULL /\ \E k \in Positions, n \in 0..GROWTH :
    IsRecursive(Below(heap, cur)[k]) /\ Made(Repetition(heap, k, 2^n))

(* A successful trim: tree_free(tree_cur); tree_cur = trimmed_tree.        *)
(* Mutant: the freed tree stays the current one.                           *)
AdoptFreed ==
  /\ out # NULL /\ Len(Below(heap, out)) <= MaxNodes
  /\ heap' = Free(heap, cur) /\ out' = NULL /\ UNCHANGED cur

Adopt ==
  /\ out # NULL /\ Len(Below(heap, out)) <= MaxNodes
  /\ heap' = Free(heap, cur) /\ cur' = out /\ out' = NULL

(* A failed one, or the next call of afl_custom_fuzz.                      *)
Discard ==
  /\ out # NULL
  /\ heap' = Free(heap, out) /\ out' = NULL /\ UNCHANGED cur

Next == \/ SubtreeTrimming \/ RulesMutation \/ RecursiveTrimming
        \/ RandomMutation \/ SplicingMutation \/ RandomRecursiveMutation
        \/ Adopt \/ Discard

Spec == Init /\ [][Next]_vars

-----------------------------------------------------------------------------
TypeOK ==
  /\ DOMAIN heap \subseteq Addresses /\ \A a \in DOMAIN heap : heap[a] \in Node
  /\ cur \in DOMAIN heap /\ out \in DOMAIN heap \cup {NULL}

(* After every operation each node is owned by exactly one of the working  *)
(* tree and the result, nothing is leaked, no NULL hole is left, and every *)
(* parent pointer points back to the node that holds the child.            *)
HeapIsSound ==
  LET roots == IF out = NULL THEN <<cur>> ELSE <<cur, out>>
      below == FlattenSeq([r \in DOMAIN roots |-> Below(heap, roots[r])])
  IN  /\ ToSet(below) = DOMAIN heap /\ Len(below) = Cardinality(DOMAIN heap)
      /\ \A a \in DOMAIN heap :
           /\ \A k \in DOMAIN heap[a].subnodes :
                /\ heap[a].subnodes[k] \in DOMAIN heap
                /\ heap[heap[a].subnodes[k]].parent = a
           /\ a \in ToSet(roots) => heap[a].parent = NULL

(* The pointer operations implement the changes of module Trees: the       *)
(* result is the working tree with one subtree replaced, promoted or       *)
(* repeated, and the working tree comes out of each as it went in.         *)
Changes == INSTANCE TreeChanges
             WITH NewTrees <- [id \in DOMAIN GenTrees |->
                                 GenTrees[id] \cup MinTrees[id] \cup Chunks[id]],
                  tree <- Value(heap, cur), changed <- Value(heap, out)
ImplementsTreeChanges == Changes!Spec
=============================================================================
