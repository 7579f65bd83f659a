----------------------------- MODULE ChunkStore -----------------------------
(***************************************************************************)
(* The chunk store (src/src/chunk_store.c) on a heap of nodes.             *)
(*                                                                         *)
(* chunk_store_add_tree clones a tree and hands the clone to the recursive *)
(* chunk_store_take_node, one call of which is a step here: a node that    *)
(* has not been seen is kept in the list of its symbol, and its subnodes   *)
(* are taken in turn; of a node that has, the duplicate is freed with all  *)
(* below it and the parent is made to point at the node seen first.  So    *)
(* subtrees come to be shared, and every node kept has to be in exactly    *)
(* one list for chunk_store_clear to free each once.                       *)
(*                                                                         *)
(* A tree to be added is a sequence in the format of module Trees, but     *)
(* with terminals too (symbol 0); val stands for rule_id and the value.    *)
(***************************************************************************)
EXTENDS Trees, SequencesExt

CONSTANTS
  Ids,          \* symbols, the terminal 0 included
  Vals,         \* rule ids and values
  Inputs,       \* the trees that can be added
  Addr,         \* node addresses, numbers from 1: the bound on live nodes
  MaxNodes      \* bound on the number of nodes of an input

NULL == 0

ASSUME AddrAssumption == Addr \subseteq Nat \ {0} /\ IsFiniteSet(Addr)
ASSUME SizeAssumption == MaxNodes \in Nat
ASSUME InputsAssumption ==
  \A t \in Inputs : /\ IsTree(t) /\ Len(t) <= MaxNodes
                    /\ t \in Seq([id : Ids, val : Vals, depth : 0..MaxNodes])

VARIABLES
  heap,         \* live nodes: a function from some addresses to node_t
  lists,        \* chunk_store: [Ids -> Seq(Addr)]
  seen,         \* seen_chunks: a function from some hashes to Addr
  calls,        \* the stack of calls of chunk_store_take_node, inner first:
                \* the node and the index of the subnode to be taken next
  drawn         \* what chunk_store_get_alternative_node last was asked for
                \* and returned

vars == <<heap, lists, seen, calls, drawn>>

Live == DOMAIN heap
Kept == UNION {Range(lists[id]) : id \in Ids}

-----------------------------------------------------------------------------
(* A node and all below it in preorder, each with its number of subnodes,  *)
(* which determines the shape: what node_equal compares.                   *)
Contents(a) ==
  LET c[n \in 0..MaxNodes] ==
        [b \in Live |->
           <<[id |-> heap[b].id, val |-> heap[b].val, count |-> Len(heap[b].subnodes)]>>
           \o (IF n = 0 THEN <<>>
               ELSE FlattenSeq([i \in DOMAIN heap[b].subnodes |-> c[n-1][heap[b].subnodes[i]]]))]
  IN  c[MaxNodes][a]

(* hash_node, taken to be injective: what node_update_hash feeds it, for   *)
(* a node and then for its subnodes.  Mutant: the node's value is left out. *)
HashNoVal(a) == [k \in DOMAIN Contents(a) |-> Contents(a)[k].id]
Hash(a) == [k \in DOMAIN Contents(a) |-> <<Contents(a)[k].id, Contents(a)[k].val>>]

(* The nodes that node_free(a) frees: a and all below.                     *)
Below(a) ==
  LET d[n \in 0..MaxNodes] ==
        [b \in Live |-> {b} \cup IF n = 0 THEN {}
                                 ELSE UNION {d[n-1][s] : s \in Range(heap[b].subnodes)}]
  IN  d[MaxNodes][a]

FreeAll(h, S) == [a \in DOMAIN h \ S |-> h[a]]

(* node_replace_subnode(parent, a, b); a's own fields no longer matter, it *)
(* is freed next.  Mutant: the parent keeps its pointer.                   *)
ReplaceSubnodeNot(p, a, b) == [heap EXCEPT ![b].parent = p]
ReplaceSubnode(p, a, b) ==
  [heap EXCEPT ![p].subnodes = [i \in DOMAIN @ |-> IF @[i] = a THEN b ELSE @[i]],
               ![b].parent = p]

-----------------------------------------------------------------------------
Init ==
  /\ heap = <<>>
  /\ lists = [id \in Ids |-> <<>>]
  /\ seen = <<>>
  /\ calls = <<>> /\ drawn = <<>>

(* node_clone: node k of t at the k-th free address.                       *)
Clone(t) ==
  LET at == Ascending(Addr \ Live)
      children(k) == Ascending(Children(t, k))
      node(k) == [id |-> t[k].id, val |-> t[k].val,
                  parent |-> IF k = 1 THEN NULL ELSE at[ParentOf(t, k)],
                  subnodes |-> [i \in DOMAIN children(k) |-> at[children(k)[i]]]]
  IN  [a \in Live \cup {at[k] : k \in DOMAIN t} |->
         IF a \in Live THEN heap[a] ELSE node(CHOOSE k \in DOMAIN t : at[k] = a)]

(* chunk_store_add_tree up to the call of chunk_store_take_node for the    *)
(* root: the call is pending as the only subnode of NULL.                  *)
AddTree(t) ==
  /\ calls = <<>>
  /\ Cardinality(Addr \ Live) >= Len(t)
  /\ heap' = Clone(t)
  /\ calls' = <<[node |-> NULL, next |-> Min(Addr \ Live)]>>
  /\ UNCHANGED <<lists, seen, drawn>>

(* The node that the innermost call of chunk_store_take_node takes next,   *)
(* and the stack once it has.  Mutants: the loop moves on by two subnodes, *)
(* or not at all.                                                          *)
Pending == LET c == Head(calls)
           IN  IF c.node = NULL THEN c.next ELSE heap[c.node].subnodes[c.next]
MovedOn(n) == LET c == Head(calls)
              IN  IF c.node = NULL THEN Tail(calls)
                  ELSE <<[c EXCEPT !.next = @ + n]>> \o Tail(calls)
TakenTwo == MovedOn(2)
TakenAgain == MovedOn(0)
Taken == MovedOn(1)
MoreToTake == /\ calls # <<>>
              /\ LET c == Head(calls)
                 IN  c.node # NULL => c.next <= Len(heap[c.node].subnodes)

(* A node that has been seen.  Mutant: the duplicate's own node is freed,  *)
(* what is below it is not.                                                *)
TakeDuplicateLeaks ==
  /\ MoreToTake
  /\ Hash(Pending) \in DOMAIN seen
  /\ LET a == Pending
         p == heap[a].parent
         patched == IF p = NULL THEN heap ELSE ReplaceSubnode(p, a, seen[Hash(a)])
     IN  heap' = FreeAll(patched, {a})
  /\ calls' = Taken
  /\ UNCHANGED <<lists, seen, drawn>>

TakeDuplicate ==
  /\ MoreToTake
  /\ Hash(Pending) \in DOMAIN seen
  /\ LET a == Pending
         p == heap[a].parent
         patched == IF p = NULL THEN heap ELSE ReplaceSubnode(p, a, seen[Hash(a)])
     IN  heap' = FreeAll(patched, Below(a))
  /\ calls' = Taken
  /\ UNCHANGED <<lists, seen, drawn>>

(* A brand new node.  Mutant: it is not remembered as seen.                *)
TakeNewForgets ==
  /\ MoreToTake
  /\ Hash(Pending) \notin DOMAIN seen
  /\ lists' = [lists EXCEPT ![heap[Pending].id] = Append(@, Pending)]
  /\ calls' = <<[node |-> Pending, next |-> 1]>> \o Taken
  /\ UNCHANGED <<heap, seen, drawn>>

TakeNew ==
  /\ MoreToTake
  /\ Hash(Pending) \notin DOMAIN seen
  /\ seen' = [h \in DOMAIN seen \cup {Hash(Pending)} |->
                IF h = Hash(Pending) THEN Pending ELSE seen[h]]
  /\ lists' = [lists EXCEPT ![heap[Pending].id] = Append(@, Pending)]
  /\ calls' = <<[node |-> Pending, next |-> 1]>> \o Taken
  /\ UNCHANGED <<heap, drawn>>

(* All subnodes are taken.                                                 *)
Return ==
  /\ calls # <<>> /\ ~MoreToTake
  /\ calls' = Tail(calls)
  /\ UNCHANGED <<heap, lists, seen, drawn>>

(* chunk_store_get_alternative_node: a clone, owned by the caller.         *)
GetAlternativeNode(id) ==
  /\ calls = <<>>
  /\ \E i \in DOMAIN lists[id] : drawn' = <<id, Contents(lists[id][i])>>
  /\ UNCHANGED <<heap, lists, seen, calls>>

(* chunk_store_clear, and chunk_store_init of the next use.                *)
Clear ==
  /\ calls = <<>> /\ seen # <<>>
  /\ heap' = FreeAll(heap, Kept)
  /\ lists' = [id \in Ids |-> <<>>]
  /\ seen' = <<>>
  /\ UNCHANGED <<calls, drawn>>

TakeNode == TakeDuplicate \/ TakeNew \/ Return
Next == \/ \E t \in Inputs : AddTree(t)
        \/ TakeNode
        \/ \E id \in Ids : GetAlternativeNode(id)
        \/ Clear

Spec == Init /\ [][Next]_vars

-----------------------------------------------------------------------------
NodeRec == [id : Ids, val : Vals, parent : Addr \cup {NULL}, subnodes : Seq(Addr)]

TypeOK ==
  /\ Live \subseteq Addr /\ \A a \in Live : heap[a] \in NodeRec
  /\ lists \in [Ids -> Seq(Addr)]
  /\ \A h \in DOMAIN seen : seen[h] \in Addr
  /\ \A k \in DOMAIN calls :
       IF calls[k].node = NULL THEN calls[k].next \in Addr
       ELSE /\ calls[k].node \in Live
            /\ calls[k].next \in 1..(Len(heap[calls[k].node].subnodes) + 1)

(* No pointer dangles: what a live node, a list, the hash map or a call in *)
(* progress points to is live, so neither node_clone nor a later patch or  *)
(* free ever touches freed memory.                                         *)
NoDanglingPointer ==
  /\ \A a \in Live : /\ Range(heap[a].subnodes) \subseteq Live
                     /\ heap[a].parent \in Live \cup {NULL}
  /\ Kept \cup Range(seen) \subseteq Live
  /\ \A k \in DOMAIN calls : calls[k].node \in Live \cup {NULL}

(* Between calls every live node is in one list, at one place, and that is *)
(* the list of its symbol: chunk_store_clear, which frees what the lists   *)
(* hold and nothing below it, frees each node exactly once.                *)
FreedExactlyOnce ==
  calls = <<>> =>
    /\ Live = Kept
    /\ \A id \in Ids : /\ \A i, j \in DOMAIN lists[id] : lists[id][i] = lists[id][j] => i = j
                       /\ \A i \in DOMAIN lists[id] : heap[lists[id][i]].id = id

(* A node that is taken belongs to the clone alone: neither a list nor the *)
(* hash map points at what freeing a duplicate frees.                      *)
DuplicatesAreExclusive ==
  MoreToTake => Below(Pending) \cap (Kept \cup Range(seen)) = {}

(* Nothing is stored twice, so every chunk is as likely to be drawn as any *)
(* other of its symbol.                                                    *)
ChunksAreDistinct ==
  \A a, b \in Kept : a # b => Contents(a) # Contents(b)

-----------------------------------------------------------------------------
(* The chunk store is a set of subtrees: to what the lists hold, the calls *)
(* in progress will add all that is below the nodes still to be taken.     *)
PendingNodes ==
  UNION {IF calls[k].node = NULL THEN {calls[k].next}
         ELSE {heap[calls[k].node].subnodes[i] :
                 i \in calls[k].next..Len(heap[calls[k].node].subnodes)} :
         k \in DOMAIN calls}

InputSubtrees(t) ==
  {[k \in 1..NonTermSize(t, i) |->
      [id |-> t[i+k-1].id, val |-> t[i+k-1].val,
       count |-> Cardinality(Children(t, i+k-1))]] : i \in DOMAIN t}

ChunkSymbol(c) == c[1].id

(* True of trees of a grammar, which an error in the input can spoil: the  *)
(* rule of a node determines how many subnodes it has.                     *)
FixedArity(trees) ==
  \A t, u \in trees : \A i \in DOMAIN t, j \in DOMAIN u :
    t[i].id = u[j].id /\ t[i].val = u[j].val
      => Cardinality(Children(t, i)) = Cardinality(Children(u, j))

Chunks == INSTANCE ChunkSet WITH
            chunks <- {Contents(a) : a \in Kept \cup UNION {Below(p) : p \in PendingNodes}},
            Trees <- Inputs, Subtrees <- InputSubtrees, Symbol <- ChunkSymbol

IsASetOfSubtrees == Chunks!Spec

(* The comment above hash_node: "Use the same fields that `node_equal()`   *)
(* uses, so that we can be reasonably certain that if the hashes are equal *)
(* than `node_equal()` will return true."                                  *)
EqualHashesMeanEqualNodes ==
  \A a, b \in Live : Hash(a) = Hash(b) => Contents(a) = Contents(b)
=============================================================================
