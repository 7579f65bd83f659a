------------------------------ MODULE ChunkSet ------------------------------
(***************************************************************************)
(* What the chunk store promises (src/include/chunk_store.h): it is a set  *)
(* of subtrees.  Adding a tree adds all its subtrees, whether they were    *)
(* there before or not, and a random alternative for a node is a copy of   *)
(* some member with the node's symbol.                                     *)
(***************************************************************************)
CONSTANTS
  Trees,            \* the trees that can be added
  Subtrees(_),      \* the set of subtrees of a tree
  Symbol(_)         \* the symbol of a subtree's root

VARIABLES
  chunks,           \* the set
  drawn             \* the last alternative drawn, with the symbol asked for

set == <<chunks, drawn>>

Init == chunks = {} /\ drawn = <<>>

AddTree(t) == chunks' = chunks \cup Subtrees(t) /\ UNCHANGED drawn

GetAlternative(c) == c \in chunks /\ drawn' = <<Symbol(c), c>> /\ UNCHANGED chunks

Clear == chunks' = {} /\ UNCHANGED drawn

Next == \/ \E t \in Trees : AddTree(t)
        \/ \E c \in chunks : GetAlternative(c)
        \/ Clear

Spec == Init /\ [][Next]_set
=============================================================================
