------------------------------ MODULE TreeFiles ------------------------------
(***************************************************************************)
(* The files under trees/: tree_serialize and tree_deserialize of          *)
(* src/src/tree.c.                                                         *)
(*                                                                         *)
(* Here a tree is the preorder sequence of ALL its nodes, terminals too,   *)
(* each with its number of subnodes; a file is a sequence of cells, a cell *)
(* being one of the four 32 bit fields of a node or one byte of its value. *)
(* Pages are counted in cells as well: how many of them are mapped behind  *)
(* the end of a file is all that depends on it.                            *)
(***************************************************************************)
EXTENDS Sums, SequencesExt

CONSTANT PageSize  \* cells of a page of memory

ASSUME PageSizeAssumption == PageSize \in Nat \ {0}

TreeNode == [id : Nat, rule_id : Nat, subnode_count : Nat, val : Seq(Nat)]

(* t is one tree and the whole of it: its nodes are the root and the       *)
(* subnodes of its nodes, each after the node it belongs to.               *)
WholeTree(t) ==
  LET counts == [i \in DOMAIN t |-> t[i].subnode_count]
  IN  /\ Len(t) = SumSeq(counts) + 1
      /\ \A i \in 0..(Len(t) - 1) : i < PartialSums(counts)[i] + 1

(* _node_serialize: a node's fields, its value, then its subnodes.         *)
Serialize(t) ==
  FlattenSeq([i \in DOMAIN t |->
    <<t[i].id, t[i].rule_id, t[i].subnode_count, Len(t[i].val)>> \o t[i].val])

(* tree_to_buf: the values of the leaves.                                  *)
TextOf(t) == FlattenSeq([i \in DOMAIN t |->
                           IF t[i].subnode_count = 0 THEN t[i].val ELSE <<>>])

-----------------------------------------------------------------------------
(* min_len: the four fields.                                               *)
FIELDS == 4

(* data_size - *consumed_size < min_len.  The sizes are unsigned: once a   *)
(* value has run past the end the difference is huge, and the check passes. *)
NotEnoughData(file, consumed) ==
  consumed <= Len(file) /\ Len(file) - consumed < FIELDS

(* mmap of a file maps whole pages.                                        *)
Mapped(file) == Len(file) + ((PageSize - (Len(file) % PageSize)) % PageSize)

(* Between the end of the file and the end of its last page there are zeros. *)
Cell(file, k) == IF k <= Len(file) THEN file[k] ELSE 0

NodeAt(file, consumed) ==
  [id |-> Cell(file, consumed+1), rule_id |-> Cell(file, consumed+2),
   subnode_count |-> Cell(file, consumed+3),
   val |-> [k \in 1..Cell(file, consumed+4) |-> Cell(file, consumed + FIELDS + k)]]

(* A position is a pair: the cells consumed and the nodes still to be read, *)
(* for the recursion of _node_deserialize reads them in preorder.          *)
After(file, at) == LET node == NodeAt(file, at[1])
                   IN  <<at[1] + FIELDS + Len(node.val), (at[2] - 1) + node.subnode_count>>

(* The fields of the next node, or the val_len bytes that node_set_val     *)
(* copies, do not all lie in what is mapped.  The model follows the reader *)
(* no further: see MayFault.                                               *)
RunsOff(file, at) == After(file, at)[1] > Mapped(file)

AtEnd(file, at) == at[2] = 0 \/ NotEnoughData(file, at[1]) \/ RunsOff(file, at)

Ended(at) == [nodes |-> <<>>, consumed |-> at[1], failed |-> at[2] # 0]

WithNode(node, rest) == [rest EXCEPT !.nodes = <<node>> \o @]

(* _node_deserialize from each position.                                   *)
Readings(file) ==
  LET Read[at \in Nat \X Nat] ==
        IF AtEnd(file, at) THEN Ended(at)
        ELSE WithNode(NodeAt(file, at[1]), Read[After(file, at)])
  IN  Read

ReadNodes(file) == Readings(file)[<<0, 1>>]

(* tree_deserialize; <<>> is NULL.  Mutant: the sizes are not compared     *)
(* once more at the end.                                                   *)
DeserializeUnchecked(file) ==
  LET read == ReadNodes(file) IN IF read.failed THEN <<>> ELSE read.nodes

Deserialize(file) ==
  LET read == ReadNodes(file)
  IN  IF read.failed \/ read.consumed > Len(file) THEN <<>> ELSE read.nodes

(* The reader ran off what is mapped.  Where nothing is mapped there, that *)
(* is a fault.  Where something is, it reads on with consumed_size, which  *)
(* only grows, past data_size: it faults later, or ends with NULL.         *)
MayFault(file) ==
  LET read == ReadNodes(file)
  IN  read.failed /\ ~NotEnoughData(file, read.consumed)

-----------------------------------------------------------------------------
(* Where the cells of each node of t end in its file, and the files of t   *)
(* that were cut in the value of a node, behind its four fields.           *)
Offsets(t) == PartialSums([i \in DOMAIN t |-> FIELDS + Len(t[i].val)])

CutInAValue(file, t) ==
  \E i \in DOMAIN t : /\ Offsets(t)[i-1] + FIELDS <= Len(file)
                      /\ Len(file) < Offsets(t)[i]
=============================================================================
