\* Three trees that share subtrees, added and cleared in any order.
SPECIFICATION Spec
CONSTANTS
  Ids = {0, 1, 2}
  Vals = {0, 1}
  Inputs <- MCInputs
  Addr <- MCAddr
  MaxNodes = 7
INVARIANTS
  TypeOK
  NoDanglingPointer
  FreedExactlyOnce
  DuplicatesAreExclusive
  ChunksAreDistinct
PROPERTY IsASetOfSubtrees
