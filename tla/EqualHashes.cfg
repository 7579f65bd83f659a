\* Two trees with nodes in error.
SPECIFICATION Spec
CONSTANTS
  Ids = {0, 1, 2}
  Vals = {0, 1, 9}
  Inputs <- MCErrorInputs
  Addr <- MCAddr
  MaxNodes = 3
INVARIANT EqualHashesMeanEqualNodes
