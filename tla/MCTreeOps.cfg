\* Working trees of up to 4 nodes, edges repeated once or twice.
SPECIFICATION Spec
CONSTANTS
  Addresses = {1,2,3,4,5,6,7,8,9,10,11,12,13,14,15,16,17,18,19,20}
  GenTrees <- MCGenTrees
  MinTrees <- MCMinTrees
  Chunks <- MCChunks
  GROWTH = 1
  MaxNodes = 4
INVARIANTS
  TypeOK
  HeapIsSound
PROPERTY
  ImplementsTreeChanges
