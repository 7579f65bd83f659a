\* Three entries trimmed in any order, every sequence of verdicts, abort anywhere.
SPECIFICATION HSpec
CONSTANTS
  e1 = e1
  e2 = e2
  e3 = e3
  Ids <- MCIds
  MinTrees <- MCMinTrees
  Entries <- MCEntries
  EntryTree <- MCEntryTree
INVARIANT EveryNodeTried
