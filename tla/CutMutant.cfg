\* No faults, no havoc stage: a mutant longer than max_size is enough.
SPECIFICATION Spec
CONSTANTS
  e1 = e1
  e2 = e2
  NoEntry = NoEntry
  NoText = NoText
  Entries <- MCEntries
  Seeds <- MCSeeds
  Parse <- MCParse
  Trims <- MCTrims
  Mutants <- MCMutants
  HavocTexts = {}
  ImportTexts = {}
  MaxSize = 2
  MaxFaults = 0
  PageSize = 9
INVARIANT TreeFilesCorrespond
