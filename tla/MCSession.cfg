SPECIFICATION Spec
CONSTANTS
  e1 = e1
  e2 = e2
  NoEntry = NoEntry
  NoText = NoText
  Entries <- MCEntries
  Seeds <- MCSeeds
  Parse <- MCParse
  Trims <- MCTrims
  Mutants <- MCMutants
  HavocTexts <- MCHavocTexts
  ImportTexts <- MCImportTexts
  MaxSize = 2
  MaxFaults = 2
  PageSize = 9
INVARIANTS
  TypeOK
  PartialFilesNotAccepted
  TreeFilesMatch
  WorkingTreeIsTheEntrys
  EveryEntryCanBeSpliced
