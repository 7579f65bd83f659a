\* Three entries fuzzed in any order, one or two steps of each random kind.
SPECIFICATION HFairSpec
CONSTANTS
  e1 = e1
  e2 = e2
  e3 = e3
  Ids = {1, 2, 3}
  Rules <- MCRules
  NoRule <- NONE
  TextLen <- MCTextLen
  GenTrees <- MCGenTrees
  Entries <- MCEntries
  EntryTree <- MCEntryTree
  RandomChoices = {1, 2}
  RecursiveChoices = {0, 1}
  SplicingChoices = {0, 1}
  RRM_GROWTH = 1
  MaxAttempts = 2
  MaxSize = 4
  MaxFinds = 1
INVARIANTS
  TypeOK
  CandidateReady
  MutantsFollowTheGrammar
  RulesTriedOnce
  RulesStageComplete
PROPERTIES
  SchedulePerformed
