SPECIFICATION Spec
CONSTANTS
  Grammars <- MCGrammars
  Calls <- MCCalls
  LeftRecursive <- MCLeftRecursive
  Generated <- MCGenerated
  InitLens <- MCInitLens
  max_tree_len = 10
INVARIANTS
  TypeOK
  CostsAreLeast
  CostsBelongToRules
  ProgramsAgree
  PoolTreesAreShortest
  NoCallInsideItself
  AllFittingRulesMayBeChosen
  LengthWithinMax
  ConsumedIsLength
  BudgetShrinks
PROPERTY
  BuildEnds
