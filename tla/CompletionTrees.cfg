\* The URL grammar alone: Domainlabel has itself as one of its cheapest rules.
SPECIFICATION Spec
CONSTANTS
  Grammars <- UrlOnly
  Calls <- MCCalls
  LeftRecursive <- MCLeftRecursive
  Generated = {}
  InitLens = {}
  max_tree_len = 0
INVARIANT NoCallInsideItself
