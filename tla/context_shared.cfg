SPECIFICATION ContextSpec
CONSTANTS
  Speakers = {"x", "y"}
  MaxTokens <- MCTokens
  MaxRows = 3
  RowLimit = 3
  Sizes = {1, 2}
  FewTurns = 2
  LongChars = 6
  SlidingSize = 2
  HybridSize = 3
  HeadSize = 1
  ShortSize = 1
INVARIANT ContextsApart
CHECK_DEADLOCK FALSE
