SPECIFICATION Spec
CONSTANTS
  Page = 64
  MinLarge = 32
  DefaultFast = 12
  Threshold = 64
  WordSize = 4096
  ZeroAnswers = {FALSE}
  Memory = 256
  Gaps = {0,64}
  Requests = {8,60}
  Groups <- MCGroups
  Alignments = {8,32}
  FastLimits = {20}
  MaxBlocks = 3
  MaxCalls = 6
INVARIANT RefusedOnlyWhenFull
CHECK_DEADLOCK FALSE
