SPECIFICATION Spec
CONSTANTS
  Windows = {4096}
  BaseCost = 900
  Prompts <- MCPrompts
  Answers <- MCAnswers
  Outputs <- MCOutputs
  Summaries <- MCSummaries
  MaxBatch = 2
  MaxMessages = 9
  MaxRestarts = 0
INVARIANTS BoundariesAdvance
CHECK_DEADLOCK FALSE
