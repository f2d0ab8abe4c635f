SPECIFICATION Spec
CONSTANTS
  Windows = {4096, 8192}
  BaseCost = 900
  Prompts <- MCPrompts
  Answers <- MCAnswers
  Outputs <- MCOutputs
  Summaries <- MCSummaries
  MaxBatch = 2
  MaxMessages = 7
  MaxRestarts = 1
INVARIANTS NothingForgotten RequestIsLegal RequestFits
PROPERTIES ForcedSendsLess
CHECK_DEADLOCK FALSE
