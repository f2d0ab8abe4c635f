CONSTANTS
  t1 = t1  t2 = t2  work = work  report = report  i1 = i1  None = None
  Turn = {t1, t2}
  Call = {work}
  Tools = {"work", "report"}
  ToolOf <- MCToolOf
  Behavior <- MCBehavior
  FinalTools = {"report"}
  Input = {i1}
  MaxSteps = 2
  FinalRounds = 1
  Allowlists = {{"report"}}
  Guarded = {t2}
  Cancels = {"interrupt", "ctx"}
  Faults = {"append"}
  MaxRepeats = 0
  MaxCancels = 1
SPECIFICATION FairSpec
CHECK_DEADLOCK FALSE
INVARIANTS TurnsDoNotInterleave InputAccounting
PROPERTIES DoneIsPersisted RunFinishes InputAnswered
