CONSTANTS
  t1 = t1  t2 = t2  work = work  report = report  i1 = i1  None = None
  Turn = {t1}
  Call = {work, report}
  Tools = {"work", "report"}
  ToolOf <- MCToolOf
  Behavior <- MCBehavior
  FinalTools = {"report"}
  Input = {i1}
  MaxSteps = 1
  FinalRounds = 1
  Allowlists = {{"report"}}
  Guarded = {}
  Cancels = {"interrupt", "ctx", "runtime", "results"}
  Faults = {"append", "model", "stream", "guard"}
  MaxRepeats = 1
  MaxCancels = 1
SPECIFICATION Spec
CHECK_DEADLOCK FALSE
INVARIANTS RequestIsPaired CompletedSawInputs
