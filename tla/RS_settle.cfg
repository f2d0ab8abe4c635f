CONSTANTS
  m1 = m1  m2 = m2  c1 = c1  c2 = c2
  a1 = a1  a2 = a2  w1 = w1  w2 = w2  k1 = k1
  NoTurn = NoTurn  NoWork = NoWork
  MainTurn <- MCMainTurn
  Continuation <- MCContinuation
  Subagent <- MCSubagent
  Work <- MCWork
  SubagentOf <- MCShared
  Direct = {}
  EndTool = {}
  Closable = {a1}
  Interruptible = {}
  LateCaller = {}
  Failures = {"store"}
  DeliveryCap = 2
SPECIFICATION FairSpec
CHECK_DEADLOCK FALSE
INVARIANT EndedScopeOwesNothing
PROPERTIES SettlesOwnAssignment ScopeEnds
