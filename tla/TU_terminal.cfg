SPECIFICATION Spec
CONSTANTS
  s1 = s1
  m = m
  p = p
  q = q
  None = None
  Main = Main
  Sub = {s1}
  Approval = {m, p, q}
  Owner <- MCOwner
  Kind <- MCKind
  MaxStimuli = 5
  MaxText = 1
  MaxRequests = 1
  v1 = v1
  v2 = v2
  Viewer = {v1, v2}
  LogLimit = 2
  UpdateLimit = 1
  MaxLogs = 3
INVARIANTS QueueAdvances PromptVisible ScreenExact SettledLeaves
CHECK_DEADLOCK FALSE
