SPECIFICATION FairSpec
CONSTANTS
  Turn = {"t1", "t2"}
  SessionOf <- OneSession
  Rounds <- ProgressRounds
  Needs <- ProgressNeeds
  Confirms = {"shell", "ask"}
  Loads = {}
  NeedsSkill = {}
  Limited = {}
  Limit = 1
  EndTools = {}
  Guarded = {}
  Rules <- ProgressRules
  FirstMode = "default"
  LaterModes = {"plan"}
  MaxModeChanges = 1
  NonInteractive = FALSE
  HasProject = TRUE
  Workers = 1
  Resolver = {r1}
  Answers = {"allow_session", "deny", "yes", "no"}
  Expiring = {}
  Interruptible = {"t1"}
  Faults = {"stop"}
PROPERTIES EveryRoundEnds
CHECK_DEADLOCK FALSE
