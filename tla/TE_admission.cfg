SPECIFICATION Spec
CONSTANTS
  Turn = {"t1", "t2"}
  SessionOf <- TwoSessions
  Rounds <- AdmissionRounds
  Needs <- AdmissionNeeds
  Confirms = {"shell"}
  Loads = {"load"}
  NeedsSkill = {"edit"}
  Limited = {"edit", "patch"}
  Limit = 1
  EndTools = {"finish"}
  Guarded = {"load", "finish"}
  Rules <- AdmissionRules
  FirstMode = "default"
  LaterModes = {"plan"}
  MaxModeChanges = 1
  NonInteractive = FALSE
  HasProject = TRUE
  Workers = 1
  Resolver = {r1}
  Answers = {"allow_once", "allow_session", "yes", "no"}
  Expiring = {"confirmation"}
  Interruptible = {}
  Faults = {"prompt", "descriptor", "forward"}
INVARIANTS HandlerAuthorized ResolvedBeforeResult
PROPERTIES NoStartUnderDeny
CHECK_DEADLOCK FALSE
