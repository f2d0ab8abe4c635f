CONSTANTS
  c1 = c1  c2 = c2  m1 = m1  m2 = m2  None = None
  Call = {c1, c2}
  Creator = c1
  Message = {m1, m2}
  Background = {c2}
  ForegroundWait = TRUE
  Cancellable = {c1}
  Failures = {"start", "store"}
  Closes = TRUE
  Shuts = TRUE
  ShutdownSends = 1
SPECIFICATION FairSpec
CHECK_DEADLOCK FALSE
INVARIANTS OneOwner EventBeforeReturn MailboxOrder RetainedResumable
PROPERTIES MailboxDrains StoredDeliveryArrives ShutdownCompletes
