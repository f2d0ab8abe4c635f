SPECIFICATION FairSpec
CONSTANTS
  Scripts <- MCScripts
  Watchers = {"watcher"}
  ChannelSize = 1
INVARIANTS ExactHistory ResultIsWhatWasSent GuardFailsClosed
PROPERTIES GuardReturns
CHECK_DEADLOCK FALSE
