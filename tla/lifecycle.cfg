SPECIFICATION FairSpec
CONSTANTS
  None = None
  Process = {p1, p2}
  Cli = {a, b}
  MaxCommands = 2
  MaxFaults = 2
INVARIANTS PidFileNamesDaemon UnitRestartReplaces CredentialsServed
PROPERTIES ServedAfterStart CommandReturns
CHECK_DEADLOCK FALSE
