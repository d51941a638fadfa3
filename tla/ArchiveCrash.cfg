SPECIFICATION FairSpec
CONSTANTS
  Tenants = {owner}
  Owner = owner
  WholeSeconds = {FALSE}
  UnbornExit = 128
  MaxEvents = 2
  MaxClients = 0
  MaxFaults = 1
  MaxRollbacks = 0
PROPERTY CrashReconciled
CHECK_DEADLOCK FALSE
