SPECIFICATION Spec
CONSTANTS
  Tenants = {owner}
  Owner = owner
  WholeSeconds = {TRUE, FALSE}
  UnbornExit = 128
  MaxEvents = 2
  MaxClients = 1
  MaxFaults = 0
  MaxRollbacks = 0
INVARIANT RemoteRestores
CHECK_DEADLOCK FALSE
