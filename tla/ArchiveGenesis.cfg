SPECIFICATION FairSpec
CONSTANTS
  Tenants = {owner}
  Owner = owner
  WholeSeconds = {TRUE, FALSE}
  UnbornExit = 128
  MaxEvents = 1
  MaxClients = 0
  MaxFaults = 0
  MaxRollbacks = 0
PROPERTY Exported
CHECK_DEADLOCK FALSE
