SPECIFICATION Spec3
CONSTANTS
  Tenants = {owner, other}
  Owner = owner
  WholeSeconds = {TRUE, FALSE}
  UnbornExit = 128
  MaxEvents = 3
  MaxClients = 1
  MaxFaults = 2
  MaxRollbacks = 1
PROPERTIES
  EventsExported
  RequestsServed
  EventuallySettled
INVARIANTS
  BranchConsistent
  RemoteVerifies
  PushedIsRemote
  KeysSafe
CHECK_DEADLOCK FALSE
