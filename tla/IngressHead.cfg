SPECIFICATION Spec4
CONSTANTS
  p1 = p1
  p2 = p2
  q1 = q1
  q2 = q2
  Pollers = {p1}
  Paths = {q1, q2}
  Foreign = "readme"
  Payload <- Payloads
  Forged = {"m"}
  MaxVerified = 2
  MaxNew = 2
  MaxAttempts = 2
  Budgets <- Pollings
  r1 = r1
  host = host
  tunnel = tunnel
  CredentialBudgets <- Administrations
  i1 = i1
  i2 = i2
  NoOne = NoOne
  g1 = g1
  g2 = g2
  g3 = g3
  Home <- Homes
  Exchanges <- Streams
INVARIANT EverythingBelowIsTerminal
CHECK_DEADLOCK FALSE
