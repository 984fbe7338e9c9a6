CONSTANTS
  r1 = r1
  r2 = r2
  r3 = r3
  org = org
  ws = ws
  tokens = tokens
  requests = requests
  Reservations = {r1, r2, r3}
  LeaseKeys = {org, ws}
  Counters = {tokens, requests}
  TokenCounters = {tokens}
  Leases <- OrgThenWorkspace
  Windows <- TokensThenRequests
  LeaseLimit <- TwoAndOne
  WindowLimit <- ThreeAndOne
  Estimates = {2}
  Actuals = {1, 3}
  Window = 2
  LeaseTtl = 2
  MaxRun = 4
  Heartbeats = TRUE
SPECIFICATION Spec
SYMMETRY Symmetry
INVARIANTS ConcurrencyRespected NoLeaseLeaks NeverOvercounts
