SPECIFICATION Spec

CONSTANTS
  Fetches = {f1, f2}
  Domains = {d1, d2}
  Limit = 1
  Quota = 1
  QuotaWindow = 1
  Cooldown = 1
  Minute = 1
  MaxDomains = 1
  MaxTime = 2
  MaxGeneration = 1

INVARIANTS
  PermitsCounted
  WorkersBounded
  SlidingQuota

PROPERTIES
  CooldownHeld
  RequestReturns
  PermitReturns
