SPECIFICATION Spec

CONSTANTS
  Ips = {ip1, ip2, ip3}
  NoIp = NoIp
  Limit = 2
  Window = 2
  PruneInterval = 3
  MaxTracked = 2
  MaxTime = 5

SYMMETRY Symmetry

INVARIANTS
  SlidingLimit
  TableBounded
  RefusedForCause
