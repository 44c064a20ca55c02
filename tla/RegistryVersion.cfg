SPECIFICATION Spec

CONSTANTS
  Writers = {w1, w2}
  Clients = {c1}
  MaxClock = 4
  MaxChanges = 3

INVARIANTS
  KeptIsCurrent

PROPERTIES
  NotModifiedResumes
