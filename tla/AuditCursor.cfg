SPECIFICATION AuditSpec

CONSTANTS
  Workers = {w1, w2}
  Assets = {a1}
  All = all
  MaxLimit = 2
  MaxId = 3

INVARIANTS
  FollowedInOrder
  PageHasNoHole

PROPERTY CommittedIsDelivered
