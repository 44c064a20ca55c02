SPECIFICATION Spec

CONSTANTS
  Names <- MCNames
  Values <- MCValues
  Keys <- MCKeys
  InitialKey = k1
  Genesis = Genesis
  Migration = Migration
  n1 = n1  n2 = n2  v1 = v1  v2 = v2  k1 = k1  k2 = k2  k3 = k3
  editA = editA  editB = editB  editC = editC
  rotateA = rotateA  rotateB = rotateB  deregister = deregister
  reused = reused  migrate = migrate  withdraw = withdraw
  Workers = {w1, w2}
  Requests <- EditRequests
  Body <- EditBody
  InitialSource = "contract"
  Window = 0
  MaxTime = 0
  MaxSequence = 3

INVARIANTS
  ChainIsLinear

\* Every delivery has been made and the registry waits for more.
CHECK_DEADLOCK FALSE
