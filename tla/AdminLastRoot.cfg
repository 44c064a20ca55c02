SPECIFICATION Spec

CONSTANTS
  Keys <- MCKeys
  Body <- MCBody
  Genesis = genesis
  genesis = genesis  ada = ada  bob = bob
  addRoot = addRoot  addManager = addManager  leave = leave
  dropGenesis = dropGenesis  dropRoot = dropRoot
  rise = rise  restore = restore  reused = reused
  Workers = {w1, w2}
  Requests = {addRoot, dropGenesis, dropRoot}
  MaxTime = 1
  MaxLog = 3

INVARIANT ActiveRootRemains
