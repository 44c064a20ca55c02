SPECIFICATION Spec

CONSTANTS
  Workers = {w1, w2}
  Requests <- MCRequests
  Body <- MCBody
  Assets = {first, second}
  Names = {gold}
  Contracts = {contract, other}
  ChainTxs = {mint, remint, forge}
  Issues <- MCIssues
  Outpoints = {outpoint, output}
  Absent = Absent
  InitialRows <- MCInitialRows
  EnforceChain = TRUE
  ShadowWrite = TRUE
  Batch = 1
  MaxRows = 2
  first = first  second = second  gold = gold
  contract = contract  other = other
  mint = mint  remint = remint  forge = forge
  outpoint = outpoint  output = output
  registerV2 = registerV2  registerLegacy = registerLegacy
  import = import  delete = delete  backfill = backfill

INVARIANTS
  OneActive
  AcceptedIsDone
  BackfillCovers
  ListedReferences

PROPERTIES
  ReferencesKept
  RequestsEnd
