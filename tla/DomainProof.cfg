SPECIFICATION Spec

CONSTANTS
  Assets = {asset, another}
  Keys = {mine, theirs}
  Malformed = Malformed
  Unrelated = Unrelated
  Absent = Absent
  Requests <- MCRequests
  Body <- MCBody
  Zones <- MCZones
  Public <- MCPublic
  Silent = {silent, dark}
  Closed = {closed}
  Sites <- MCSites
  TxtSets <- MCTxtSets
  Budget = 5
  AttemptTimeout = 2
  MaxAddresses = 3
  asset = asset  another = another  mine = mine  theirs = theirs
  web = web  mirror = mirror  silent = silent  dark = dark
  closed = closed  inside = inside

INVARIANTS
  PeerWasChecked
  AcceptedIsProved
  BoundNotBypassed
  SlowAddressesLeaveTime
