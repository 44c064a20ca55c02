SPECIFICATION Spec

CONSTANTS
  Workers = {w1, w2}
  Requests <- MCRequests
  Body <- MCBody
  Hashes = {red, blue}
  NoHash = NoHash
  red = red  blue = blue
  proposeRed = proposeRed  proposeBlue = proposeBlue
  approveRed = approveRed  rejectRed = rejectRed
  setRed = setRed  setBlue = setBlue
  import = import  delist = delist
  deregister = deregister  withdraw = withdraw
  MaxLog = 3

INVARIANTS
  OnePending
  DecidedOnce
  RejectedNotServed
  ListedIconCurrent

PROPERTIES
  PublishedStays
  ReviewsEnd

\* The log is full, or the registration has ended.
CHECK_DEADLOCK FALSE
