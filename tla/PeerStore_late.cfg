SPECIFICATION Spec
CHECK_DEADLOCK FALSE
CONSTANTS
  here = here
  b = b
  c = c
  root = root
  ROOT = root
  Me = here
  Scenarios <- LateScenarios
  Senders <- MCSenders
  Offers <- MCOffers
  Trusted <- MCTrusted
  MaxList = 2
  MaxInbound = 2
  Validity = 1
  MaxNow = 2
INVARIANT StoredBeforeCounted
