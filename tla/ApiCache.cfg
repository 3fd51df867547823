CONSTANTS
  p = p
  q = q
  found = found
  payouts = payouts
  Handler = {p, q}
  Parts <- FoundThenPayouts
  Required = {found}
  MaxVersion = 2
  TTL = 1
  MaxFetch = 1
SPECIFICATION FairSpec
INVARIANTS
  FreshEnough
  CachedIsUsable
PROPERTIES
  Converges
  ExpiredLeaves
