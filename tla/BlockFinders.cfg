CONSTANTS
  s1 = s1
  s2 = s2
  s3 = s3
  p = p
  q = q
  r = r
  h1 = h1
  h2 = h2
  Foreign = Foreign
  None = None
  Shares <- Mined
  Capacity = 2
  Solves = {s1, s2, s3}
  Miner = {p, q, r}
  MinerOf <- Owners
  MainHeight <- Heights
  TimeOf <- Times
  FoundTime <- Reported
  CrashPoint = {"count"}
  GetMayFail = {"warm"}
  SetMayFail = {"last"}
SPECIFICATION FairSpec
INVARIANTS
  TypeOK
  FinderShown
  FinderHadShare
  AgreeAtRest
PROPERTIES
  FindersKept
  LastFoundSettles
