CONSTANTS
  s0 = s0
  s1 = s1
  s2 = s2
  s3 = s3
  t = t
  u0 = u0
  u1 = u1
  none = none
  m1 = m1
  m2 = m2
  m3 = m3
  Id = {s0, s1, s2, s3, t, u0, u1}
  NoShare = none
  Address = {m1, m2, m3}
  ShareMap <- ShareMaps
  MainchainDiff = {80, 140, 200, 400}
  Reward = {0, 1, 10, 100, 250}
  PPLNSWindow = 3
  UnclePenalty = 20
  PositionBuckets = 30
  HalfWord = 16
  WordBits = 8
  Clock <- Clocks
SPECIFICATION Spec
CHECK_DEADLOCK FALSE
INVARIANTS
  TypeOK
  WeightConserved
  LimitKept
  WindowIsRecent
  PositionsShown
  SplitExact
  MatchedWithinDust
  WordsExact
  WindowStored
  HashrateInSpan
