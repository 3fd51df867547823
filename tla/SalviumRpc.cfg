CONSTANTS
  Endpoints = 3
  DifficultyOf <- Forks
  Default = 5
SPECIFICATION FairSpec
INVARIANTS
  EachTried
  IndexComesRound
PROPERTIES
  Recovers
  ZeroFades
