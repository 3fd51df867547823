CONSTANTS
  a = a
  b = b
  c = c
  h1 = h1
  h2 = h2
  m1 = m1
  m2 = m2
  Block = {a}
  Height = {h1}
  HeightOf <- Heights
  Legacy = {a}
  Foreign = Foreign
  NoBlock = NoBlock
  Miner = {m1}
  Order <- OrderOne
  Outputs <- OutputsTwo
  CrashPoint <- NoPoint
  MaxHistory = 2
  RpcMayFail = FALSE
  SetMayFail = {}
  GetMayFail = {}
SPECIFICATION FairSpec
PROPERTIES
  OrphanLeaves
