CONSTANTS
  a = a
  b = b
  c = c
  h1 = h1
  h2 = h2
  m1 = m1
  m2 = m2
  Block = {a, c}
  Height = {h1, h2}
  HeightOf <- Heights
  Legacy = {}
  Foreign = Foreign
  NoBlock = NoBlock
  Miner = {m1, m2}
  Order <- OrderBoth
  Outputs <- OutputsTwo
  CrashPoint <- Idle
  MaxHistory = 2
  RpcMayFail = FALSE
  SetMayFail = {}
  GetMayFail = {"processed"}
  MaxRebuilds = 1
  Moving = {h2}
SPECIFICATION RebuildSpec
INVARIANTS
  PaidUnlessTorn
