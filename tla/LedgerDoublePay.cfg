CONSTANTS
  a = a
  b = b
  c = c
  h1 = h1
  h2 = h2
  m1 = m1
  m2 = m2
  Block = {a}
  Height = {h1}
  HeightOf <- Heights
  Legacy = {}
  Foreign = Foreign
  NoBlock = NoBlock
  Miner = {m1, m2}
  Order <- Orders
  Outputs <- OutputsTwo
  CrashPoint <- MidSave
  MaxHistory = 2
  RpcMayFail = FALSE
  SetMayFail = {}
  GetMayFail = {}
SPECIFICATION Spec
INVARIANTS
  OncePerHeight
