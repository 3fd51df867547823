CONSTANTS
  a = a
  b = b
  c = c
  h1 = h1
  h2 = h2
  m1 = m1
  m2 = m2
  Block = {a, c}
  Height = {h1, h2}
  HeightOf <- Heights
  Legacy = {}
  Foreign = Foreign
  NoBlock = NoBlock
  Miner = {m1, m2}
  Order <- Orders
  Outputs <- OutputsMixed
  CrashPoint <- MidSave
  MaxHistory = 2
  RpcMayFail = FALSE
  SetMayFail = {"processed"}
  GetMayFail = {}
SPECIFICATION Spec
SYMMETRY MinerSymmetry
INVARIANTS
  ProcessedIsPaid
PROPERTIES
  LedgerAppendOnly
