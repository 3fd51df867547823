CONSTANTS
  p = p
  q = q
  Request = {p, q}
  Streaming = {p}
  Items = 2
  CacheTime = 1
  ListTime = 2
  MaxRequest = 1
SPECIFICATION Spec
INVARIANTS
  PageFresh
  FailureFades
  StreamHasReader
