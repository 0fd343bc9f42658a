CONSTANTS
  s1 = s1 s2 = s2 s3 = s3 s4 = s4
  d1 = d1 d2 = d2
  g = g k = k
  h1 = h1
  Worker = {w1, w2}
  Submission = {s1, s2, s3, s4}
  Device = {d1, d2}
  Entity = {g, k}
  PinState = {}
  Roll = {}
  Hash = {h1}
  Request <- FeedRequests
  NoRoll = NoRoll NoRow = NoRow NoRecord = NoRecord NoRequest = NoRequest
  MaxSeq = 4
  Reader = {d1}
  PageLimit = 2
SPECIFICATION FSpec
INVARIANTS GapsOnlyAcrossSources
