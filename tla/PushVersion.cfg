CONSTANTS
  s1 = s1 s2 = s2 s3 = s3 s4 = s4 s5 = s5
  d1 = d1 d2 = d2
  p = p q = q g = g
  r1 = r1 r2 = r2
  h1 = h1 h2 = h2
  Worker = {w1, w2}
  Submission = {s1, s2, s3, s4, s5}
  Device = {d1, d2}
  Entity = {g}
  PinState = {}
  Roll = {r1, r2}
  Hash = {h1, h2}
  Request <- VersionRequests
  NoRoll = NoRoll NoRow = NoRow NoRecord = NoRecord NoRequest = NoRequest
  MaxSeq = 3
SPECIFICATION Spec
INVARIANTS ExactlyOnce VersionChain EntityFeedOrdered ReplyIsDurable
PROPERTIES ImplementsStore VerdictFinal ConflictIsCurrent
