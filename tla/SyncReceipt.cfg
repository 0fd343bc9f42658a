CONSTANTS
  s1 = s1 s2 = s2 s3 = s3 s4 = s4 s5 = s5
  d1 = d1 d2 = d2
  p = p q = q
  r1 = r1
  Device = {d1, d2}
  Submission = {s1, s2, s3, s4}
  Entity = {p, q}
  PinState = {p, q}
  RollOf <- Rolls
  Mutation <- SharedRoll
  NoRow = NoRow NoEnvelope = NoEnvelope
  PageLimit = 2
  MaxCrash = 1
SPECIFICATION Spec
INVARIANTS AcceptanceKept
