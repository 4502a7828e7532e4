SPECIFICATION Spec
CONSTANTS
  c1 = c1
  c2 = c2
  c3 = c3
  c4 = c4
  t1 = t1
  t2 = t2
  bad = bad
  Names = {1, 2, 3}
  Ids = {1}
  Conns = {c1, c2, c3}
  Tokens = {t1, t2, bad}
  ValidTokens = {t1, t2}
  NoBinding = NoBinding
  Claim <- ClaimThree
  Script <- Broadcasts
  Fickle = {}
  Era <- Anytime
  MaxFaults = 1
  MaxCrashes = 1
INVARIANTS
  TypeOK
  AuditTruthful
  FanOutKnown
  AckReachesRow
  AuditComplete
