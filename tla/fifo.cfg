SPECIFICATION Spec
CONSTANTS
  c1 = c1
  c2 = c2
  c3 = c3
  c4 = c4
  t1 = t1
  t2 = t2
  bad = bad
  Names = {1, 2}
  Ids = {1, 2}
  Conns = {c1, c2, c3}
  Tokens = {t1, t2, bad}
  ValidTokens = {t1, t2}
  NoBinding = NoBinding
  Claim <- ClaimReconnect
  Script <- SendTwo
  Fickle = {}
  Era <- Anytime
  MaxFaults = 0
  MaxCrashes = 0
INVARIANTS
  PerSenderFIFO
