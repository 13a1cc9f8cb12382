CONSTANTS
  w1 = w1
  w2 = w2
  t1 = t1
  t2 = t2
  Workers <- TwoWorkers
  Tokens <- TwoTokens
  NoValue = NoValue
  Heartbeat = 1
  Ttl = 4
  MaxFlight = 1
SPECIFICATION FairSpec
INVARIANTS TypeOK TimelyHolderOwns ReleaseDeletesOwnGrant
PROPERTIES LeaseSpec OrphanIsFreed
