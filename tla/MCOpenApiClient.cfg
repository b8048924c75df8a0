SPECIFICATION FairSpec
CONSTANTS
  Tasks = {t1, t2}
  Tokens = {k1, k2}
  Hosts = {h1, h2}
  NoTask = NoTask
  NoToken = NoToken
  NoHost = NoHost
INVARIANTS
  RefreshOnlyWhenRejected
  TokenHostPaired
  RetryUsesOtherToken
PROPERTIES
  EveryCallEnds
  TokenIsSingleFlight
