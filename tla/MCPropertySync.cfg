SPECIFICATION FairSpec
CONSTANTS
  NoValue = NoValue
  Writers = {w1, w2}
  Pollers = {p1}
  ChannelIds = {"0", "other", "none"}
  KindOf <- MCKindOf
  ValuesOf <- MCValuesOf
  MaxWrites <- MCMaxWrites
  MaxChanges <- MCMaxChanges
PROPERTIES
  SuccessReachedEveryLevel
  LocalIsMirror
  Converges
