SPECIFICATION ConfigSpec
CONSTANTS
  motion = motion
  relay = relay
  r14800 = r14800
  r108800 = r108800
  r11900 = r11900
  r131800 = r131800
  good = good
  bad = bad
  NoName = NoName
  NoProduct = NoProduct
  NoChannel = NoChannel
  Names = {r14800, r108800, r11900, r131800}
  Products = {good, bad}
  ChannelIds = {"0", "1"}
  Types = {motion, relay}
  RefTable <- SomeRefs
  AbilityTable <- SomeAbilities
  Excepts <- SomeExcepts
  BulbRef = r131800
  Relay = relay
INVARIANTS
  DeviceLevelOnce
PROPERTIES
  GainsKeepEntities
