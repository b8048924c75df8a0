SPECIFICATION CountdownFairSpec
CONSTANTS
  Default = Default
  NoKey = NoKey
  power = power
  switch = switch
  minutes = minutes
  select = select
  panel = panel
  Listings <- SomeListings
  Polled = {}
  Service = {power}
  Reported = {}
  Keyed = {switch, minutes}
  Relay = switch
  Minutes = minutes
  On = n
  Selects = {select}
  Panel = {panel}
  Numbers = {n}
  Codes = {e}
  Readers = {r1}
  Writers = {w1}
INVARIANTS
  OnlySensorsComeBack
  LastValueSurvives
  CountdownTurnsOver
PROPERTIES
  AcceptedWriteShows
  ServiceGhostsFade
